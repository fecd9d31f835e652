----------------------------- MODULE MCPodStats -----------------------------
(***************************************************************************)
(* Instances of PodStats for TLC.  Pod names are over the letters a and b. *)
(***************************************************************************)
EXTENDS PodStats

\* Series of a container, of a pod as a whole, of a pod's volume, and one
\* that lacks the pod's name.
OfContainer(pod, container, cost) ==
  [labels |-> [pod |-> pod, container |-> container], cost |-> cost]
OfVolume(pod, pvc, cost) ==
  [labels |-> [pod |-> pod, persistentvolumeclaim |-> pvc], cost |-> cost]
Nameless(cost) == [labels |-> [container |-> <<"a">>], cost |-> cost]

a == <<"a">>
b == <<"b">>
ab == <<"a", "b">>

\* Two containers, of pods whose names, followed by the containers', collide
\* with each other or with another pod's volumes; a pod with two volumes.
ContainerAnswers(cost) ==
  { <<>>,
    <<OfContainer(a, b, cost)>>,
    <<OfContainer(a, b, cost), OfContainer(b, a, cost + 1)>>,
    <<OfContainer(a, b, cost), OfContainer(ab, <<>>, cost + 1)>>,
    <<OfContainer(a, b, cost), Nameless(cost + 1)>>,
    QueryError }

VolumeAnswers(cost) ==
  { <<OfVolume(ab, "v", cost), OfVolume(ab, "w", cost + 1)>>,
    <<OfVolume(b, "v", cost)>>,
    QueryError }

MCQueryOutcomes ==
  [cpu : ContainerAnswers(1), ram : ContainerAnswers(3),
   storage : VolumeAnswers(5)]
=============================================================================

------------------------- MODULE ProcessTree_proofs -------------------------
(***************************************************************************)
(* Proofs that the workers' costs and the shares of marshalling and        *)
(* process-io match the statistics, for any sources, pods and factors, and *)
(* whatever the order in which they are visited.                           *)
(***************************************************************************)
EXTENDS ProcessTree, Sums, FiniteSetTheorems, TLAPS

-----------------------------------------------------------------------------
(* The inductive invariant: what the proofs need beyond the properties     *)

\* The result and the history are records with these fields.
Shapes ==
  /\ processCost = [month |-> processCost.month, children |-> processCost.children]
  /\ \A name \in DOMAIN processCost.children :
       processCost.children[name] =
         [month    |-> processCost.children[name].month,
          children |-> processCost.children[name].children]
  /\ seen = [workers |-> seen.workers, marshalling |-> seen.marshalling,
             io |-> seen.io]

\* Finitely many pods with costs, none named like a share.
ArePods(pods) ==
  /\ IsFiniteSet(pods)
  /\ \A p \in pods : p.cost \in Nat /\ p.name \notin {"marshalling", "process-io"}

\* The pods of the sources visited, none of which is visited again.
SeenInv ==
  /\ ArePods(seen.workers) /\ ArePods(seen.marshalling) /\ ArePods(seen.io)
  /\ phase \in {"workers", "pods"} => \A p \in seen.workers : p.id[1] \notin sources
  /\ phase = "marshalling" => \A p \in seen.marshalling : p.id[1] \notin sources
  /\ phase = "process-io" => \A p \in seen.io : p.id[1] \notin sources
  /\ phase \in {"call", "userProcessFactor"} => seen.workers = {}
  /\ phase \in {"call", "userProcessFactor", "workers", "pods"} =>
       seen.marshalling = {}
  /\ phase \notin {"process-io", "done", "failed"} => seen.io = {}

\* The pods that have been added.
Added == seen.workers \ stats

AddedOf(name) == {p \in Added : p.name = name}

\* WorkersMatchStats, for the pods added so far.
WorkersInv ==
  /\ stats \subseteq seen.workers
  /\ phase \notin {"pods", "failed"} => stats = {}
  /\ Workers = {p.name : p \in Added}
  /\ \A name \in Workers :
       processCost.children[name].month =
         Costs(AddedOf(name)) * factor["userProcess"]
  /\ processCost.month = WorkerCosts

BeforeTotals == {"call", "userProcessFactor", "workers", "pods"}

\* What the totals are the sums of, and when the shares are added.
SharesInv ==
  /\ phase \in BeforeTotals => total = 0
  /\ phase \in {"marshalling", "userMarshallerFactor", "processMarshallerFactor"} =>
       total = Costs(seen.marshalling)
  /\ phase = "process-io" => total = Costs(seen.io)
  /\ phase \in BeforeTotals \cup {"marshalling", "userMarshallerFactor",
                                  "processMarshallerFactor"} =>
       "marshalling" \notin DOMAIN processCost.children
  /\ "marshalling" \in DOMAIN processCost.children =>
       processCost.children["marshalling"].month =
         Costs(seen.marshalling) * factor["processMarshaller"]
                                 * factor["userMarshaller"]
  /\ "process-io" \in DOMAIN processCost.children =>
       /\ phase = "done"
       /\ processCost.children["process-io"].month = Costs(seen.io) * factor["userIo"]

IInv == TypeOK /\ Shapes /\ SeenInv /\ WorkersInv /\ SharesInv

-----------------------------------------------------------------------------
(* The costs of sets of pods                                               *)

LEMMA CostsType ==
  ASSUME NEW pods, ArePods(pods)
  PROVE  Costs(pods) \in Nat
  <1> DEFINE f == [p \in pods |-> p.cost]
  <1>1. \A p \in pods : f[p] \in Nat
    BY DEF ArePods
  <1>2. Costs(pods) = SumFunctionOnSet(f, pods)
    BY DEF Costs, SumFunction
  <1> HIDE DEF f
  <1> QED
    BY <1>1, <1>2, SumNat DEF ArePods

\* No pods cost nothing.
LEMMA CostsEmpty == Costs({}) = 0
  <1>1. Costs({}) = SumFunctionOnSet([p \in {} |-> p.cost], {})
    BY DEF Costs, SumFunction
  <1> QED
    BY <1>1, SumEmpty

\* Two sets that share no pod cost what each of them does.
LEMMA CostsUnion ==
  ASSUME NEW A, ArePods(A), NEW B, ArePods(B), A \cap B = {}
  PROVE  ArePods(A \cup B) /\ Costs(A \cup B) = Costs(A) + Costs(B)
  <1> DEFINE f == [p \in A \cup B |-> p.cost]
             fA == [p \in A |-> p.cost]
             fB == [p \in B |-> p.cost]
  <1>1. IsFiniteSet(A) /\ IsFiniteSet(B) /\ IsFiniteSet(A \cup B)
    BY FS_Union DEF ArePods
  <1>2. ArePods(A \cup B)
    BY <1>1 DEF ArePods
  <1>3. /\ \A p \in A \cup B : f[p] \in Int
        /\ \A p \in A : f[p] = fA[p]
        /\ \A p \in B : f[p] = fB[p]
    BY DEF ArePods
  <1>4. /\ Costs(A \cup B) = SumFunctionOnSet(f, A \cup B)
        /\ Costs(A) = SumFunctionOnSet(fA, A)
        /\ Costs(B) = SumFunctionOnSet(fB, B)
    BY DEF Costs, SumFunction
  <1> HIDE DEF f, fA, fB
  <1>5. SumFunctionOnSet(f, A \cup B) =
          SumFunctionOnSet(f, A) + SumFunctionOnSet(f, B)
    BY <1>1, <1>3, SumDisjoint
  <1>6. /\ SumFunctionOnSet(f, A) = SumFunctionOnSet(fA, A)
        /\ SumFunctionOnSet(f, B) = SumFunctionOnSet(fB, B)
    BY <1>1, <1>3, SumEqual
  <1> QED
    BY <1>2, <1>4, <1>5, <1>6

\* One pod more.
LEMMA CostsAdd ==
  ASSUME NEW pods, ArePods(pods), NEW p, p \notin pods, ArePods({p})
  PROVE  Costs(pods \cup {p}) = Costs(pods) + p.cost
  <1> DEFINE f == [q \in {p} |-> q.cost]
  <1>1. Costs({p}) = SumFunctionOnSet(f, {p})
    BY DEF Costs, SumFunction
  <1>2. f[p] = p.cost /\ p.cost \in Int
    BY DEF ArePods
  <1>3. SumFunctionOnSet(f, {p}) = f[p] + SumFunctionOnSet(f, {})
    <2>1. {p} \ {p} = {} /\ IsFiniteSet({p})
      BY FS_Singleton
    <2>2. \A q \in {p} : f[q] \in Int
      BY <1>2
    <2> HIDE DEF f
    <2> QED
      BY <2>1, <2>2, SumRemove
  <1>4. Costs({p}) = p.cost
    BY <1>1, <1>2, <1>3, SumEmpty
  <1> QED
    BY <1>4, CostsUnion

\* What getStats answers for a namespace are pods of that namespace.
LEMMA InType ==
  ASSUME NEW k, NEW pods \in PodSets
  PROVE  ArePods(In(k, pods)) /\ \A p \in In(k, pods) : p.id[1] = k
  <1> DEFINE tag(p) == [p EXCEPT !.id = <<k, @>>]
  <1>1. \A p \in pods : /\ tag(p).cost \in Nat /\ tag(p).id[1] = k
                        /\ tag(p).name \notin {"marshalling", "process-io"}
    <2> SUFFICES ASSUME NEW p \in pods
        PROVE  /\ tag(p).cost \in Nat /\ tag(p).id[1] = k
               /\ tag(p).name \notin {"marshalling", "process-io"}
      OBVIOUS
    <2>1. p \in [id : {p.id}, name : STRING \ {"marshalling", "process-io"},
                 cost : Nat]
      BY PodsAssumption
    <2> QED
      BY <2>1
  <1>2. In(k, pods) = {tag(p) : p \in pods}
    BY DEF In
  <1>3. IsFiniteSet(pods)
    BY PodsAssumption
  <1>4. IsFiniteSet(In(k, pods))
    <2> HIDE DEF tag
    <2> DEFINE f == [p \in pods |-> tag(p)]
    <2>1. f \in Surjection(pods, In(k, pods))
      BY <1>2 DEF Surjection
    <2> QED
      BY <1>3, <2>1, FS_Surjection
  <1> QED
    BY <1>1, <1>2, <1>4 DEF ArePods

\* Every factor is a natural number.
LEMMA FactorType ==
  ASSUME TypeOK, NEW n \in FactorNames
  PROVE  factor[n] \in Nat
  <1>1. factor[n] \in Factors \/ factor[n] = 0
    BY DEF TypeOK
  <1>2. factor[n] \in Factors => factor[n] \in Nat
    BY FactorsAssumption, Zenon
  <1> QED
    BY <1>1, <1>2

-----------------------------------------------------------------------------
(* The steps                                                               *)

\* At first nothing has been seen, and nothing costs anything.
LEMMA InitInvariant == Init => IInv
  <1> SUFFICES ASSUME Init PROVE IInv
    OBVIOUS
  <1>1. processCost.children = <<>> /\ DOMAIN processCost.children = {}
          /\ processCost.month = 0
    BY DEF Init
  <1>2. TypeOK
    <2>1. start \in BOOLEAN /\ end \in BOOLEAN /\ skipEstimation \in BOOLEAN
      BY Zenon DEF Init
    <2> QED
      BY <1>1, <2>1 DEF Init, TypeOK, Phases
  <1>3. Shapes
    BY <1>1 DEF Init, Shapes
  <1>4. ArePods({})
    BY FS_EmptySet DEF ArePods
  <1>5. SeenInv
    BY <1>4 DEF Init, SeenInv
  <1>6. Workers = {} /\ Added = {}
    BY <1>1 DEF Init, Workers, Added
  <1>7. WorkerCosts = 0
    BY <1>6, SumEmpty DEF WorkerCosts, SumFunction
  <1>8. WorkersInv
    BY <1>1, <1>6, <1>7 DEF Init, WorkersInv
  <1>9. SharesInv
    BY <1>1 DEF Init, SharesInv, BeforeTotals
  <1> QED
    BY <1>2, <1>3, <1>5, <1>8, <1>9 DEF IInv

\* The workers' costs stay as they are if no pod is added or left.
LEMMA WorkersKept ==
  ASSUME WorkersInv, UNCHANGED <<stats, seen.workers, processCost>>,
         factor'["userProcess"] = factor["userProcess"],
         phase' \notin {"pods", "failed"} => stats = {}
  PROVE  WorkersInv'
  BY DEF WorkersInv, Workers, WorkerCosts, Added, AddedOf

\* A step that moves on without costs: what has to be shown of it is that it
\* leaves the phases of the statistics in order.
LEMMA MovesStep ==
  ASSUME IInv, UNCHANGED <<stats, processCost, total, seen, factor>>,
         start' \in BOOLEAN, end' \in BOOLEAN, skipEstimation' = skipEstimation,
         \/ phase = "call" /\ phase' = "userProcessFactor" /\ sources' = sources
         \/ phase # "done" /\ phase' = "failed" /\ sources' = sources
         \/ /\ phase = "pods" /\ phase' = "workers" /\ sources' = sources
            /\ stats = {}
         \/ /\ phase = "workers" /\ phase' = "marshalling"
            /\ sources' = MarshallingSources
         \/ /\ phase = "marshalling" /\ phase' = "userMarshallerFactor"
            /\ sources' = sources
  PROVE  IInv'
  <1>1. TypeOK'
    BY DEF IInv, TypeOK, Phases
  <1>2. Shapes'
    BY DEF IInv, Shapes
  <1>3. SeenInv'
    BY DEF IInv, SeenInv
  <1>4. WorkersInv'
    BY WorkersKept DEF IInv, WorkersInv
  <1>5. SharesInv'
    <2>1. ASSUME phase \in BeforeTotals, phase' = "marshalling"
          PROVE  total' = Costs(seen'.marshalling)
      BY <2>1, CostsEmpty DEF IInv, SeenInv, SharesInv, BeforeTotals
    <2> QED
      BY <2>1 DEF IInv, SharesInv, BeforeTotals
  <1> QED
    BY <1>1, <1>2, <1>3, <1>4, <1>5 DEF IInv

\* The factor of the workers is set while there are none.
LEMMA UserProcessFactorStep ==
  ASSUME IInv, UserProcessFactor
  PROVE  IInv'
  <1>1. PICK f \in Factors :
          /\ factor' = [factor EXCEPT !["userProcess"] = f]
          /\ IF f > 0
             THEN phase' = "workers" /\ sources' = WorkerSources
             ELSE phase' = "marshalling" /\ sources' = MarshallingSources
    BY DEF UserProcessFactor
  <1>2. /\ phase = "userProcessFactor" /\ phase' \in {"workers", "marshalling"}
        /\ UNCHANGED <<args, stats, processCost, total, seen>>
        /\ sources' \subseteq WorkerSources \cup MarshallingSources
    BY <1>1 DEF UserProcessFactor
  <1>3. seen.workers = {} /\ seen.marshalling = {} /\ seen.io = {} /\ stats = {}
    BY <1>2 DEF IInv, SeenInv, WorkersInv
  <1>4. TypeOK'
    BY <1>1, <1>2 DEF IInv, TypeOK, Phases, args
  <1>5. Shapes'
    BY <1>2 DEF IInv, Shapes
  <1>6. SeenInv'
    BY <1>2, <1>3 DEF IInv, SeenInv
  <1>7. WorkersInv'
    <2>1. Added = {} /\ Workers = {} /\ Workers' = {}
      BY <1>2, <1>3 DEF IInv, WorkersInv, Added, Workers
    <2>2. WorkerCosts' = WorkerCosts /\ Added' = {}
      BY <1>2, <1>3, <2>1 DEF WorkerCosts, Added
    <2> QED
      BY <1>2, <1>3, <2>1, <2>2 DEF IInv, WorkersInv
  <1>8. SharesInv'
    <2>1. total' = Costs(seen'.marshalling) /\ total' = 0
      BY <1>2, <1>3, CostsEmpty DEF IInv, SharesInv, BeforeTotals
    <2>2. DOMAIN processCost'.children = DOMAIN processCost.children
      BY <1>2
    <2>3. /\ "marshalling" \notin DOMAIN processCost.children
          /\ "process-io" \notin DOMAIN processCost.children
      BY <1>2 DEF IInv, SharesInv, BeforeTotals
    <2> QED
      BY <1>2, <2>1, <2>2, <2>3 DEF SharesInv, BeforeTotals
  <1> QED
    BY <1>4, <1>5, <1>6, <1>7, <1>8 DEF IInv

\* The pods of a namespace not visited before are to be added.
LEMMA GetWorkerStatsStep ==
  ASSUME IInv, GetWorkerStats
  PROVE  IInv'
  <1>1. PICK k \in sources, pods \in PodSets :
          /\ sources' = sources \ {k}
          /\ stats' = In(k, pods)
          /\ seen' = [seen EXCEPT !.workers = @ \cup In(k, pods)]
    BY DEF GetWorkerStats
  <1>2. /\ phase = "workers" /\ phase' = "pods"
        /\ UNCHANGED <<args, factor, processCost, total>>
    BY DEF GetWorkerStats
  <1>3. /\ seen'.workers = seen.workers \cup In(k, pods)
        /\ seen'.marshalling = seen.marshalling /\ seen'.io = seen.io
        /\ seen' = [workers |-> seen'.workers, marshalling |-> seen'.marshalling,
                    io |-> seen'.io]
    BY <1>1 DEF IInv, Shapes
  <1>4. /\ ArePods(In(k, pods)) /\ \A p \in In(k, pods) : p.id[1] = k
    BY InType
  <1>5. seen.workers \cap In(k, pods) = {} /\ ArePods(seen.workers)
    BY <1>2, <1>4 DEF IInv, SeenInv
  <1>6. ArePods(seen'.workers)
    BY <1>3, <1>4, <1>5, CostsUnion
  <1>7. TypeOK'
    BY <1>1, <1>2 DEF IInv, TypeOK, Phases, args
  <1>8. Shapes'
    BY <1>2, <1>3 DEF IInv, Shapes
  <1>9. SeenInv'
    BY <1>1, <1>2, <1>3, <1>4, <1>6 DEF IInv, SeenInv
  <1>10. WorkersInv'
    <2>1. Added' = Added
      BY <1>1, <1>2, <1>3, <1>5 DEF IInv, WorkersInv, Added
    <2>2. Workers' = Workers /\ WorkerCosts' = WorkerCosts
      BY <1>2 DEF Workers, WorkerCosts
    <2>3. \A name : AddedOf(name)' = AddedOf(name)
      BY <2>1 DEF AddedOf
    <2> QED
      BY <1>1, <1>2, <1>3, <2>1, <2>2, <2>3 DEF IInv, WorkersInv
  <1>11. SharesInv'
    BY <1>2, <1>3 DEF IInv, SharesInv, BeforeTotals
  <1> QED
    BY <1>7, <1>8, <1>9, <1>10, <1>11 DEF IInv

\* A pod not added before adds its cost to its worker and to the root.
LEMMA AddPodStep ==
  ASSUME IInv, AddPod
  PROVE  IInv'
  <1>1. PICK p \in stats :
          /\ stats' = stats \ {p}
          /\ \E g : processCost' =
               [month    |-> processCost.month + p.cost * factor["userProcess"],
                children |-> AddChild(processCost.children, p.name,
                                      p.cost * factor["userProcess"], g)]
    BY DEF AddPod
  <1> DEFINE name == p.name
             cost == p.cost * factor["userProcess"]
             children == processCost.children
             f == [n \in Workers |-> children[n].month]
             f2 == [n \in Workers' |-> processCost'.children[n].month]
  <1>2. PICK g : processCost' =
                   [month    |-> processCost.month + cost,
                    children |-> AddChild(children, name, cost, g)]
    BY <1>1
  <1>3. /\ phase = "pods" /\ phase' = "pods"
        /\ UNCHANGED <<args, factor, sources, total, seen>>
    BY DEF AddPod
  <1>4. p \in seen.workers /\ p \notin Added /\ ArePods(seen.workers)
    BY DEF IInv, WorkersInv, SeenInv, Added
  <1>5. /\ p.cost \in Nat /\ name \notin {"marshalling", "process-io"}
        /\ ArePods({p})
    BY <1>4, FS_Singleton DEF ArePods
  <1>6. factor["userProcess"] \in Nat
    BY FactorType DEF IInv, FactorNames
  <1>7. cost \in Nat
    BY <1>5, <1>6
  <1>8. /\ processCost'.month = processCost.month + cost
        /\ processCost'.children = AddChild(children, name, cost, g)
        /\ processCost' = [month |-> processCost'.month,
                           children |-> processCost'.children]
    BY <1>2
  <1>9. /\ DOMAIN processCost'.children = DOMAIN children \cup {name}
        /\ \A n \in DOMAIN children \ {name} :
             processCost'.children[n] = children[n]
        /\ processCost'.children[name] =
             [month    |-> IF name \in DOMAIN children
                           THEN children[name].month + cost ELSE cost,
              children |-> processCost'.children[name].children]
    <2>1. CASE name \in DOMAIN children
      <3>1. processCost'.children = [children EXCEPT ![name].month = @ + cost]
        BY <1>8, <2>1 DEF AddChild
      <3>2. children[name] = [month    |-> children[name].month,
                              children |-> children[name].children]
        BY <2>1 DEF IInv, Shapes
      <3>3. processCost'.children[name] =
              [month    |-> children[name].month + cost,
               children |-> children[name].children]
        BY <2>1, <3>1, <3>2
      <3> QED
        BY <2>1, <3>1, <3>3
    <2>2. CASE name \notin DOMAIN children
      BY <1>8, <2>2 DEF AddChild, With
    <2> QED
      BY <2>1, <2>2
  <1>10. name \in DOMAIN children <=> name \in Workers
    BY <1>5 DEF Workers
  <1>11. Workers' = Workers \cup {name}
    BY <1>5, <1>9 DEF Workers
  <1>12. Added' = Added \cup {p}
    BY <1>1, <1>3, <1>4 DEF Added
  <1>13. \A n : AddedOf(n)' = IF n = name THEN AddedOf(n) \cup {p} ELSE AddedOf(n)
    BY <1>12 DEF AddedOf
  <1>14. IsFiniteSet(Added) /\ \A n : ArePods(AddedOf(n))
    <2>1. IsFiniteSet(Added) /\ \A n : IsFiniteSet(AddedOf(n))
      BY <1>4, FS_Subset DEF ArePods, Added, AddedOf
    <2> QED
      BY <1>4, <2>1 DEF ArePods, Added, AddedOf
  <1>15. IsFiniteSet(Workers)
    <2> DEFINE h == [q \in Added |-> q.name]
    <2>1. h \in Surjection(Added, Workers)
      BY DEF Surjection, IInv, WorkersInv
    <2> QED
      BY <1>14, <2>1, FS_Surjection
  <1>16. \A n \in Workers : children[n].month \in Nat
    BY DEF IInv, TypeOK, Workers
  <1>17. \A n \in Workers : n # name => processCost'.children[n].month = children[n].month
    BY <1>9 DEF Workers
  <1>18. /\ name \in Workers => processCost'.children[name].month =
                                  children[name].month + cost
         /\ name \notin Workers => processCost'.children[name].month = cost
    BY <1>9, <1>10
  <1>19. TypeOK'
    <2>1. \A n \in DOMAIN processCost'.children :
            processCost'.children[n].month \in Nat
      BY <1>7, <1>9 DEF IInv, TypeOK
    <2>2. processCost'.month \in Nat
      BY <1>7, <1>8 DEF IInv, TypeOK
    <2> QED
      BY <1>3, <2>1, <2>2 DEF IInv, TypeOK, Phases, args
  <1>20. Shapes'
    <2>1. \A n \in DOMAIN processCost'.children :
            processCost'.children[n] =
              [month    |-> processCost'.children[n].month,
               children |-> processCost'.children[n].children]
      BY <1>9 DEF IInv, Shapes
    <2> QED
      BY <1>3, <1>8, <2>1 DEF IInv, Shapes
  <1>21. SeenInv'
    BY <1>3 DEF IInv, SeenInv
  <1>22. WorkerCosts' = WorkerCosts + cost
    <2>1. WorkerCosts = SumFunctionOnSet(f, Workers)
            /\ WorkerCosts' = SumFunctionOnSet(f2, Workers')
      BY DEF WorkerCosts, SumFunction
    <2>2. /\ \A n \in Workers : f[n] \in Int
          /\ \A n \in Workers' : f2[n] \in Int
          /\ \A n \in Workers \ {name} : f[n] = f2[n]
      BY <1>7, <1>11, <1>16, <1>17, <1>18
    <2>3. /\ name \in Workers => f2[name] = f[name] + cost
          /\ name \notin Workers => f2[name] = cost
      BY <1>11, <1>18
    <2>4. SumFunctionOnSet(f, Workers) \in Int
      BY <1>15, <2>2, SumInt
    <2> HIDE DEF f, f2, name, cost, children
    <2>5. CASE name \in Workers
      <3>1. Workers' = Workers
        BY <1>11, <2>5
      <3>2. SumFunctionOnSet(f2, Workers) =
              SumFunctionOnSet(f, Workers) + f2[name] - f[name]
        BY <1>15, <2>2, <2>5, <3>1, SumChange
      <3>3. f[name] \in Int /\ cost \in Int
        BY <1>7, <2>2, <2>5
      <3> QED
        BY <2>1, <2>3, <2>4, <2>5, <3>1, <3>2, <3>3
    <2>6. CASE name \notin Workers
      <3>1. SumFunctionOnSet(f2, Workers \cup {name}) =
              f2[name] + SumFunctionOnSet(f2, Workers)
        BY <1>11, <1>15, <2>2, <2>6, SumAdd
      <3>2. SumFunctionOnSet(f, Workers) = SumFunctionOnSet(f2, Workers)
        <4>1. \A n \in Workers : f[n] = f2[n]
          BY <2>2, <2>6
        <4> QED
          BY <1>15, <4>1, SumEqual
      <3> QED
        BY <1>7, <1>11, <2>1, <2>3, <2>4, <2>6, <3>1, <3>2
    <2> QED
      BY <2>5, <2>6
  <1>23. \A n \in Workers' : processCost'.children[n].month =
                               Costs(AddedOf(n)') * factor["userProcess"]
    <2>1. CASE name \in Workers
      <3>1. children[name].month = Costs(AddedOf(name)) * factor["userProcess"]
        BY <2>1 DEF IInv, WorkersInv
      <3>2. Costs(AddedOf(name) \cup {p}) = Costs(AddedOf(name)) + p.cost
        BY <1>4, <1>5, <1>14, CostsAdd DEF AddedOf
      <3>3. Costs(AddedOf(name)) \in Nat
        BY <1>14, CostsType
      <3>4. \A a, b, c \in Nat : a * c + b * c = (a + b) * c
        OBVIOUS
      <3>5. processCost'.children[name].month =
              Costs(AddedOf(name) \cup {p}) * factor["userProcess"]
        BY <1>5, <1>6, <1>18, <2>1, <3>1, <3>2, <3>3, <3>4
      <3> QED
        BY <1>11, <1>13, <1>17, <2>1, <3>5 DEF IInv, WorkersInv
    <2>2. CASE name \notin Workers
      <3>1. AddedOf(name) = {}
        BY <2>2 DEF IInv, WorkersInv, AddedOf
      <3>2. Costs({p}) = p.cost
        <4>1. ArePods({}) /\ p \notin {} /\ {} \cup {p} = {p}
          BY FS_EmptySet DEF ArePods
        <4>2. Costs({} \cup {p}) = Costs({}) + p.cost
          BY <1>5, <4>1, CostsAdd
        <4> QED
          BY <1>5, <4>1, <4>2, CostsEmpty
      <3>3. AddedOf(name)' = {p}
        BY <1>13, <3>1
      <3>4. processCost'.children[name].month =
              Costs(AddedOf(name)') * factor["userProcess"]
        BY <1>18, <2>2, <3>2, <3>3
      <3> QED
        BY <1>11, <1>13, <1>17, <2>2, <3>4 DEF IInv, WorkersInv
    <2> QED
      BY <2>1, <2>2
  <1>24. WorkersInv'
    <2>1. Workers' = {q.name : q \in Added'}
      BY <1>11, <1>12 DEF IInv, WorkersInv
    <2>2. stats' \subseteq seen'.workers
      BY <1>1, <1>3 DEF IInv, WorkersInv
    <2>3. processCost'.month = WorkerCosts'
      BY <1>8, <1>22 DEF IInv, WorkersInv
    <2> QED
      BY <1>3, <1>23, <2>1, <2>2, <2>3 DEF WorkersInv
  <1>25. SharesInv'
    <2>1. "marshalling" \notin DOMAIN children /\ "process-io" \notin DOMAIN children
      BY <1>3 DEF IInv, SharesInv, BeforeTotals
    <2>2. /\ "marshalling" \notin DOMAIN processCost'.children
          /\ "process-io" \notin DOMAIN processCost'.children
      BY <1>5, <1>9, <2>1
    <2> QED
      BY <1>3, <2>2 DEF IInv, SharesInv, BeforeTotals
  <1> QED
    BY <1>19, <1>20, <1>21, <1>24, <1>25 DEF IInv

\* A namespace of the marshallers not visited before adds the costs of its
\* pods to the total.
LEMMA GetMarshallingStatsStep ==
  ASSUME IInv, GetMarshallingStats
  PROVE  IInv'
  <1>1. PICK k \in sources, pods \in PodSets :
          /\ sources' = sources \ {k}
          /\ total' = total + Costs(In(k, pods))
          /\ seen' = [seen EXCEPT !.marshalling = @ \cup In(k, pods)]
    BY DEF GetMarshallingStats
  <1>2. /\ phase = "marshalling" /\ phase' = "marshalling"
        /\ UNCHANGED <<args, factor, stats, processCost>>
    BY DEF GetMarshallingStats
  <1>3. /\ seen'.marshalling = seen.marshalling \cup In(k, pods)
        /\ seen'.workers = seen.workers /\ seen'.io = seen.io
        /\ seen' = [workers |-> seen'.workers, marshalling |-> seen'.marshalling,
                    io |-> seen'.io]
    BY <1>1 DEF IInv, Shapes
  <1>4. ArePods(In(k, pods)) /\ \A p \in In(k, pods) : p.id[1] = k
    BY InType
  <1>5. seen.marshalling \cap In(k, pods) = {} /\ ArePods(seen.marshalling)
    BY <1>2, <1>4 DEF IInv, SeenInv
  <1>6. /\ ArePods(seen'.marshalling)
        /\ Costs(seen'.marshalling) = Costs(seen.marshalling) + Costs(In(k, pods))
    BY <1>3, <1>4, <1>5, CostsUnion
  <1>7. TypeOK'
    <2>1. total' \in Nat
      BY <1>1, <1>4, CostsType DEF IInv, TypeOK
    <2> QED
      BY <1>1, <1>2, <2>1 DEF IInv, TypeOK, Phases, args
  <1>8. Shapes'
    BY <1>2, <1>3 DEF IInv, Shapes
  <1>9. SeenInv'
    BY <1>1, <1>2, <1>3, <1>4, <1>6 DEF IInv, SeenInv
  <1>10. WorkersInv'
    BY <1>2, <1>3, WorkersKept DEF IInv, WorkersInv
  <1>11. SharesInv'
    BY <1>1, <1>2, <1>3, <1>6 DEF IInv, SharesInv, BeforeTotals
  <1> QED
    BY <1>7, <1>8, <1>9, <1>10, <1>11 DEF IInv

\* So does a namespace of process-io.
LEMMA GetIoStatsStep ==
  ASSUME IInv, GetIoStats
  PROVE  IInv'
  <1>1. PICK k \in sources, pods \in PodSets :
          /\ sources' = sources \ {k}
          /\ total' = total + Costs(In(k, pods))
          /\ seen' = [seen EXCEPT !.io = @ \cup In(k, pods)]
    BY DEF GetIoStats
  <1>2. /\ phase = "process-io" /\ phase' = "process-io"
        /\ UNCHANGED <<args, factor, stats, processCost>>
    BY DEF GetIoStats
  <1>3. /\ seen'.io = seen.io \cup In(k, pods)
        /\ seen'.workers = seen.workers /\ seen'.marshalling = seen.marshalling
        /\ seen' = [workers |-> seen'.workers, marshalling |-> seen'.marshalling,
                    io |-> seen'.io]
    BY <1>1 DEF IInv, Shapes
  <1>4. ArePods(In(k, pods)) /\ \A p \in In(k, pods) : p.id[1] = k
    BY InType
  <1>5. seen.io \cap In(k, pods) = {} /\ ArePods(seen.io)
    BY <1>2, <1>4 DEF IInv, SeenInv
  <1>6. /\ ArePods(seen'.io)
        /\ Costs(seen'.io) = Costs(seen.io) + Costs(In(k, pods))
    BY <1>3, <1>4, <1>5, CostsUnion
  <1>7. TypeOK'
    <2>1. total' \in Nat
      BY <1>1, <1>4, CostsType DEF IInv, TypeOK
    <2> QED
      BY <1>1, <1>2, <2>1 DEF IInv, TypeOK, Phases, args
  <1>8. Shapes'
    BY <1>2, <1>3 DEF IInv, Shapes
  <1>9. SeenInv'
    BY <1>1, <1>2, <1>3, <1>4, <1>6 DEF IInv, SeenInv
  <1>10. WorkersInv'
    BY <1>2, <1>3, WorkersKept DEF IInv, WorkersInv
  <1>11. SharesInv'
    BY <1>1, <1>2, <1>3, <1>6 DEF IInv, SharesInv, BeforeTotals
  <1> QED
    BY <1>7, <1>8, <1>9, <1>10, <1>11 DEF IInv

\* A share is a child of its own: it changes neither a worker nor the root.
LEMMA AddShare ==
  ASSUME IInv, NEW name \in {"marshalling", "process-io"}, NEW share \in Nat,
         processCost' = [processCost EXCEPT !.children =
           With(@, name, [month |-> share, children |-> <<>>])],
         UNCHANGED <<stats, seen>>,
         factor'["userProcess"] = factor["userProcess"],
         stats = {}
  PROVE  /\ Shapes' /\ WorkersInv'
         /\ processCost'.month = processCost.month
         /\ DOMAIN processCost'.children = DOMAIN processCost.children \cup {name}
         /\ processCost'.children[name].month = share
         /\ \A n \in DOMAIN processCost.children \ {name} :
              processCost'.children[n] = processCost.children[n]
  <1> DEFINE child == [month |-> share, children |-> <<>>]
             f == [n \in Workers |-> processCost.children[n].month]
             f2 == [n \in Workers' |-> processCost'.children[n].month]
  <1>1. /\ processCost'.children = With(processCost.children, name, child)
        /\ processCost'.month = processCost.month
        /\ processCost' = [month |-> processCost'.month,
                           children |-> processCost'.children]
    BY DEF IInv, Shapes
  <1>2. /\ DOMAIN processCost'.children = DOMAIN processCost.children \cup {name}
        /\ processCost'.children[name] = child
        /\ \A n \in DOMAIN processCost.children \ {name} :
             processCost'.children[n] = processCost.children[n]
    BY <1>1 DEF With
  <1>3. Shapes'
    BY <1>1, <1>2 DEF IInv, Shapes
  <1>4. Workers' = Workers
    BY <1>2 DEF Workers
  <1>5. \A n \in Workers : processCost'.children[n] = processCost.children[n]
    BY <1>2 DEF Workers
  <1>6. f2 = f
    BY <1>4, <1>5
  <1>7. WorkerCosts' = WorkerCosts
    BY <1>6 DEF WorkerCosts
  <1>8. Added' = Added /\ \A n : AddedOf(n)' = AddedOf(n)
    BY DEF Added, AddedOf
  <1>9. WorkersInv'
    BY <1>1, <1>4, <1>5, <1>7, <1>8 DEF IInv, WorkersInv
  <1> QED
    BY <1>1, <1>2, <1>3, <1>9

\* The user's factor of the marshallers is set before there is their share.
LEMMA UserMarshallerFactorStep ==
  ASSUME IInv, UserMarshallerFactor
  PROVE  IInv'
  <1>1. PICK f \in Factors :
          /\ factor' = [factor EXCEPT !["userMarshaller"] = f]
          /\ phase' = IF f > 0 THEN "processMarshallerFactor"
                               ELSE "userProcessIoFactor"
    BY DEF UserMarshallerFactor
  <1>2. /\ phase = "userMarshallerFactor"
        /\ phase' \in {"processMarshallerFactor", "userProcessIoFactor"}
        /\ UNCHANGED <<args, sources, stats, processCost, total, seen>>
    BY <1>1 DEF UserMarshallerFactor
  <1>3. TypeOK'
    BY <1>1, <1>2 DEF IInv, TypeOK, Phases, args
  <1>4. Shapes'
    BY <1>2 DEF IInv, Shapes
  <1>5. SeenInv'
    BY <1>2 DEF IInv, SeenInv
  <1>6. factor'["userProcess"] = factor["userProcess"]
    BY <1>1 DEF IInv, TypeOK, FactorNames
  <1>7. WorkersInv'
    BY <1>2, <1>6, WorkersKept DEF IInv, WorkersInv
  <1>8. SharesInv'
    BY <1>2 DEF IInv, SharesInv, BeforeTotals
  <1> QED
    BY <1>3, <1>4, <1>5, <1>7, <1>8 DEF IInv

\* The marshallers' share is computed when their total is complete.
LEMMA ProcessMarshallerFactorStep ==
  ASSUME IInv, ProcessMarshallerFactor
  PROVE  IInv'
  <1>1. PICK f \in Factors :
          /\ factor' = [factor EXCEPT !["processMarshaller"] = f]
          /\ processCost' = [processCost EXCEPT !.children =
               With(@, "marshalling",
                    [month |-> total * f * factor["userMarshaller"],
                     children |-> <<>>])]
    BY DEF ProcessMarshallerFactor
  <1> DEFINE share == total * f * factor["userMarshaller"]
  <1>2. /\ phase = "processMarshallerFactor" /\ phase' = "userProcessIoFactor"
        /\ UNCHANGED <<args, sources, stats, total, seen>>
    BY DEF ProcessMarshallerFactor
  <1>3. /\ factor'["userProcess"] = factor["userProcess"]
        /\ factor'["userMarshaller"] = factor["userMarshaller"]
        /\ factor'["processMarshaller"] = f
    BY <1>1 DEF IInv, TypeOK, FactorNames
  <1>4. stats = {} /\ total = Costs(seen.marshalling) /\ total \in Nat
          /\ "process-io" \notin DOMAIN processCost.children
    BY <1>2 DEF IInv, WorkersInv, SharesInv, BeforeTotals, TypeOK
  <1>5. share \in Nat
    <2>1. f \in Nat
      BY FactorsAssumption, Zenon
    <2>2. factor["userMarshaller"] \in Nat
      BY FactorType DEF IInv, FactorNames
    <2> QED
      BY <1>4, <2>1, <2>2
  <1>6. /\ Shapes' /\ WorkersInv'
        /\ processCost'.month = processCost.month
        /\ DOMAIN processCost'.children =
             DOMAIN processCost.children \cup {"marshalling"}
        /\ processCost'.children["marshalling"].month = share
        /\ \A n \in DOMAIN processCost.children \ {"marshalling"} :
             processCost'.children[n] = processCost.children[n]
    BY <1>1, <1>2, <1>3, <1>4, <1>5, AddShare
  <1>7. TypeOK'
    <2>1. \A n \in DOMAIN processCost'.children :
            processCost'.children[n].month \in Nat
      BY <1>5, <1>6 DEF IInv, TypeOK
    <2> QED
      BY <1>1, <1>2, <1>6, <2>1 DEF IInv, TypeOK, Phases, args
  <1>8. SeenInv'
    BY <1>2 DEF IInv, SeenInv
  <1>9. SharesInv'
    BY <1>2, <1>3, <1>4, <1>6 DEF SharesInv, BeforeTotals
  <1> QED
    BY <1>6, <1>7, <1>8, <1>9 DEF IInv

\* The total starts again for process-io, of which nothing has been seen.
LEMMA UserProcessIoFactorStep ==
  ASSUME IInv, UserProcessIoFactor
  PROVE  IInv'
  <1>1. PICK f \in Factors :
          /\ factor' = [factor EXCEPT !["userIo"] = f]
          /\ phase' = IF f # 0 THEN "process-io" ELSE "done"
          /\ sources' = IF f # 0 THEN IoSources ELSE {}
    BY DEF UserProcessIoFactor
  <1>2. /\ phase = "userProcessIoFactor" /\ phase' \in {"process-io", "done"}
        /\ sources' \subseteq IoSources /\ total' = 0
        /\ UNCHANGED <<args, stats, processCost, seen>>
    BY <1>1 DEF UserProcessIoFactor
  <1>3. /\ factor'["userProcess"] = factor["userProcess"]
        /\ factor'["userMarshaller"] = factor["userMarshaller"]
        /\ factor'["processMarshaller"] = factor["processMarshaller"]
    BY <1>1 DEF IInv, TypeOK, FactorNames
  <1>4. seen.io = {} /\ "process-io" \notin DOMAIN processCost.children
    BY <1>2 DEF IInv, SeenInv, SharesInv
  <1>5. TypeOK'
    BY <1>1, <1>2 DEF IInv, TypeOK, Phases, args
  <1>6. Shapes'
    BY <1>2 DEF IInv, Shapes
  <1>7. SeenInv'
    BY <1>2, <1>4 DEF IInv, SeenInv
  <1>8. WorkersInv'
    BY <1>2, <1>3, WorkersKept DEF IInv, WorkersInv
  <1>9. SharesInv'
    BY <1>2, <1>3, <1>4, CostsEmpty DEF IInv, SharesInv, BeforeTotals
  <1> QED
    BY <1>5, <1>6, <1>7, <1>8, <1>9 DEF IInv

\* The share of process-io is computed when its total is complete.
LEMMA AddIoAndReturnStep ==
  ASSUME IInv, AddIoAndReturn
  PROVE  IInv'
  <1> DEFINE share == total * factor["userIo"]
  <1>1. /\ phase = "process-io" /\ phase' = "done"
        /\ processCost' = [processCost EXCEPT !.children =
             With(@, "process-io", [month |-> share, children |-> <<>>])]
        /\ UNCHANGED <<args, factor, sources, stats, total, seen>>
    BY DEF AddIoAndReturn
  <1>2. stats = {} /\ total = Costs(seen.io)
    BY <1>1 DEF IInv, WorkersInv, SharesInv
  <1>3. share \in Nat
    <2>1. factor["userIo"] \in Nat
      BY FactorType DEF IInv, FactorNames
    <2> QED
      BY <2>1 DEF IInv, TypeOK
  <1>4. /\ Shapes' /\ WorkersInv'
        /\ processCost'.month = processCost.month
        /\ DOMAIN processCost'.children =
             DOMAIN processCost.children \cup {"process-io"}
        /\ processCost'.children["process-io"].month = share
        /\ \A n \in DOMAIN processCost.children \ {"process-io"} :
             processCost'.children[n] = processCost.children[n]
    BY <1>1, <1>2, <1>3, AddShare
  <1>5. TypeOK'
    <2>1. \A n \in DOMAIN processCost'.children :
            processCost'.children[n].month \in Nat
      BY <1>3, <1>4 DEF IInv, TypeOK
    <2> QED
      BY <1>1, <1>4, <2>1 DEF IInv, TypeOK, Phases, args
  <1>6. SeenInv'
    BY <1>1 DEF IInv, SeenInv
  <1>7. SharesInv'
    BY <1>1, <1>2, <1>4 DEF IInv, SharesInv, BeforeTotals
  <1> QED
    BY <1>4, <1>5, <1>6, <1>7 DEF IInv

LEMMA NextInvariant == IInv /\ [Next]_vars => IInv'
  <1> SUFFICES ASSUME IInv, [Next]_vars PROVE IInv'
    OBVIOUS
  <1>1. CASE Reject
    BY <1>1, MovesStep DEF Reject, IInv, TypeOK, args
  <1>2. CASE Accept
    BY <1>2, MovesStep DEF Accept, IInv, TypeOK
  <1>3. CASE Fail
    BY <1>3, MovesStep DEF Fail, Querying, IInv, TypeOK, args
  <1>4. CASE UserProcessFactor
    BY <1>4, UserProcessFactorStep
  <1>5. CASE GetWorkerStats
    BY <1>5, GetWorkerStatsStep
  <1>6. CASE AddPod
    BY <1>6, AddPodStep
  <1>7. CASE NextWorkerSource
    BY <1>7, MovesStep DEF NextWorkerSource, IInv, TypeOK, args
  <1>8. CASE WorkersDone
    BY <1>8, MovesStep DEF WorkersDone, IInv, TypeOK, args
  <1>9. CASE GetMarshallingStats
    BY <1>9, GetMarshallingStatsStep
  <1>10. CASE MarshallingSummed
    BY <1>10, MovesStep DEF MarshallingSummed, IInv, TypeOK, args
  <1>11. CASE UserMarshallerFactor
    BY <1>11, UserMarshallerFactorStep
  <1>12. CASE ProcessMarshallerFactor
    BY <1>12, ProcessMarshallerFactorStep
  <1>13. CASE UserProcessIoFactor
    BY <1>13, UserProcessIoFactorStep
  <1>14. CASE GetIoStats
    BY <1>14, GetIoStatsStep
  <1>15. CASE AddIoAndReturn
    BY <1>15, AddIoAndReturnStep
  <1>16. CASE UNCHANGED vars
    <2>1. TypeOK' /\ Shapes' /\ SeenInv' /\ SharesInv'
      BY <1>16 DEF vars, args, IInv, TypeOK, Shapes, SeenInv, SharesInv
    <2>2. WorkersInv'
      BY <1>16, WorkersKept DEF vars, IInv, WorkersInv
    <2> QED
      BY <2>1, <2>2 DEF IInv
  <1> QED
    BY <1>1, <1>2, <1>3, <1>4, <1>5, <1>6, <1>7, <1>8, <1>9, <1>10, <1>11,
       <1>12, <1>13, <1>14, <1>15, <1>16 DEF Next

-----------------------------------------------------------------------------
(* The theorems                                                            *)

\* The inductive invariant holds in every reachable state.
THEOREM Invariant == Spec => []IInv
  BY InitInvariant, NextInvariant, PTL DEF Spec

\* The arguments, factors, totals and costs of GetProcessTree have their
\* types in every state.
THEOREM TypeCorrect == Spec => []TypeOK
  <1>1. IInv => TypeOK
    BY DEF IInv
  <1> QED
    BY <1>1, Invariant, PTL

\* In whatever order namespaces and pods are visited, each worker costs its
\* share of all of its pods, and the root what the workers do.
THEOREM WorkersMatchStatsHolds == Spec => []WorkersMatchStats
  <1>1. IInv => WorkersMatchStats
    <2> SUFFICES ASSUME IInv,
                        phase \in {"marshalling", "userMarshallerFactor",
                                   "processMarshallerFactor",
                                   "userProcessIoFactor", "process-io", "done"}
                 PROVE  /\ Workers = {p.name : p \in seen.workers}
                        /\ \A name \in Workers :
                             processCost.children[name].month =
                               Costs(PodsOf(name)) * factor["userProcess"]
                        /\ processCost.month = WorkerCosts
      BY DEF WorkersMatchStats
    <2>1. stats = {}
      BY DEF IInv, WorkersInv
    <2>2. Added = seen.workers /\ \A name : AddedOf(name) = PodsOf(name)
      BY <2>1 DEF Added, AddedOf, PodsOf
    <2> QED
      BY <2>2 DEF IInv, WorkersInv
  <1> QED
    BY <1>1, Invariant, PTL

\* Each share is computed from the pods of its own sources, each counted
\* once, by the factors that are its own.
THEOREM SharesMatchStatsHolds == Spec => []SharesMatchStats
  <1>1. IInv => SharesMatchStats
    BY DEF IInv, SharesInv, SharesMatchStats
  <1> QED
    BY <1>1, Invariant, PTL

-----------------------------------------------------------------------------
(* The process definitions                                                 *)

\* The process definitions of a pod split its cost without rest, if any of
\* them had an increase.
LEMMA SplitWithoutRest ==
  ASSUME NEW cost \in Nat, NEW increases, IsFiniteSet(DOMAIN increases),
         increases \in [DOMAIN increases -> Nat]
  PROVE  LET g == Split(cost, increases)
             sum == SumFunction([d \in DOMAIN g |-> g[d].cost])
         IN \/ \A d \in DOMAIN g : g[d].by = 0
            \/ \A d \in DOMAIN g : g[d].by > 0 /\ sum = cost * g[d].by
  <1> DEFINE D == DOMAIN increases
             total0 == SumFunction(increases)
             active == {d \in D : increases[d] # 0}
             g == Split(cost, increases)
             costs == [d \in DOMAIN g |-> g[d].cost]
             all == [d \in D |-> cost * increases[d]]
  <1>1. \A d \in D : increases[d] \in Nat
    OBVIOUS
  <1>2. total0 = SumFunctionOnSet(increases, D) /\ total0 \in Nat
    <2>1. total0 = SumFunctionOnSet(increases, D)
      BY DEF SumFunction
    <2> QED
      BY <1>1, <2>1, SumNat
  <1>3. DOMAIN g \subseteq D /\ \A d \in DOMAIN g :
          g[d].cost = cost * increases[d] /\ g[d].by = total0
    BY DEF Split
  <1>4. CASE total0 = 0
    BY <1>3, <1>4
  <1>5. CASE total0 # 0
    <2>1. DOMAIN g = active
      BY <1>5 DEF Split
    <2>2. SumFunction(costs) = SumFunctionOnSet(costs, active)
      BY <2>1 DEF SumFunction
    <2>3. /\ \A d \in D : increases[d] \in Int /\ all[d] = cost * increases[d]
          /\ \A d \in D : all[d] \in Int
          /\ \A d \in D \ active : all[d] = 0
          /\ \A d \in active : costs[d] = all[d]
      BY <1>1, <1>3, <2>1
    <2>4. active \in SUBSET D /\ IsFiniteSet(active)
      BY FS_Subset
    <2> HIDE DEF D, active, costs, all, total0, g
    <2>5. SumFunctionOnSet(all, D) = cost * SumFunctionOnSet(increases, D)
      BY <2>3, SumTimes DEF D
    <2>6. SumFunctionOnSet(all, D) = SumFunctionOnSet(all, active)
      BY <2>3, <2>4, SumOfSome DEF D
    <2>7. SumFunctionOnSet(costs, active) = SumFunctionOnSet(all, active)
      BY <2>3, <2>4, SumEqual
    <2>8. SumFunction(costs) = cost * total0
      BY <1>2, <2>2, <2>5, <2>6, <2>7
    <2>9. \A d \in DOMAIN g : g[d].by > 0 /\ SumFunction(costs) = cost * g[d].by
      BY <1>2, <1>3, <1>5, <2>8
    <2> QED
      BY <2>9 DEF costs, g
  <1> QED
    BY <1>4, <1>5

\* DefinitionsSplitOnePod for one worker, which has grandchildren g.
SplitsOneOf(g, pods, f) ==
  LET sum == SumFunction([d \in DOMAIN g |-> g[d].cost])
  IN \/ \A d \in DOMAIN g : g[d].by = 0
     \/ \E p \in pods : \A d \in DOMAIN g :
          g[d].by > 0 /\ sum = p.cost * f * g[d].by

\* The process definitions stay as they are if a step leaves the workers
\* their pods and definitions and, if there are any workers, their factor.
LEMMA DefinitionsKept ==
  ASSUME DefinitionsSplitOnePod, Workers' \subseteq Workers,
         \A name \in Workers' : GrandchildrenOf(name)' = GrandchildrenOf(name),
         seen.workers \subseteq seen'.workers,
         Workers = {} \/ factor'["userProcess"] = factor["userProcess"]
  PROVE  DefinitionsSplitOnePod'
  <1> SUFFICES ASSUME NEW name \in Workers'
               PROVE  SplitsOneOf(GrandchildrenOf(name)', PodsOf(name)',
                                  factor'["userProcess"])
    BY DEF DefinitionsSplitOnePod, SplitsOneOf
  <1>1. SplitsOneOf(GrandchildrenOf(name), PodsOf(name), factor["userProcess"])
    BY DEF DefinitionsSplitOnePod, SplitsOneOf
  <1>2. PodsOf(name) \subseteq PodsOf(name)'
    BY DEF PodsOf
  <1> QED
    BY <1>1, <1>2 DEF SplitsOneOf

\* The first pod of a worker brings its definitions, and no further one does.
LEMMA AddPodDefinitions ==
  ASSUME IInv, DefinitionsSplitOnePod, AddPod
  PROVE  DefinitionsSplitOnePod'
  <1> DEFINE children == processCost.children
  <1>1. PICK p \in stats, increases \in Increases \cup {<<>>} :
          processCost'.children =
            AddChild(children, p.name, p.cost * factor["userProcess"],
                     Split(p.cost * factor["userProcess"], increases))
    BY DEF AddPod
  <1> DEFINE cost == p.cost * factor["userProcess"]
             g == Split(cost, increases)
  <1>2. UNCHANGED <<seen, factor>>
    BY DEF AddPod
  <1>3. p \in seen.workers /\ p.cost \in Nat /\ factor["userProcess"] \in Nat
    BY FactorType DEF IInv, WorkersInv, SeenInv, ArePods, FactorNames
  <1>4. cost \in Nat
    BY <1>3
  <1>5. IsFiniteSet(DOMAIN increases) /\ increases \in [DOMAIN increases -> Nat]
    <2>1. DOMAIN <<>> = {} /\ <<>> \in [DOMAIN <<>> -> Nat]
      OBVIOUS
    <2> QED
      BY <2>1, IncreasesAssumption, FS_EmptySet
  <1>6. SplitsOneOf(g, {p}, factor["userProcess"])
    <2> HIDE DEF cost
    <2>1. LET sum == SumFunction([d \in DOMAIN g |-> g[d].cost])
          IN \/ \A d \in DOMAIN g : g[d].by = 0
             \/ \A d \in DOMAIN g : g[d].by > 0 /\ sum = cost * g[d].by
      BY <1>4, <1>5, SplitWithoutRest
    <2> QED
      BY <2>1 DEF SplitsOneOf, cost
  <1> HIDE DEF g, cost
  <1>7. /\ DOMAIN processCost'.children = DOMAIN children \cup {p.name}
        /\ \A n \in DOMAIN children :
             processCost'.children[n].children = children[n].children
        /\ p.name \notin DOMAIN children =>
             processCost'.children[p.name].children = g
    <2>1. processCost'.children = AddChild(children, p.name, cost, g)
      BY <1>1 DEF cost, g
    <2>2. CASE p.name \in DOMAIN children
      <3>1. children[p.name] = [month    |-> children[p.name].month,
                                children |-> children[p.name].children]
        BY <2>2 DEF IInv, Shapes
      <3>2. processCost'.children =
              [children EXCEPT ![p.name].month = children[p.name].month + cost]
        BY <2>1, <2>2 DEF AddChild
      <3> HIDE DEF children
      <3>3. processCost'.children[p.name].children = children[p.name].children
        BY <2>2, <3>1, <3>2
      <3> QED
        BY <2>2, <3>2, <3>3
    <2>3. CASE p.name \notin DOMAIN children
      <3> HIDE DEF children
      <3> QED
        BY <2>1, <2>3 DEF AddChild, With
    <2> QED
      BY <2>2, <2>3
  <1> SUFFICES ASSUME NEW name \in Workers'
               PROVE  SplitsOneOf(GrandchildrenOf(name)', PodsOf(name)',
                                  factor'["userProcess"])
    BY DEF DefinitionsSplitOnePod, SplitsOneOf
  <1>8. PodsOf(name)' = PodsOf(name) /\ factor' = factor
    BY <1>2 DEF PodsOf
  <1>9. CASE name \in DOMAIN children
    <2>1. name \in Workers
      BY <1>9 DEF Workers
    <2>2. SplitsOneOf(GrandchildrenOf(name), PodsOf(name), factor["userProcess"])
      BY <2>1 DEF DefinitionsSplitOnePod, SplitsOneOf
    <2> QED
      BY <1>7, <1>8, <1>9, <2>2 DEF GrandchildrenOf
  <1>10. CASE name \notin DOMAIN children
    <2>1. name = p.name
      BY <1>7, <1>10 DEF Workers
    <2>2. p \in PodsOf(name) /\ GrandchildrenOf(name)' = g
      BY <1>3, <1>7, <1>10, <2>1 DEF PodsOf, GrandchildrenOf
    <2> QED
      BY <1>6, <1>8, <2>2 DEF SplitsOneOf
  <1> QED
    BY <1>9, <1>10

\* No other step adds a worker or takes a pod away, and the workers' factor
\* is set while there are none.
LEMMA OtherDefinitions ==
  ASSUME IInv, DefinitionsSplitOnePod, [Next]_vars, ~AddPod
  PROVE  DefinitionsSplitOnePod'
  <1>1. \/ processCost' = processCost
        \/ \E name \in {"marshalling", "process-io"} : \E share :
             processCost' = [processCost EXCEPT !.children = With(@, name, share)]
    BY DEF Next, vars, args, Reject, Accept, Fail, UserProcessFactor, GetWorkerStats,
       NextWorkerSource, WorkersDone, GetMarshallingStats, MarshallingSummed,
       UserMarshallerFactor, ProcessMarshallerFactor, UserProcessIoFactor,
       GetIoStats, AddIoAndReturn
  <1>2. Workers' = Workers /\ \A n \in Workers : GrandchildrenOf(n)' = GrandchildrenOf(n)
    <2>1. CASE processCost' = processCost
      BY <2>1 DEF Workers, GrandchildrenOf
    <2>2. ASSUME NEW name \in {"marshalling", "process-io"}, NEW share,
                 processCost' = [processCost EXCEPT !.children = With(@, name, share)]
          PROVE  Workers' = Workers
                   /\ \A n \in Workers : GrandchildrenOf(n)' = GrandchildrenOf(n)
      <3>1. processCost'.children = With(processCost.children, name, share)
        BY <2>2 DEF IInv, Shapes
      <3> QED
        BY <3>1 DEF With, Workers, GrandchildrenOf
    <2> QED
      BY <1>1, <2>1, <2>2
  <1>3. seen.workers \subseteq seen'.workers
    BY DEF Next, vars, args, Reject, Accept, Fail, UserProcessFactor, GetWorkerStats,
       NextWorkerSource, WorkersDone, GetMarshallingStats, MarshallingSummed,
       UserMarshallerFactor, ProcessMarshallerFactor, UserProcessIoFactor,
       GetIoStats, AddIoAndReturn, IInv, Shapes
  <1>4. Workers = {} \/ factor'["userProcess"] = factor["userProcess"]
    <2>1. CASE UserProcessFactor
      <3>1. phase = "userProcessFactor"
        BY <2>1 DEF UserProcessFactor
      <3> QED
        BY <3>1 DEF IInv, SeenInv, WorkersInv, Added
    <2>2. CASE ~UserProcessFactor
      BY <2>2 DEF IInv, TypeOK, FactorNames, Next, vars, args, Reject, Accept, Fail,
         GetWorkerStats, NextWorkerSource, WorkersDone, GetMarshallingStats,
         MarshallingSummed, UserMarshallerFactor, ProcessMarshallerFactor,
         UserProcessIoFactor, GetIoStats, AddIoAndReturn
    <2> QED
      BY <2>1, <2>2
  <1> QED
    BY <1>2, <1>3, <1>4, DefinitionsKept

\* The process definitions of a worker split the cost of one of its pods
\* without rest, whatever increases the query answers; a worker's further
\* pods leave its definitions alone (the existing child in GetProcessTree).
THEOREM DefinitionsSplitOnePodHolds == Spec => []DefinitionsSplitOnePod
  <1>1. Init => DefinitionsSplitOnePod
    BY DEF Init, DefinitionsSplitOnePod, Workers
  <1>2. IInv /\ DefinitionsSplitOnePod /\ [Next]_vars => DefinitionsSplitOnePod'
    BY AddPodDefinitions, OtherDefinitions
  <1> QED
    BY <1>1, <1>2, Invariant, PTL DEF Spec
=============================================================================

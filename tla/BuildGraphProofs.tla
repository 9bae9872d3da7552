--------------------------- MODULE BuildGraphProofs ---------------------------
(***************************************************************************)
(* Proofs about BuildGraph, for any catalogue: the index is the largest set *)
(* of outputs that can be built; the visit never misses a requirement, and  *)
(* marks exactly what the targets need; the order is topological, and only  *)
(* a cycle keeps a provider out of it.                                      *)
(***************************************************************************)
EXTENDS BuildGraph, Countdowns, FiniteSetTheorems, TLAPS

Frames == [output : Outputs \cup {None}, rest : SUBSET (Outputs \cup Externals)]

(* What the loops over the index rest on. *)
IndexTypeOK ==
    /\ requires \in [Outputs -> SUBSET (Outputs \cup Externals)]
    /\ buildable \in [Outputs -> BOOLEAN] /\ changed \in BOOLEAN
    /\ pass \subseteq Outputs /\ present \subseteq Externals

(* In a pass that has changed nothing yet, the outputs it has looked at have *)
(* their requirements; when the passes are over, all have.                   *)
Satisfied(o) == buildable[o] => \A r \in requires[o] : Available(r)
PassInv ==
    /\ pc = "index" => changed \/ \A o \in Outputs \ pass : Satisfied(o)
    /\ pc # "index" => \A o \in Outputs : Satisfied(o)

(* No pass takes an output away that belongs to a closed set. *)
ClosedKept ==
    \A S \in SUBSET {o \in Outputs : ProviderOf[o] \in supported} :
        Closed(S) => \A o \in S : buildable[o]

IndexInv == IndexTypeOK /\ PassInv /\ ClosedKept

LEMMA IndexInit == Init => IndexInv
<1> SUFFICES ASSUME Init PROVE IndexInv
    OBVIOUS
<1>1. buildable \in [Outputs -> BOOLEAN]
    <2> DEFINE P(o) == ProviderOf[o] \in supported
    <2>1. buildable = [o \in Outputs |-> P(o)]
        BY DEF Init
    <2>2. \A o \in Outputs : P(o) \in BOOLEAN
        OBVIOUS
    <2> HIDE DEF P
    <2> QED
        BY <2>1, <2>2
<1>2. \A o \in Outputs : ProviderOf[o] \in supported => buildable[o]
    BY Zenon DEF Init
<1>3. IndexTypeOK
    BY <1>1, GraphAssumption DEF Init, IndexTypeOK
<1>4. PassInv /\ ClosedKept
    BY <1>2 DEF Init, PassInv, ClosedKept
<1> QED
    BY <1>3, <1>4 DEF IndexInv

LEMMA IndexStep == IndexInv /\ [Next]_vars => IndexInv'
<1> SUFFICES ASSUME IndexInv, [Next]_vars PROVE IndexInv'
    OBVIOUS
<1> USE DEF IndexInv
<1>1. CASE IndexOutput
    <2> PICK o \in pass :
            /\ pass' = pass \ {o}
            /\ IF buildable[o] /\ \E r \in requires[o] : ~Available(r)
                  THEN buildable' = [buildable EXCEPT ![o] = FALSE] /\ changed' = TRUE
                  ELSE UNCHANGED <<buildable, changed>>
        BY <1>1 DEF IndexOutput
    <2>0. UNCHANGED <<requires, supported, present, pc>> /\ pc = "index" /\ o \in Outputs
        BY <1>1 DEF IndexOutput, given, IndexTypeOK
    <2>1. CASE buildable[o] /\ \E r \in requires[o] : ~Available(r)
        <3>1. IndexTypeOK' /\ PassInv'
            BY <2>0, <2>1 DEF IndexTypeOK, PassInv
        <3>2. ClosedKept'
            <4> SUFFICES ASSUME NEW S \in SUBSET {x \in Outputs : ProviderOf[x] \in supported},
                                Closed(S)
                         PROVE  \A x \in S : buildable'[x]
                BY <2>0 DEF ClosedKept, Closed
            <4>1. \A x \in S : buildable[x]
                BY DEF ClosedKept
            <4>2. PICK r \in requires[o] : ~Available(r)
                BY <2>1
            <4>3. r \notin S \cup present
                BY <4>1, <4>2, GraphAssumption, <2>0 DEF Available, IndexTypeOK
            <4>4. o \notin S
                BY <4>2, <4>3 DEF Closed
            <4> QED
                BY <2>0, <2>1, <4>1, <4>4 DEF IndexTypeOK
        <3> QED
            BY <3>1, <3>2
    <2>2. CASE ~(buildable[o] /\ \E r \in requires[o] : ~Available(r))
        <3>1. Satisfied(o)
            BY <2>2 DEF Satisfied
        <3> QED
            BY <2>0, <2>2, <3>1
            DEF IndexTypeOK, PassInv, Satisfied, Available, ClosedKept, Closed
    <2> QED
        BY <2>1, <2>2
<1>2. CASE EndPass
    BY <1>2 DEF EndPass, given, IndexTypeOK, PassInv, Satisfied, Available, ClosedKept, Closed
<1>3. CASE CheckTargets \/ Visit \/ Return \/ StartSort \/ Sort \/ EndSort \/ UNCHANGED vars
    <2>1. /\ UNCHANGED <<requires, supported, present, buildable, changed, pass>>
          /\ pc = "index" <=> pc' = "index"
        BY <1>3 DEF CheckTargets, Visit, VisitExternal, VisitMissing, FindCycle, VisitAgain,
            VisitOutput, Return, StartSort, Sort, EndSort, given, index, vars
    <2> QED
        BY <2>1 DEF IndexTypeOK, PassInv, Satisfied, Available, ClosedKept, Closed
<1> QED
    BY <1>1, <1>2, <1>3 DEF Next

LEMMA IndexHolds == Spec => []IndexInv
    BY IndexInit, IndexStep, PTL DEF Spec

(* build_output_index: buildable is the greatest set of outputs of supported *)
(* providers with all their requirements in it or in place, so neither the   *)
(* order of the catalogue nor the number of passes plays a part.             *)
THEOREM IndexIsTheGreatest == Spec => []IndexIsGreatest
<1>1. IndexInv => IndexIsGreatest
    BY DEF IndexInv, IndexTypeOK, PassInv, ClosedKept, IndexIsGreatest, Closed, Satisfied, Available
<1> QED
    BY <1>1, IndexHolds, PTL
-----------------------------------------------------------------------------
(* All that the calls of visit have still to look at is available. *)
CallsInv ==
    /\ pc = "visit" =>
        /\ stack \in Seq(Frames) /\ stack # <<>>
        /\ \A i \in DOMAIN stack : \A r \in stack[i].rest : Available(r)
    /\ NothingMissing

LEMMA LeftKeeps ==
    ASSUME stack \in Seq(Frames), stack # <<>>,
           \A i \in DOMAIN stack : \A r \in stack[i].rest : Available(r),
           NEW q \in Top.rest
    PROVE  /\ Left(q) \in Seq(Frames) /\ Left(q) # <<>>
           /\ \A i \in DOMAIN Left(q) : \A r \in Left(q)[i].rest : Available(r)
<1> DEFINE f == [Top EXCEPT !.rest = @ \ {q}]
<1>1. Top \in Frames /\ Top = stack[1] /\ Tail(stack) \in Seq(Frames)
    BY DEF Top
<1>2. f \in Frames /\ f.rest \subseteq Top.rest
    BY <1>1 DEF Frames
<1>3. \A r \in f.rest : Available(r)
    BY <1>1, <1>2
<1>4. \A i \in DOMAIN Tail(stack) : \A r \in Tail(stack)[i].rest : Available(r)
    OBVIOUS
<1> HIDE DEF f
<1>5. /\ <<f>> \o Tail(stack) \in Seq(Frames) /\ <<f>> \o Tail(stack) # <<>>
      /\ \A i \in DOMAIN (<<f>> \o Tail(stack)) :
            \A r \in (<<f>> \o Tail(stack))[i].rest : Available(r)
    BY <1>1, <1>2, <1>3, <1>4
<1> QED
    BY <1>5 DEF Left, f

LEMMA CallsStep == IndexInv /\ CallsInv /\ [Next]_vars => CallsInv'
<1> SUFFICES ASSUME IndexInv, CallsInv, [Next]_vars PROVE CallsInv'
    OBVIOUS
<1> USE DEF CallsInv, NothingMissing
<1>1. CASE IndexOutput \/ EndPass \/ StartSort \/ Sort \/ EndSort
    BY <1>1 DEF IndexOutput, EndPass, StartSort, Sort, EndSort
<1>2. CASE CheckTargets
    <2> PICK T \in SUBSET Outputs :
            IF \A t \in T : buildable[t]
               THEN pc' = "visit" /\ stack' = <<[output |-> None, rest |-> T]>>
               ELSE pc' = "refused" /\ stack' = stack
        BY <1>2 DEF CheckTargets
    <2> DEFINE f == [output |-> None, rest |-> T]
    <2>1. f \in Frames /\ f.rest = T
        BY DEF Frames
    <2>2. pc' \in {"visit", "refused"} /\ UNCHANGED <<present, buildable>>
        BY <1>2 DEF CheckTargets, given, index
    <2>3. CASE \A t \in T : buildable[t]
        <3>1. stack' = <<f>> /\ \A r \in T : Available(r)'
            BY <2>2, <2>3 DEF Available
        <3> HIDE DEF f
        <3> QED
            BY <2>1, <2>2, <3>1
    <2>4. CASE ~\A t \in T : buildable[t]
        BY <2>4
    <2> QED
        BY <2>3, <2>4
<1>3. CASE Visit
    <2> PICK q \in Top.rest :
            VisitExternal(q) \/ VisitMissing(q) \/ FindCycle(q) \/ VisitAgain(q) \/ VisitOutput(q)
        BY <1>3 DEF Visit
    <2>1. /\ pc = "visit" /\ UNCHANGED <<requires, present, buildable>>
        BY <1>3 DEF Visit, given, index
    <2>2. /\ Left(q) \in Seq(Frames) /\ Left(q) # <<>>
          /\ \A i \in DOMAIN Left(q) : \A r \in Left(q)[i].rest : Available(r)
        BY <2>1, LeftKeeps
    <2>3. Available(q)
        BY <2>1 DEF Top
    <2>4. CASE VisitExternal(q) \/ VisitAgain(q)
        BY <2>1, <2>2, <2>4 DEF VisitExternal, VisitAgain, Available
    <2>5. CASE VisitMissing(q) \/ FindCycle(q)
        BY <2>3, <2>5 DEF VisitMissing, FindCycle
    <2>6. CASE VisitOutput(q)
        <3> DEFINE f == [output |-> q, rest |-> requires[q]]
        <3>1. q \in Outputs /\ buildable[q] /\ stack' = <<f>> \o Left(q) /\ pc' = pc
            BY <2>6 DEF VisitOutput
        <3>2. f \in Frames /\ \A r \in f.rest : Available(r)
            BY <2>1, <3>1 DEF IndexInv, IndexTypeOK, PassInv, Satisfied, Frames
        <3> HIDE DEF f
        <3>3. /\ stack' \in Seq(Frames) /\ stack' # <<>>
              /\ \A i \in DOMAIN stack' : \A r \in stack'[i].rest : Available(r)
            BY <2>2, <3>1, <3>2
        <3> QED
            BY <2>1, <3>1, <3>3 DEF Available
    <2> QED
        BY <2>4, <2>5, <2>6
<1>4. CASE Return
    BY <1>4 DEF Return, Available, given, index
<1>5. CASE UNCHANGED vars
    BY <1>5 DEF vars, Available, given, index
<1> QED
    BY <1>1, <1>2, <1>3, <1>4, <1>5 DEF Next

(* visit raises no KeyError once build_graph has accepted the targets.      *)
THEOREM VisitFindsAll == Spec => []NothingMissing
<1>1. Init => CallsInv
    BY DEF Init, CallsInv, NothingMissing
<1>2. CallsInv => NothingMissing
    BY DEF CallsInv
<1> QED
    BY <1>1, <1>2, IndexHolds, CallsStep, PTL DEF Spec
-----------------------------------------------------------------------------
(* The types of all variables that the sort does not use. *)
GraphTypes ==
    /\ requires \in Graphs /\ supported \in Platforms /\ targets \subseteq Outputs
    /\ stack \in Seq(Frames)
    /\ visited \subseteq Outputs /\ needed \subseteq Outputs /\ nodes \subseteq Providers
    /\ edges \subseteq Providers \X (Providers \cup Outputs \cup Externals)
    /\ IsFiniteSet(nodes)
    /\ pc \in {"index", "targets", "visit", "sort"} \cup Returned

(* The calls of visit: the loop over the targets at the bottom, and above it *)
(* outputs that have been visited, each required by the one below it.        *)
Linked ==
    /\ stack # <<>>
    /\ \A i \in 1..Len(stack) : stack[i].output = None <=> i = Len(stack)
    /\ \A i \in 1..Len(stack) : stack[i].output # None =>
           stack[i].output \in visited /\ ProviderOf[stack[i].output] \in nodes
    /\ \A i \in 2..Len(stack) : stack[i].output # None =>
           <<ProviderOf[stack[i].output], ProviderOf[stack[i - 1].output]>> \in edges
    /\ needed = visited

(* What an output requires is needed, or a call for the output has it still  *)
(* to visit.                                                                 *)
Required(o) == IF o = None THEN targets ELSE requires[o]
Pending(o, r) == \E i \in 1..Len(stack) : stack[i].output = o /\ r \in stack[i].rest
Complete ==
    \A o \in visited \cup {None} : \A r \in Required(o) \cap Outputs :
        r \in visited \/ Pending(o, r)

(* Nothing is visited, or will be, that the targets do not need. *)
Minimal ==
    \A S \in SUBSET Outputs :
        targets \subseteq S /\ (\A o \in S : requires[o] \cap Outputs \subseteq S) =>
        /\ visited \subseteq S
        /\ \A i \in 1..Len(stack) : stack[i].rest \cap Outputs \subseteq S

VisitInv ==
    /\ pc \in {"index", "targets"} => visited = {} /\ needed = {}
    /\ pc = "visit" => Linked /\ Complete /\ Minimal
    /\ pc \in {"sort", "built"} =>
        /\ targets \subseteq needed /\ Needs(needed) \subseteq needed
        /\ \A S \in SUBSET needed : targets \subseteq S /\ Needs(S) \subseteq S => S = needed
    /\ pc = "cycle" => Circular

GraphInv == IndexInv /\ CallsInv /\ GraphTypes /\ VisitInv
-----------------------------------------------------------------------------
(* Left replaces the innermost call by one with one requirement less, and    *)
(* a call pushed on it leaves all others where they are.                     *)
LEMMA LeftShape ==
    ASSUME stack \in Seq(Frames), stack # <<>>, NEW q
    PROVE  /\ Left(q) \in Seq(Frames) /\ Len(Left(q)) = Len(stack)
           /\ Left(q)[1].output = stack[1].output /\ Left(q)[1].rest = stack[1].rest \ {q}
           /\ \A i \in 2..Len(stack) : Left(q)[i] = stack[i]
<1> DEFINE f == [Top EXCEPT !.rest = @ \ {q}]
<1>1. Top \in Frames /\ Top = stack[1] /\ Tail(stack) \in Seq(Frames)
    BY DEF Top
<1>2. f \in Frames /\ f.output = stack[1].output /\ f.rest = stack[1].rest \ {q}
    BY <1>1 DEF Frames
<1> HIDE DEF f
<1>3. /\ <<f>> \o Tail(stack) \in Seq(Frames)
      /\ Len(<<f>> \o Tail(stack)) = Len(stack)
      /\ (<<f>> \o Tail(stack))[1] = f
      /\ \A i \in 2..Len(stack) : (<<f>> \o Tail(stack))[i] = stack[i]
    BY <1>1, <1>2
<1> QED
    BY <1>2, <1>3 DEF Left, f

LEMMA PushShape ==
    ASSUME stack \in Seq(Frames), stack # <<>>, NEW q, NEW f \in Frames
    PROVE  LET s == <<f>> \o Left(q)
           IN  /\ s \in Seq(Frames) /\ Len(s) = Len(stack) + 1 /\ s[1] = f
               /\ s[2].output = stack[1].output /\ s[2].rest = stack[1].rest \ {q}
               /\ \A i \in 3..Len(s) : s[i] = stack[i - 1]
<1> DEFINE t == Left(q)
<1>1. /\ t \in Seq(Frames) /\ Len(t) = Len(stack)
      /\ t[1].output = stack[1].output /\ t[1].rest = stack[1].rest \ {q}
      /\ \A i \in 2..Len(stack) : t[i] = stack[i]
    BY LeftShape
<1> HIDE DEF t
<1> DEFINE s == <<f>> \o t
<1>2. Len(stack) \in Nat /\ Len(stack) >= 1
    OBVIOUS
<1>3. /\ s \in Seq(Frames) /\ Len(s) = Len(t) + 1 /\ s[1] = f
      /\ \A i \in 1..Len(t) : s[i + 1] = t[i]
    BY <1>1
<1> HIDE DEF s
<1>4. s[2] = t[1]
    BY <1>1, <1>2, <1>3
<1>5. ASSUME NEW i \in 3..Len(s) PROVE s[i] = stack[i - 1]
    <2>1. i - 1 \in 2..Len(stack) /\ i = (i - 1) + 1
        BY <1>1, <1>2, <1>3
    <2> QED
        BY <1>1, <1>2, <1>3, <2>1
<1>6. /\ s \in Seq(Frames) /\ Len(s) = Len(stack) + 1 /\ s[1] = f
      /\ s[2].output = stack[1].output /\ s[2].rest = stack[1].rest \ {q}
      /\ \A i \in 3..Len(s) : s[i] = stack[i - 1]
    BY <1>1, <1>3, <1>4, <1>5
<1> QED
    BY <1>6 DEF s, t

LEMMA GraphInit == Init => GraphTypes /\ VisitInv
<1> SUFFICES ASSUME Init PROVE GraphTypes /\ VisitInv
    OBVIOUS
<1>1. IsFiniteSet({})
    BY FS_EmptySet
<1> QED
    BY <1>1 DEF Init, GraphTypes, VisitInv

(* The edge of a requirement goes from the output of the innermost call. *)
LEMMA EdgeAdded ==
    ASSUME GraphInv, pc = "visit", NEW q \in Top.rest, AddEdge(q)
    PROVE  /\ edges \subseteq edges'
           /\ edges' \subseteq Providers \X (Providers \cup Outputs \cup Externals)
           /\ Top.output # None => <<ProviderOf[Top.output], Node(q)>> \in edges'
<1>1. Top \in Frames
    BY DEF GraphInv, GraphTypes, VisitInv, Linked, Top
<1>2. q \in Outputs \cup Externals /\ Top.output \in Outputs \cup {None}
    BY <1>1 DEF Frames
<1>3. Node(q) \in Providers \cup Outputs \cup Externals
    BY <1>2, GraphAssumption DEF Node
<1>4. Top.output # None => ProviderOf[Top.output] \in Providers
    BY <1>2, GraphAssumption
<1> QED
    BY <1>3, <1>4 DEF AddEdge, GraphInv, GraphTypes

(* A provider that is met again among the calls for it is in a circle. *)
LEMMA CycleFound ==
    ASSUME GraphInv, pc = "visit", NEW q \in Top.rest, AddEdge(q), FindCycle(q)
    PROVE  Circular'
<1>1. /\ Linked /\ stack \in Seq(Frames) /\ stack # <<>> /\ Top = stack[1]
      /\ nodes' = nodes /\ q \in Outputs /\ Node(q) = ProviderOf[q]
    BY DEF GraphInv, GraphTypes, VisitInv, Linked, Top, FindCycle, Node
<1>2. PICK k \in 1..Len(stack) :
        stack[k].output # None /\ ProviderOf[stack[k].output] = ProviderOf[q]
    BY <1>1 DEF FindCycle, Chain, Elements
<1>3. \A i \in 1..k : stack[i].output # None
    BY <1>1, <1>2 DEF Linked
<1> DEFINE S == {ProviderOf[stack[i].output] : i \in 1..k}
<1>4. S \in (SUBSET nodes') \ {{}}
    <2>1. S \subseteq nodes
        BY <1>1, <1>3 DEF Linked
    <2>2. ProviderOf[q] \in S
        BY <1>2
    <2> QED
        BY <1>1, <2>1, <2>2
<1>5. ASSUME NEW i \in 1..k
      PROVE  \E d \in S : <<ProviderOf[stack[i].output], d>> \in edges'
    <2>1. CASE i = 1
        <3>1. <<ProviderOf[stack[1].output], ProviderOf[q]>> \in edges'
            BY <1>1, <1>3, EdgeAdded
        <3>2. ProviderOf[q] \in S
            BY <1>2
        <3> QED
            BY <2>1, <3>1, <3>2
    <2>2. CASE i # 1
        <3>1. i \in 2..Len(stack) /\ i - 1 \in 1..k
            BY <2>2
        <3>2. <<ProviderOf[stack[i].output], ProviderOf[stack[i - 1].output]>> \in edges
            BY <1>1, <1>3, <3>1 DEF Linked
        <3> QED
            BY <3>1, <3>2, EdgeAdded
    <2> QED
        BY <2>1, <2>2
<1>6. \A p \in S : \E d \in S : <<p, d>> \in edges'
    BY <1>5
<1> HIDE DEF S
<1> QED
    BY <1>4, <1>6 DEF Circular

(* A requirement that is looked at is taken off; what else was pending is so *)
(* still, whether or not a call is pushed on top.                            *)
LEMMA VisitStep == GraphInv /\ Visit => GraphTypes' /\ VisitInv'
<1> SUFFICES ASSUME GraphInv, Visit PROVE GraphTypes' /\ VisitInv'
    OBVIOUS
<1> PICK q \in Top.rest :
        /\ AddEdge(q)
        /\ VisitExternal(q) \/ VisitMissing(q) \/ FindCycle(q) \/ VisitAgain(q) \/ VisitOutput(q)
    BY DEF Visit
<1>0. /\ pc = "visit" /\ UNCHANGED <<requires, supported, targets>>
      /\ stack \in Seq(Frames) /\ stack # <<>> /\ Top = stack[1]
      /\ GraphTypes /\ Linked /\ Complete /\ Minimal
    BY DEF Visit, given, GraphInv, VisitInv, GraphTypes, Linked, Top
<1>1. /\ edges \subseteq edges'
      /\ edges' \subseteq Providers \X (Providers \cup Outputs \cup Externals)
      /\ Top.output # None => <<ProviderOf[Top.output], Node(q)>> \in edges'
    BY <1>0, EdgeAdded
<1>2. CASE VisitMissing(q)
    BY <1>0, <1>1, <1>2 DEF VisitMissing, GraphTypes, VisitInv, Returned
<1>3. CASE FindCycle(q)
    <2>1. Circular'
        BY <1>0, <1>3, CycleFound
    <2> QED
        BY <1>0, <1>1, <1>3, <2>1 DEF FindCycle, GraphTypes, VisitInv, Returned
<1>4. CASE VisitExternal(q) \/ VisitAgain(q)
    <2>1. /\ stack' \in Seq(Frames) /\ Len(stack') = Len(stack)
          /\ stack'[1].output = stack[1].output /\ stack'[1].rest = stack[1].rest \ {q}
          /\ \A i \in 2..Len(stack) : stack'[i] = stack[i]
        BY <1>0, <1>4, LeftShape DEF VisitExternal, VisitAgain
    <2>2. /\ UNCHANGED <<visited, nodes, pc>> /\ needed' = needed
          /\ q \in Outputs => q \in visited
        BY <1>0, <1>4 DEF VisitExternal, VisitAgain, Linked
    <2>3. \A i \in 1..Len(stack) :
            /\ stack'[i].output = stack[i].output
            /\ stack'[i].rest \subseteq stack[i].rest
            /\ \A r \in stack[i].rest : r # q => r \in stack'[i].rest
        BY <2>1
    <2>4. Linked'
        <3>1. stack' # <<>> /\ needed' = visited'
            BY <1>0, <2>1, <2>2 DEF Linked
        <3>2. \A i \in 2..Len(stack) : i \in 1..Len(stack) /\ i - 1 \in 1..Len(stack)
            BY <1>0
        <3>3. ASSUME NEW i \in 2..Len(stack), stack'[i].output # None
              PROVE  <<ProviderOf[stack'[i].output], ProviderOf[stack'[i - 1].output]>> \in edges'
            <4>1. /\ stack'[i].output = stack[i].output
                  /\ stack'[i - 1].output = stack[i - 1].output
                BY <2>3, <3>2
            <4> QED
                BY <1>0, <1>1, <3>3, <4>1 DEF Linked
        <3> QED
            BY <1>0, <2>1, <2>2, <2>3, <3>1, <3>3 DEF Linked
    <2>5. Complete'
        <3> SUFFICES ASSUME NEW o \in visited \cup {None}, NEW r \in Required(o) \cap Outputs,
                            r \notin visited
                     PROVE  Pending(o, r)'
            BY <1>0, <2>2 DEF Complete, Required
        <3>1. PICK i \in 1..Len(stack) : stack[i].output = o /\ r \in stack[i].rest
            BY <1>0 DEF Complete, Pending
        <3> QED
            BY <2>1, <2>2, <2>3, <3>1 DEF Pending
    <2>6. Minimal'
        BY <1>0, <2>1, <2>2, <2>3 DEF Minimal
    <2> QED
        BY <1>0, <1>1, <2>1, <2>2, <2>4, <2>5, <2>6 DEF GraphTypes, VisitInv
<1>5. CASE VisitOutput(q)
    <2> DEFINE f == [output |-> q, rest |-> requires[q]]
    <2>1. /\ q \in Outputs /\ buildable[q] /\ q \notin visited
          /\ visited' = visited \cup {q} /\ needed' = needed \cup {q}
          /\ nodes' = nodes \cup {ProviderOf[q]}
          /\ stack' = <<f>> \o Left(q) /\ pc' = pc
          /\ q # None /\ Node(q) = ProviderOf[q] /\ ProviderOf[q] \in Providers
        BY <1>5, GraphAssumption DEF VisitOutput, Node
    <2>2. f \in Frames /\ f.output = q /\ f.rest = requires[q]
        BY <2>1 DEF GraphInv, IndexInv, IndexTypeOK, Frames
    <2> HIDE DEF f
    <2>3. /\ stack' \in Seq(Frames) /\ Len(stack') = Len(stack) + 1 /\ stack'[1] = f
          /\ stack'[2].output = stack[1].output /\ stack'[2].rest = stack[1].rest \ {q}
          /\ \A i \in 3..Len(stack') : stack'[i] = stack[i - 1]
        <3> DEFINE s == <<f>> \o Left(q)
        <3>1. /\ s \in Seq(Frames) /\ Len(s) = Len(stack) + 1 /\ s[1] = f
              /\ s[2].output = stack[1].output /\ s[2].rest = stack[1].rest \ {q}
              /\ \A i \in 3..Len(s) : s[i] = stack[i - 1]
            BY <1>0, <2>2, PushShape
        <3> HIDE DEF s
        <3>2. stack' = s
            BY <2>1 DEF s
        <3> QED
            BY <3>1, <3>2
    <2>4. /\ Len(stack) \in Nat /\ Len(stack) >= 1
        BY <1>0
    <2>5. ASSUME NEW i \in 1..Len(stack)
          PROVE  /\ i + 1 \in 2..Len(stack')
                 /\ stack'[i + 1].output = stack[i].output
                 /\ stack'[i + 1].rest \subseteq stack[i].rest
                 /\ \A r \in stack[i].rest : r # q => r \in stack'[i + 1].rest
        <3>1. CASE i = 1
            BY <2>3, <2>4, <3>1
        <3>2. CASE i # 1
            <4>1. i + 1 \in 3..Len(stack') /\ (i + 1) - 1 = i
                BY <2>3, <2>4, <3>2
            <4>2. stack'[i + 1] = stack[i]
                BY <2>3, <4>1
            <4> QED
                BY <4>1, <4>2
        <3> QED
            BY <3>1, <3>2
    <2>6. \A j \in 1..Len(stack') : j = 1 \/ (j - 1 \in 1..Len(stack) /\ j = (j - 1) + 1)
        BY <2>3, <2>4
    <2>7. Linked'
        <3>1. stack' # <<>> /\ needed' = visited'
            BY <1>0, <2>1, <2>3, <2>4 DEF Linked
        <3>2. ASSUME NEW j \in 1..Len(stack')
              PROVE  /\ stack'[j].output = None <=> j = Len(stack')
                     /\ stack'[j].output # None =>
                          stack'[j].output \in visited' /\ ProviderOf[stack'[j].output] \in nodes'
            <4>1. CASE j = 1
                BY <2>1, <2>2, <2>3, <2>4, <4>1
            <4>2. CASE j # 1
                BY <1>0, <2>1, <2>3, <2>4, <2>5, <2>6, <4>2, SMTT(30) DEF Linked
            <4> QED
                BY <4>1, <4>2
        <3>3. ASSUME NEW j \in 2..Len(stack'), stack'[j].output # None
              PROVE  <<ProviderOf[stack'[j].output], ProviderOf[stack'[j - 1].output]>> \in edges'
            <4>1. CASE j = 2
                BY <1>0, <1>1, <2>1, <2>2, <2>3, <3>3, <4>1
            <4>2. CASE j # 2
                <5>1. /\ j - 1 \in 2..Len(stack) /\ (j - 1) - 1 \in 1..Len(stack)
                      /\ j = (j - 1) + 1 /\ j - 1 = ((j - 1) - 1) + 1
                    BY <2>3, <2>4, <4>2
                <5>2. /\ stack'[j].output = stack[j - 1].output
                      /\ stack'[j - 1].output = stack[(j - 1) - 1].output
                    BY <2>5, <5>1
                <5> QED
                    BY <1>0, <1>1, <3>3, <5>1, <5>2 DEF Linked
            <4> QED
                BY <4>1, <4>2
        <3> QED
            BY <3>1, <3>2, <3>3 DEF Linked
    <2>8. Complete'
        <3> SUFFICES ASSUME NEW o \in visited' \cup {None}, NEW r \in Required(o) \cap Outputs,
                            r \notin visited'
                     PROVE  Pending(o, r)'
            BY <1>0 DEF Complete, Required
        <3>1. CASE o = q
            <4>1. 1 \in 1..Len(stack') /\ r \in requires[q]
                BY <2>1, <2>3, <2>4, <3>1 DEF Required
            <4> QED
                BY <2>2, <2>3, <3>1, <4>1 DEF Pending
        <3>2. CASE o # q
            <4>1. o \in visited \cup {None} /\ r \notin visited /\ r # q
                BY <2>1, <3>2
            <4>2. PICK i \in 1..Len(stack) : stack[i].output = o /\ r \in stack[i].rest
                BY <1>0, <4>1 DEF Complete, Pending
            <4>3. i + 1 \in 1..Len(stack') /\ stack'[i + 1].output = o /\ r \in stack'[i + 1].rest
                BY <2>3, <2>4, <2>5, <4>1, <4>2
            <4> QED
                BY <4>3 DEF Pending
        <3> QED
            BY <3>1, <3>2
    <2>9. Minimal'
        <3> SUFFICES ASSUME NEW S \in SUBSET Outputs, targets \subseteq S,
                            \A o \in S : requires[o] \cap Outputs \subseteq S
                     PROVE  /\ visited' \subseteq S
                            /\ \A j \in 1..Len(stack') : stack'[j].rest \cap Outputs \subseteq S
            BY <1>0 DEF Minimal
        <3>1. /\ visited \subseteq S
              /\ \A i \in 1..Len(stack) : stack[i].rest \cap Outputs \subseteq S
            BY <1>0 DEF Minimal
        <3>2. q \in S
            BY <1>0, <2>1, <2>4, <3>1
        <3>3. requires[q] \cap Outputs \subseteq S
            BY <3>2
        <3>4. ASSUME NEW j \in 1..Len(stack') PROVE stack'[j].rest \cap Outputs \subseteq S
            <4>1. CASE j = 1
                BY <2>2, <2>3, <3>3, <4>1
            <4>2. CASE j # 1
                BY <2>5, <2>6, <3>1, <4>2
            <4> QED
                BY <4>1, <4>2
        <3> QED
            BY <2>1, <3>1, <3>2, <3>4
    <2>10. IsFiniteSet(nodes')
        BY <1>0, <2>1, FS_AddElement DEF GraphTypes
    <2> QED
        BY <1>0, <1>1, <2>1, <2>3, <2>7, <2>8, <2>9, <2>10 DEF GraphTypes, VisitInv
<1> QED
    BY <1>2, <1>3, <1>4, <1>5

(* A call that has nothing left to visit has left nothing pending. *)
LEMMA ReturnStep == GraphInv /\ Return => GraphTypes' /\ VisitInv'
<1> SUFFICES ASSUME GraphInv, Return PROVE GraphTypes' /\ VisitInv'
    OBVIOUS
<1>1. /\ pc = "visit" /\ pc' = pc /\ stack \in Seq(Frames) /\ Len(stack) > 1
      /\ Top = stack[1] /\ Top.rest = {} /\ stack' = Tail(stack)
      /\ UNCHANGED <<requires, supported, targets, visited, needed, edges, nodes>>
      /\ GraphTypes /\ Linked /\ Complete /\ Minimal
    BY DEF Return, given, graph, GraphInv, GraphTypes, VisitInv, Top
<1>2. /\ stack' \in Seq(Frames) /\ Len(stack') = Len(stack) - 1 /\ stack' # <<>>
      /\ Len(stack) \in Nat
      /\ \A i \in 1..Len(stack') : stack'[i] = stack[i + 1] /\ i + 1 \in 2..Len(stack)
    BY <1>1, SMTT(30)
<1>3. Linked'
    <2>1. ASSUME NEW i \in 2..Len(stack'), stack'[i].output # None
          PROVE  <<ProviderOf[stack'[i].output], ProviderOf[stack'[i - 1].output]>> \in edges'
        <3>1. /\ stack'[i] = stack[i + 1] /\ stack'[i - 1] = stack[(i + 1) - 1]
              /\ i + 1 \in 2..Len(stack)
            BY <1>2
        <3> QED
            BY <1>1, <2>1, <3>1 DEF Linked
    <2>2. ASSUME NEW i \in 1..Len(stack')
          PROVE  /\ stack'[i].output = None <=> i = Len(stack')
                 /\ stack'[i].output # None =>
                      stack'[i].output \in visited' /\ ProviderOf[stack'[i].output] \in nodes'
        <3>1. stack'[i] = stack[i + 1] /\ i + 1 \in 1..Len(stack)
            BY <1>2
        <3>2. i = Len(stack') <=> i + 1 = Len(stack)
            BY <1>2
        <3> QED
            BY <1>1, <3>1, <3>2 DEF Linked
    <2> QED
        BY <1>1, <1>2, <2>1, <2>2 DEF Linked
<1>4. Complete'
    <2> SUFFICES ASSUME NEW o \in visited \cup {None}, NEW r \in Required(o) \cap Outputs,
                        r \notin visited
                 PROVE  Pending(o, r)'
        BY <1>1 DEF Complete, Required
    <2>1. PICK i \in 1..Len(stack) : stack[i].output = o /\ r \in stack[i].rest
        BY <1>1 DEF Complete, Pending
    <2>2. i # 1
        BY <1>1, <2>1
    <2>3. i - 1 \in 1..Len(stack') /\ stack'[i - 1] = stack[i]
        BY <1>2, <2>2
    <2> QED
        BY <2>1, <2>3 DEF Pending
<1>5. Minimal'
    <2>1. \A i \in 1..Len(stack') : stack'[i] = stack[i + 1] /\ i + 1 \in 1..Len(stack)
        BY <1>2
    <2> QED
        BY <1>1, <2>1 DEF Minimal
<1> QED
    BY <1>1, <1>2, <1>3, <1>4, <1>5 DEF GraphTypes, VisitInv

(* When the loop over the targets is through, what has been visited is       *)
(* exactly what they need.                                                   *)
LEMMA SortStarts == GraphInv /\ StartSort => GraphTypes' /\ VisitInv'
<1> SUFFICES ASSUME GraphInv, StartSort PROVE GraphTypes' /\ VisitInv'
    OBVIOUS
<1>1. /\ pc = "visit" /\ pc' = "sort" /\ Len(stack) = 1 /\ stack[1].rest = {} /\ stack' = <<>>
      /\ UNCHANGED <<requires, supported, targets, visited, needed, edges, nodes>>
      /\ GraphTypes /\ Linked /\ Complete /\ Minimal
    BY DEF StartSort, given, graph, GraphInv, GraphTypes, VisitInv, Top
<1>2. ~\E o, r : Pending(o, r)
    BY <1>1 DEF Pending
<1>3. \A o \in visited \cup {None} : Required(o) \cap Outputs \subseteq visited
    BY <1>1, <1>2 DEF Complete
<1>4. targets \subseteq needed
    BY <1>1, <1>3 DEF Required, GraphTypes, Linked
<1>5. \A o \in needed : requires[o] \cap Outputs \subseteq needed
    BY <1>1, <1>3, GraphAssumption DEF Required, GraphTypes, Linked
<1>6. Needs(needed) \subseteq needed
    BY <1>5 DEF Needs
<1>7. ASSUME NEW S \in SUBSET needed, targets \subseteq S, Needs(S) \subseteq S
      PROVE  S = needed
    <2>1. \A o \in S : requires[o] \cap Outputs \subseteq S
        BY <1>7 DEF Needs
    <2> QED
        BY <1>1, <1>7, <2>1, ZenonT(60) DEF Minimal, GraphTypes, Linked
<1>8. Needs(needed)' = Needs(needed) /\ \A S : Needs(S)' = Needs(S)
    BY <1>1 DEF Needs
<1> QED
    BY <1>1, <1>4, <1>6, <1>7, <1>8 DEF GraphTypes, VisitInv

LEMMA GraphStep == GraphInv /\ [Next]_vars => GraphTypes' /\ VisitInv'
<1> SUFFICES ASSUME GraphInv, [Next]_vars PROVE GraphTypes' /\ VisitInv'
    OBVIOUS
<1>1. CASE IndexOutput \/ EndPass
    BY <1>1 DEF IndexOutput, EndPass, given, index, graph, GraphInv, GraphTypes, VisitInv
<1>2. CASE CheckTargets
    <2> PICK T \in SUBSET Outputs :
            /\ targets' = T
            /\ IF \A t \in T : buildable[t]
                  THEN pc' = "visit" /\ stack' = <<[output |-> None, rest |-> T]>>
                  ELSE pc' = "refused" /\ stack' = stack
        BY <1>2 DEF CheckTargets
    <2>1. /\ UNCHANGED <<requires, supported, visited, needed, edges, nodes>>
          /\ visited = {} /\ needed = {} /\ GraphTypes
        BY <1>2 DEF CheckTargets, given, graph, GraphInv, VisitInv
    <2>2. CASE \A t \in T : buildable[t]
        <3> DEFINE f == [output |-> None, rest |-> T]
        <3>1. f \in Frames /\ f.output = None /\ f.rest = T
            BY DEF Frames
        <3>2. pc' = "visit" /\ stack' = <<f>>
            BY <2>2
        <3> HIDE DEF f
        <3>3. stack' \in Seq(Frames) /\ Len(stack') = 1 /\ stack'[1] = f /\ stack' # <<>>
            BY <3>1, <3>2
        <3>4. Linked' /\ Minimal'
            BY <2>1, <3>1, <3>3 DEF Linked, Minimal
        <3>5. Complete'
            BY <2>1, <3>1, <3>3 DEF Complete, Required, Pending
        <3> QED
            BY <2>1, <3>2, <3>3, <3>4, <3>5 DEF GraphTypes, VisitInv
    <2>3. CASE ~\A t \in T : buildable[t]
        BY <2>1, <2>3 DEF GraphTypes, VisitInv, Returned
    <2> QED
        BY <2>2, <2>3
<1>3. CASE Visit
    BY <1>3, VisitStep
<1>4. CASE Return
    BY <1>4, ReturnStep
<1>5. CASE StartSort
    BY <1>5, SortStarts
<1>6. CASE Sort \/ EndSort \/ UNCHANGED vars
    <2>1. /\ UNCHANGED <<requires, supported, targets, stack, visited, needed, edges, nodes>>
          /\ pc' = pc \/ (pc = "sort" /\ pc' = "built")
        <3>1. CASE Sort
            BY <3>1 DEF Sort, given, graph
        <3>2. CASE EndSort
            BY <3>2 DEF EndSort, given, graph
        <3>3. CASE UNCHANGED vars
            BY <3>3 DEF vars, given, graph
        <3> QED
            BY <1>6, <3>1, <3>2, <3>3
    <2>2. Circular' = Circular /\ \A S : Needs(S)' = Needs(S)
        BY <2>1 DEF Circular, Needs
    <2>3. Linked' = Linked /\ Complete' = Complete /\ Minimal' = Minimal
        BY <2>1 DEF Linked, Complete, Required, Pending, Minimal
    <2> QED
        BY <2>1, <2>2, <2>3 DEF GraphInv, GraphTypes, VisitInv, Returned
<1> QED
    BY <1>1, <1>2, <1>3, <1>4, <1>5, <1>6 DEF Next

LEMMA GraphHolds == Spec => []GraphInv
<1>1. Init => GraphInv
    BY IndexInit, GraphInit DEF GraphInv, Init, CallsInv, NothingMissing
<1>2. GraphInv /\ [Next]_vars => GraphInv'
    BY IndexStep, CallsStep, GraphStep DEF GraphInv
<1> QED
    BY <1>1, <1>2, PTL DEF Spec

(* build_graph marks as needed the targets and all they require, directly or *)
(* not, and no more: no build of an output that nobody asked for, and none   *)
(* left out because its provider was visited for another of its outputs.     *)
THEOREM NeededIsTheClosure == Spec => []NeededIsClosure
<1>1. GraphInv => NeededIsClosure
    BY DEF GraphInv, VisitInv, NeededIsClosure
<1> QED
    BY <1>1, GraphHolds, PTL
-----------------------------------------------------------------------------
(* Kahn's algorithm: in_degree counts what is not in the order yet of what   *)
(* comes before a provider, and the queue holds those with nothing left.     *)
NoTwice(s) == \A i, j \in 1..Len(s) : s[i] = s[j] => i = j
Sorting ==
    /\ in_degree \in [Providers -> Nat]
    /\ queue \in Seq(nodes) /\ NoTwice(queue)
    /\ order \in Seq(nodes) /\ NoTwice(order)
    /\ Elements(queue) \cap Elements(order) = {}
    /\ \A q \in nodes :
        /\ in_degree[q] = Cardinality(Before(q) \ Elements(order))
        /\ in_degree[q] = 0 <=> q \in Elements(queue) \cup Elements(order)
    /\ \A j \in 1..Len(order) : \A d \in Before(order[j]) : \E i \in 1..(j - 1) : order[i] = d

SortInv ==
    /\ pc \in {"sort", "built"} => Sorting
    /\ pc \notin {"sort", "built"} =>
          queue = <<>> /\ order = <<>> /\ in_degree \in [Providers -> Nat]
    /\ pc = "built" => queue = <<>>

(* A set written down in any order is written down without repetition. *)
LEMMA OrderOfSet ==
    ASSUME NEW S, IsFiniteSet(S), NEW s \in Orders(S)
    PROVE  s \in Seq(S) /\ Len(s) = Cardinality(S) /\ Elements(s) = S /\ NoTwice(s)
<1>1. Cardinality(S) \in Nat
    BY FS_CardinalityType
<1>2. s \in [1..Cardinality(S) -> S] /\ Elements(s) = S
    BY DEF Orders
<1>3. s \in Seq(S) /\ Len(s) = Cardinality(S)
    BY <1>1, <1>2
<1>4. s \in Surjection(1..Cardinality(S), S)
    BY <1>2 DEF Elements, Surjection
<1>5. IsFiniteSet(1..Cardinality(S)) /\ Cardinality(1..Cardinality(S)) = Cardinality(S)
    BY <1>1, FS_Interval
<1>6. s \in Injection(1..Cardinality(S), S)
    BY <1>4, <1>5, FS_Surjection
<1>7. NoTwice(s)
    BY <1>3, <1>6 DEF Injection, IsInjective, NoTwice
<1> QED
    BY <1>2, <1>3, <1>7

(* Two sequences without repetition and without a common element. *)
LEMMA Concatenated ==
    ASSUME NEW S, NEW s \in Seq(S), NEW t \in Seq(S), NoTwice(s), NoTwice(t),
           Elements(s) \cap Elements(t) = {}
    PROVE  /\ s \o t \in Seq(S) /\ NoTwice(s \o t)
           /\ Elements(s \o t) = Elements(s) \cup Elements(t)
<1> DEFINE u == s \o t
<1>1. /\ u \in Seq(S) /\ Len(u) = Len(s) + Len(t) /\ Len(s) \in Nat /\ Len(t) \in Nat
      /\ \A i \in 1..Len(s) : u[i] = s[i]
      /\ \A i \in 1..Len(t) : u[Len(s) + i] = t[i]
    OBVIOUS
<1> HIDE DEF u
<1>2. \A i \in 1..Len(u) :
        \/ i \in 1..Len(s)
        \/ i - Len(s) \in 1..Len(t) /\ i = Len(s) + (i - Len(s))
    BY <1>1
<1>3. \A i \in 1..Len(u) : i \notin 1..Len(s) => u[i] = t[i - Len(s)]
    BY <1>1, <1>2
<1>4. Elements(s) = {s[i] : i \in 1..Len(s)} /\ Elements(t) = {t[i] : i \in 1..Len(t)}
    BY DEF Elements
<1>5. Elements(u) = {u[i] : i \in 1..Len(u)}
    BY <1>1, SMTT(30) DEF Elements
<1>6. Elements(u) \subseteq Elements(s) \cup Elements(t)
    BY <1>1, <1>2, <1>3, <1>4, <1>5
<1>7. Elements(s) \subseteq Elements(u)
    BY <1>1, <1>4, <1>5
<1>8. Elements(t) \subseteq Elements(u)
    BY <1>1, <1>4, <1>5, SMTT(30)
<1>9. ASSUME NEW i \in 1..Len(u), NEW j \in 1..Len(u), u[i] = u[j]
      PROVE  i = j
    <2>1. CASE i \in 1..Len(s) /\ j \in 1..Len(s)
        BY <1>1, <1>9, <2>1 DEF NoTwice
    <2>2. CASE i \notin 1..Len(s) /\ j \notin 1..Len(s)
        <3>1. t[i - Len(s)] = t[j - Len(s)]
            BY <1>3, <1>9, <2>2
        <3>2. i - Len(s) = j - Len(s)
            BY <1>2, <2>2, <3>1 DEF NoTwice
        <3> QED
            BY <1>1, <3>2
    <2>3. CASE i \in 1..Len(s) /\ j \notin 1..Len(s)
        BY <1>1, <1>2, <1>3, <1>4, <1>9, <2>3, ZenonT(60)
    <2>4. CASE i \notin 1..Len(s) /\ j \in 1..Len(s)
        BY <1>1, <1>2, <1>3, <1>4, <1>9, <2>4
    <2> QED
        BY <2>1, <2>2, <2>3, <2>4
<1>10. NoTwice(u)
    BY <1>9 DEF NoTwice
<1> QED
    BY <1>1, <1>6, <1>7, <1>8, <1>10 DEF u

LEMMA BeforeFinite ==
    ASSUME IsFiniteSet(nodes), NEW q, NEW T
    PROVE  IsFiniteSet(Before(q) \ T) /\ Cardinality(Before(q) \ T) \in Nat
<1>1. Before(q) \ T \in SUBSET nodes
    BY DEF Before
<1>2. IsFiniteSet(Before(q) \ T)
    BY <1>1, FS_Subset
<1> QED
    BY <1>2, FS_CardinalityType

LEMMA SortingStarts == GraphInv /\ SortInv /\ StartSort => SortInv'
<1> SUFFICES ASSUME GraphInv, SortInv, StartSort PROVE SortInv'
    OBVIOUS
<1> DEFINE Z == {p \in nodes : Before(p) = {}}
<1>1. /\ pc = "visit" /\ pc' = "sort" /\ UNCHANGED <<edges, nodes, order>> /\ order = <<>>
      /\ in_degree' = [p \in Providers |-> Cardinality(Before(p))]
      /\ queue' \in Orders(Z) /\ IsFiniteSet(nodes) /\ nodes \subseteq Providers
    BY DEF StartSort, graph, SortInv, GraphInv, GraphTypes
<1>2. \A q : IsFiniteSet(Before(q)) /\ Cardinality(Before(q)) \in Nat
    <2> SUFFICES ASSUME NEW q PROVE IsFiniteSet(Before(q)) /\ Cardinality(Before(q)) \in Nat
        OBVIOUS
    <2>1. Before(q) \ {} = Before(q)
        OBVIOUS
    <2> QED
        BY <1>1, <2>1, BeforeFinite
<1>3. in_degree' \in [Providers -> Nat] /\ \A q \in nodes : in_degree'[q] = Cardinality(Before(q))
    BY <1>1, <1>2
<1>4. IsFiniteSet(Z)
    BY <1>1, FS_Subset
<1>5. queue' \in Seq(Z) /\ Elements(queue') = Z /\ NoTwice(queue')
    BY <1>1, <1>4, OrderOfSet
<1>6. \A q \in nodes : in_degree'[q] = 0 <=> q \in Z
    BY <1>2, <1>3, FS_EmptySet
<1>7. queue' \in Seq(nodes)
    BY <1>5
<1> HIDE DEF Z
<1>8. \A q : Before(q)' = Before(q)
    BY <1>1 DEF Before
<1>9. order' \in Seq(nodes) /\ Elements(order') = {} /\ NoTwice(order') /\ Len(order') = 0
    BY <1>1 DEF Elements, NoTwice
<1>10. \A q \in nodes : in_degree'[q] = Cardinality(Before(q) \ {})
    <2>1. \A q : Before(q) \ {} = Before(q)
        OBVIOUS
    <2> QED
        BY <1>3, <2>1
<1>11. \A q \in nodes' :
        /\ in_degree'[q] = Cardinality(Before(q)' \ Elements(order'))
        /\ in_degree'[q] = 0 <=> q \in Elements(queue') \cup Elements(order')
    <2>1. ASSUME NEW q \in nodes PROVE in_degree'[q] = Cardinality(Before(q)' \ Elements(order'))
        <3>1. Before(q)' \ Elements(order') = Before(q) \ {}
            BY <1>8, <1>9
        <3> QED
            BY <1>10, <3>1
    <2>2. \A q \in nodes : in_degree'[q] = 0 <=> q \in Elements(queue') \cup Elements(order')
        BY <1>5, <1>6, <1>9
    <2> QED
        BY <1>1, <2>1, <2>2
<1>12. 1..Len(order') = {}
    BY <1>9
<1>13. queue' \in Seq(nodes') /\ order' \in Seq(nodes') /\ Elements(queue') \cap Elements(order') = {}
    BY <1>1, <1>7, <1>9
<1>14. Sorting'
    BY <1>3, <1>5, <1>9, <1>11, <1>12, <1>13 DEF Sorting
<1> QED
    BY <1>1, <1>14 DEF SortInv

(* The provider at the head of the queue has all of its own in the order;    *)
(* the count of those that wait for it goes down by one, and where it was    *)
(* one they are queued.                                                      *)
LEMMA SortingStep == GraphInv /\ SortInv /\ Sort => SortInv'
<1> SUFFICES ASSUME GraphInv, SortInv, Sort PROVE SortInv'
    OBVIOUS
<1> DEFINE p == Head(queue)
           after == {q \in nodes : p \in Before(q)}
           Z == {q \in after : in_degree[q] = 1}
           done == Elements(order)
           rest == Tail(queue)
           one == <<p>>
<1>1. /\ pc = "sort" /\ pc' = "sort" /\ queue # <<>> /\ UNCHANGED <<edges, nodes>>
      /\ order' = Append(order, p)
      /\ in_degree' = [q \in Providers |-> IF q \in after THEN in_degree[q] - 1 ELSE in_degree[q]]
      /\ Sorting /\ IsFiniteSet(nodes) /\ nodes \subseteq Providers
    BY DEF Sort, graph, SortInv, GraphInv, GraphTypes
<1> PICK s \in Orders(Z) : queue' = rest \o s
    BY DEF Sort
<1>2. s \in Seq(Z) /\ Elements(s) = Z /\ NoTwice(s)
    <2>1. IsFiniteSet(Z)
        BY <1>1, FS_Subset
    <2> QED
        BY <2>1, OrderOfSet
<1>3. \A q : Before(q)' = Before(q)
    BY <1>1 DEF Before
<1>4. /\ queue \in Seq(nodes) /\ NoTwice(queue) /\ order \in Seq(nodes) /\ NoTwice(order)
      /\ in_degree \in [Providers -> Nat] /\ Elements(queue) \cap done = {}
      /\ \A q \in nodes : in_degree[q] = Cardinality(Before(q) \ done)
      /\ \A q \in nodes : in_degree[q] = 0 <=> q \in Elements(queue) \cup done
    BY <1>1 DEF Sorting
<1>5. /\ p = queue[1] /\ p \in nodes /\ p \in Elements(queue) /\ p \notin done
      /\ Elements(queue) = {p} \cup Elements(rest) /\ p \notin Elements(rest)
      /\ rest \in Seq(nodes) /\ NoTwice(rest)
    <2>1. p = queue[1] /\ p \in nodes /\ p \in Elements(queue)
        BY <1>1, <1>4 DEF Elements
    <2>2. /\ rest \in Seq(nodes) /\ Len(rest) = Len(queue) - 1 /\ Len(queue) \in Nat
          /\ \A i \in 1..Len(rest) : rest[i] = queue[i + 1] /\ i + 1 \in 2..Len(queue)
        BY <1>1, <1>4
    <2> HIDE DEF rest
    <2>3. \A i \in 2..Len(queue) : i - 1 \in 1..Len(rest) /\ rest[i - 1] = queue[i]
        BY <2>2
    <2>4. Elements(rest) = {rest[i] : i \in 1..Len(rest)}
        BY <2>2 DEF Elements
    <2>5. Elements(queue) = {queue[i] : i \in 1..Len(queue)}
        BY <1>4 DEF Elements
    <2>6. p \notin Elements(rest)
        BY <1>4, <2>1, <2>2, <2>4 DEF NoTwice
    <2>7. Elements(queue) \subseteq {p} \cup Elements(rest)
        <3> SUFFICES ASSUME NEW x \in Elements(queue) PROVE x = p \/ x \in Elements(rest)
            OBVIOUS
        <3>1. PICK i \in 1..Len(queue) : x = queue[i]
            BY <2>5
        <3>2. CASE i = 1
            BY <2>1, <3>1, <3>2
        <3>3. CASE i \in 2..Len(queue)
            BY <2>3, <2>4, <3>1, <3>3
        <3> QED
            BY <2>2, <3>2, <3>3
    <2>8. Elements(rest) \subseteq Elements(queue)
        BY <2>2, <2>4, <2>5
    <2>9. NoTwice(rest)
        <3> SUFFICES ASSUME NEW i \in 1..Len(rest), NEW j \in 1..Len(rest),
                            rest[i] = rest[j]
                     PROVE  i = j
            BY DEF NoTwice
        <3>1. /\ queue[i + 1] = queue[j + 1]
              /\ i + 1 \in 1..Len(queue) /\ j + 1 \in 1..Len(queue)
            BY <2>2
        <3>2. i + 1 = j + 1
            BY <1>4, <3>1 DEF NoTwice
        <3> QED
            BY <2>2, <3>2
    <2> QED
        BY <1>4, <2>1, <2>2, <2>6, <2>7, <2>8, <2>9
<1>6. Before(p) \subseteq done
    <2>1. Cardinality(Before(p) \ done) = 0
        BY <1>4, <1>5
    <2>2. Before(p) \ done = {}
        BY <1>1, <2>1, BeforeFinite, FS_EmptySet
    <2> QED
        BY <2>2
<1>7. /\ order' \in Seq(nodes) /\ Len(order') = Len(order) + 1 /\ Len(order) \in Nat
      /\ order'[Len(order) + 1] = p /\ \A i \in 1..Len(order) : order'[i] = order[i]
    BY <1>1, <1>4, <1>5
<1>8. Elements(order') = done \cup {p} /\ NoTwice(order')
    <2>1. one \in Seq(nodes) /\ NoTwice(one) /\ Elements(one) = {p}
        BY <1>5 DEF NoTwice, Elements
    <2>2. order' = order \o one
        BY <1>1, <1>4, <1>5
    <2>3. done \cap Elements(one) = {}
        BY <1>5, <2>1
    <2> HIDE DEF one, p
    <2> QED
        BY <1>4, <2>1, <2>2, <2>3, Concatenated
<1>9. ASSUME NEW q \in nodes
      PROVE  /\ in_degree'[q] \in Nat
             /\ in_degree'[q] = Cardinality(Before(q) \ (done \cup {p}))
             /\ in_degree'[q] = 0 <=> q \in Elements(rest) \cup Z \cup done \cup {p}
    <2>1. Before(q) \ (done \cup {p}) = (Before(q) \ done) \ {p}
        OBVIOUS
    <2>2. IsFiniteSet(Before(q) \ done) /\ Cardinality(Before(q) \ done) \in Nat
        BY <1>1, BeforeFinite
    <2>3. CASE q \in after
        <3>1. p \in Before(q) \ done
            BY <1>5, <2>3
        <3>2. Cardinality(Before(q) \ (done \cup {p})) = in_degree[q] - 1
            <4> DEFINE B == Before(q) \ done
            <4>1. IsFiniteSet(B) /\ p \in B /\ Cardinality(B) = in_degree[q]
                BY <1>4, <2>2, <3>1
            <4> HIDE DEF B, p
            <4>2. Cardinality(B \ {p}) = Cardinality(B) - 1
                BY <4>1, FS_RemoveElement
            <4> QED
                BY <2>1, <4>1, <4>2 DEF B
        <3>3. in_degree[q] # 0
            BY <1>4, <2>2, <3>1, FS_EmptySet
        <3>4. in_degree'[q] = in_degree[q] - 1 /\ in_degree[q] \in Nat
            BY <1>1, <1>4, <2>3
        <3>5. in_degree'[q] = 0 <=> q \in Z
            BY <2>3, <3>4
        <3> QED
            BY <1>4, <1>5, <3>2, <3>3, <3>4, <3>5
    <2>4. CASE q \notin after
        <3>1. p \notin Before(q) \ done
            BY <2>4
        <3>2. Before(q) \ (done \cup {p}) = Before(q) \ done
            BY <3>1
        <3>3. in_degree'[q] = in_degree[q] /\ q \notin Z
            BY <1>1, <2>4
        <3> QED
            BY <1>1, <1>4, <1>5, <2>2, <3>2, <3>3
    <2> QED
        BY <2>3, <2>4
<1>10. in_degree' \in [Providers -> Nat]
    <2>1. ASSUME NEW q \in Providers PROVE in_degree'[q] \in Nat
        <3>1. CASE q \in nodes
            BY <1>9, <3>1
        <3>2. CASE q \notin nodes
            BY <1>1, <1>4, <3>2
        <3> QED
            BY <3>1, <3>2
    <2> QED
        BY <1>1, <2>1
<1>11. /\ queue' \in Seq(nodes) /\ NoTwice(queue')
       /\ Elements(queue') = Elements(rest) \cup Z
    <2>1. Elements(rest) \cap Z = {}
        BY <1>4, <1>5
    <2>2. s \in Seq(nodes)
        BY <1>2
    <2> HIDE DEF Z, rest
    <2> QED
        BY <1>2, <1>5, <2>1, <2>2, Concatenated
<1>12. Elements(queue') \cap Elements(order') = {}
    <2>1. p \notin after
        BY DEF Before
    <2>2. Z \cap done = {}
        BY <1>4
    <2> QED
        BY <1>4, <1>5, <1>8, <1>11, <2>1, <2>2
<1>13. ASSUME NEW j \in 1..Len(order'), NEW d \in Before(order'[j])
       PROVE  \E i \in 1..(j - 1) : order'[i] = d
    <2>1. CASE j = Len(order) + 1
        <3>1. d \in done
            BY <1>6, <1>7, <1>13, <2>1
        <3>2. PICK i \in 1..Len(order) : order[i] = d
            BY <1>4, <3>1 DEF Elements
        <3> QED
            BY <1>7, <2>1, <3>2
    <2>2. CASE j # Len(order) + 1
        <3>1. j \in 1..Len(order) /\ order'[j] = order[j]
            BY <1>7, <2>2
        <3>2. PICK i \in 1..(j - 1) : order[i] = d
            BY <1>1, <1>13, <3>1 DEF Sorting
        <3>3. i \in 1..Len(order)
            BY <1>7, <3>1
        <3> QED
            BY <1>7, <3>2, <3>3
    <2> QED
        BY <2>1, <2>2
<1> HIDE DEF p, Z, done, rest
<1>14. Sorting'
    BY <1>1, <1>3, <1>7, <1>8, <1>9, <1>10, <1>11, <1>12, <1>13 DEF Sorting
<1> QED
    BY <1>1, <1>14 DEF SortInv

OrderInv == GraphInv /\ SortInv

LEMMA OrderStep == OrderInv /\ [Next]_vars => OrderInv'
<1> SUFFICES ASSUME OrderInv, [Next]_vars PROVE OrderInv'
    OBVIOUS
<1>1. GraphInv /\ SortInv
    BY DEF OrderInv
<1>2. GraphInv'
    BY <1>1, IndexStep, CallsStep, GraphStep DEF GraphInv
<1>3. CASE StartSort
    BY <1>1, <1>2, <1>3, SortingStarts DEF OrderInv
<1>4. CASE Sort
    BY <1>1, <1>2, <1>4, SortingStep DEF OrderInv
<1>5. CASE EndSort \/ UNCHANGED vars
    <2>1. /\ UNCHANGED <<edges, nodes, in_degree, queue, order>>
          /\ pc' = pc \/ (pc = "sort" /\ pc' = "built" /\ queue = <<>>)
        BY <1>5 DEF EndSort, vars, graph, sorting
    <2>2. Sorting' = Sorting
        BY <2>1 DEF Sorting, Before
    <2> QED
        BY <1>1, <1>2, <2>1, <2>2 DEF OrderInv, SortInv
<1>6. CASE IndexOutput \/ EndPass \/ CheckTargets \/ Visit \/ Return
    <2>1. /\ UNCHANGED <<in_degree, queue, order>>
          /\ pc \notin {"sort", "built"} /\ pc' \notin {"sort", "built"}
        BY <1>6 DEF IndexOutput, EndPass, CheckTargets, Visit, VisitExternal, VisitMissing,
            FindCycle, VisitAgain, VisitOutput, Return, sorting
    <2> QED
        BY <1>1, <1>2, <2>1 DEF OrderInv, SortInv
<1> QED
    BY <1>3, <1>4, <1>5, <1>6 DEF Next

LEMMA OrderHolds == Spec => []OrderInv
<1>1. Init => OrderInv
    BY IndexInit, GraphInit DEF OrderInv, GraphInv, Init, CallsInv, NothingMissing, SortInv
<1> QED
    BY <1>1, OrderStep, PTL DEF Spec

(* build_graph keeps its variables in their types. *)
THEOREM BuildGraphTypes == Spec => []TypeOK
<1>1. OrderInv => TypeOK
    <2> SUFFICES ASSUME OrderInv PROVE TypeOK
        OBVIOUS
    <2>1. \A c \in Elements(stack) : c \in Frames
        BY DEF OrderInv, GraphInv, GraphTypes, Elements
    <2>2. /\ in_degree \in [Providers -> Nat]
          /\ queue \in Seq(Providers) /\ order \in Seq(Providers)
        <3>1. nodes \subseteq Providers
            BY DEF OrderInv, GraphInv, GraphTypes
        <3>2. \A s \in Seq(nodes) : s \in Seq(Providers)
            BY <3>1
        <3>3. CASE pc \in {"sort", "built"}
            BY <3>2, <3>3 DEF OrderInv, SortInv, Sorting
        <3>4. CASE pc \notin {"sort", "built"}
            BY <3>4 DEF OrderInv, SortInv
        <3> QED
            BY <3>3, <3>4
    <2>3. /\ requires \in Graphs /\ supported \in Platforms /\ present \subseteq Externals
          /\ buildable \in [Outputs -> BOOLEAN] /\ changed \in BOOLEAN
          /\ pass \subseteq Outputs /\ targets \subseteq Outputs
          /\ visited \subseteq Outputs /\ needed \subseteq Outputs /\ nodes \subseteq Providers
          /\ edges \subseteq Providers \X (Providers \cup Outputs \cup Externals)
          /\ pc \in {"index", "targets", "visit", "sort"} \cup Returned
        BY DEF OrderInv, GraphInv, IndexInv, IndexTypeOK, GraphTypes
    <2> QED
        BY <2>1, <2>2, <2>3 DEF TypeOK, Frames
<1> QED
    BY <1>1, OrderHolds, PTL

(* "Topologically sorted provider instances": however the sets are walked, a *)
(* provider is in the order once, and behind all that it requires.           *)
THEOREM OrderIsSorted == Spec => []OrderIsTopological
<1>1. OrderInv => OrderIsTopological
    <2> SUFFICES ASSUME OrderInv PROVE OrderIsTopological
        OBVIOUS
    <2>1. CASE pc \in {"sort", "built"}
        <3>1. Sorting /\ DOMAIN order = 1..Len(order)
            BY <2>1 DEF OrderInv, SortInv, Sorting
        <3> QED
            BY <3>1 DEF Sorting, NoTwice, OrderIsTopological
    <2>2. CASE pc \notin {"sort", "built"}
        BY <2>2 DEF OrderInv, SortInv, OrderIsTopological
    <2> QED
        BY <2>1, <2>2
<1> QED
    BY <1>1, OrderHolds, PTL

(* visit raises for a cycle, and the sort leaves a provider out, only where  *)
(* providers require each other in a circle.                                 *)
THEOREM CyclesOnly == Spec => []OnlyCyclesFail
<1>1. OrderInv => OnlyCyclesFail
    <2> SUFFICES ASSUME OrderInv PROVE OnlyCyclesFail
        OBVIOUS
    <2>1. pc = "cycle" => Circular
        BY DEF OrderInv, GraphInv, VisitInv
    <2>2. ASSUME pc = "built", ~Circular PROVE Elements(order) = nodes
        <3> DEFINE S == nodes \ Elements(order)
        <3>1. Sorting /\ Elements(queue) = {} /\ IsFiniteSet(nodes)
            BY <2>2 DEF OrderInv, SortInv, GraphInv, GraphTypes, Elements
        <3>2. Elements(order) \subseteq nodes
            BY <3>1 DEF Sorting, Elements
        <3>3. ASSUME NEW p \in S PROVE \E d \in S : <<p, d>> \in edges
            <4>1. in_degree[p] # 0 /\ in_degree[p] = Cardinality(Before(p) \ Elements(order))
                BY <3>1 DEF Sorting
            <4>2. Before(p) \ Elements(order) # {}
                BY <4>1, FS_EmptySet
            <4> QED
                BY <4>2 DEF Before
        <3> HIDE DEF S
        <3>4. S \in SUBSET nodes
            BY DEF S
        <3>5. S = {}
            BY <2>2, <3>3, <3>4 DEF Circular
        <3> QED
            BY <3>2, <3>5 DEF S
    <2> QED
        BY <2>1, <2>2 DEF OnlyCyclesFail
<1> QED
    BY <1>1, OrderHolds, PTL
-----------------------------------------------------------------------------
(* What is left to do, as four numbers of which the first are the weightier:  *)
(* the phase; in the passes over the index the outputs taken for buildable,    *)
(* whether another pass is due, and the outputs of this one; in the visit the *)
(* outputs not visited, what the calls have still to visit, and the calls.     *)
Builds == {o \in Outputs : buildable[o]}
Waiting ==
    {w \in (1..Len(stack)) \X (Outputs \cup Externals) :
        w[2] \in stack[Len(stack) + 1 - w[1]].rest}
Countdown ==
    CASE pc = "index" -> <<4, Cardinality(Builds), IF changed THEN 1 ELSE 0, Cardinality(pass)>>
      [] pc = "targets" -> <<3, 0, 0, 0>>
      [] pc = "visit" -> <<2, Cardinality(Outputs \ visited), Cardinality(Waiting), Len(stack)>>
      [] pc = "sort" -> <<1, Cardinality(nodes \ Elements(order)), 0, 0>>
      [] pc \in Returned -> <<0, 0, 0, 0>>

LEMMA LowerFours ==
    ASSUME NEW a, NEW b, NEW c, NEW d, NEW e, NEW f, NEW g, NEW h,
           a < e \/ (a = e /\ b < f) \/ (a = e /\ b = f /\ c < g)
               \/ (a = e /\ b = f /\ c = g /\ d < h)
    PROVE  Lower(<<a, b, c, d>>, <<e, f, g, h>>)
BY DEF Lower

(* A set with an element less has less elements. *)
LEMMA Fewer ==
    ASSUME NEW S, IsFiniteSet(S), NEW x \in S, NEW T, T \subseteq S \ {x}
    PROVE  IsFiniteSet(T) /\ Cardinality(T) \in Nat /\ Cardinality(S) \in Nat
           /\ Cardinality(T) < Cardinality(S)
<1>1. T \in SUBSET S /\ T # S
    OBVIOUS
<1>2. IsFiniteSet(T) /\ Cardinality(T) <= Cardinality(S) /\ Cardinality(T) # Cardinality(S)
    BY <1>1, FS_Subset
<1>3. Cardinality(T) \in Nat /\ Cardinality(S) \in Nat
    BY <1>2, FS_CardinalityType
<1> QED
    BY <1>2, <1>3

LEMMA WaitingFinite ==
    ASSUME stack \in Seq(Frames)
    PROVE  IsFiniteSet(Waiting) /\ Cardinality(Waiting) \in Nat
<1> DEFINE all == (1..Len(stack)) \X (Outputs \cup Externals)
<1>1. IsFiniteSet(Outputs \cup Externals)
    BY CatalogueIsFinite, FS_Union
<1>2. IsFiniteSet(1..Len(stack))
    BY FS_Interval
<1>3. IsFiniteSet(all)
    BY <1>1, <1>2, FS_Product
<1>4. Waiting \in SUBSET all
    BY DEF Waiting
<1> HIDE DEF all
<1>5. IsFiniteSet(Waiting)
    BY <1>3, <1>4, FS_Subset
<1> QED
    BY <1>5, FS_CardinalityType

LEMMA CountdownType ==
    ASSUME GraphInv
    PROVE  Countdown \in Fours /\ (Countdown[1] = 0 => pc \in Returned)
<1>1. \A S \in SUBSET Outputs : Cardinality(S) \in Nat
    BY CatalogueIsFinite, FS_Subset, FS_CardinalityType
<1>2. CASE pc = "index"
    <2>1. Cardinality(Builds) \in Nat
        BY <1>1 DEF Builds
    <2>2. Cardinality(pass) \in Nat
        BY <1>1 DEF GraphInv, IndexInv, IndexTypeOK
    <2>3. (IF changed THEN 1 ELSE 0) \in Nat
        OBVIOUS
    <2>4. Countdown = <<4, Cardinality(Builds), IF changed THEN 1 ELSE 0, Cardinality(pass)>>
        BY <1>2 DEF Countdown, Returned
    <2> QED
        BY <2>1, <2>2, <2>3, <2>4 DEF Fours
<1>3. CASE pc = "targets"
    <2>1. Countdown = <<3, 0, 0, 0>>
        BY <1>3 DEF Countdown, Returned
    <2> QED
        BY <2>1 DEF Fours
<1>4. CASE pc = "visit"
    <2>1. stack \in Seq(Frames) /\ Len(stack) \in Nat
        BY DEF GraphInv, GraphTypes
    <2>2. Cardinality(Waiting) \in Nat
        BY <2>1, WaitingFinite
    <2>3. Cardinality(Outputs \ visited) \in Nat
        BY <1>1
    <2>4. Countdown = <<2, Cardinality(Outputs \ visited), Cardinality(Waiting), Len(stack)>>
        BY <1>4 DEF Countdown, Returned
    <2> QED
        BY <2>1, <2>2, <2>3, <2>4 DEF Fours
<1>5. CASE pc = "sort"
    <2>1. IsFiniteSet(nodes)
        BY DEF GraphInv, GraphTypes
    <2>2. Cardinality(nodes \ Elements(order)) \in Nat
        BY <2>1, FS_Difference, FS_CardinalityType
    <2>3. Countdown = <<1, Cardinality(nodes \ Elements(order)), 0, 0>>
        BY <1>5 DEF Countdown, Returned
    <2> QED
        BY <2>2, <2>3 DEF Fours
<1>6. CASE pc \in Returned
    <2>1. Countdown = <<0, 0, 0, 0>>
        BY <1>6 DEF Countdown, Returned
    <2> QED
        BY <1>6, <2>1 DEF Fours
<1>7. pc \in {"index", "targets", "visit", "sort"} \cup Returned
    BY DEF GraphInv, GraphTypes
<1> QED
    BY <1>2, <1>3, <1>4, <1>5, <1>6, <1>7

(* An output is looked at, or found not to be buildable, or the pass is over. *)
LEMMA IndexCountsDown ==
    ASSUME GraphInv, IndexOutput \/ EndPass
    PROVE  Lower(Countdown', Countdown)
<1>1. /\ pc = "index" /\ IsFiniteSet(pass) /\ IsFiniteSet(Builds)
      /\ buildable \in [Outputs -> BOOLEAN] /\ changed \in BOOLEAN /\ pass \subseteq Outputs
    <2>1. pass \in SUBSET Outputs /\ Builds \in SUBSET Outputs
        BY DEF GraphInv, IndexInv, IndexTypeOK, Builds
    <2>2. IsFiniteSet(pass) /\ IsFiniteSet(Builds)
        BY <2>1, CatalogueIsFinite, FS_Subset
    <2> QED
        BY <2>2 DEF IndexOutput, EndPass, GraphInv, IndexInv, IndexTypeOK
<1>2. Countdown = <<4, Cardinality(Builds), IF changed THEN 1 ELSE 0, Cardinality(pass)>>
    BY <1>1 DEF Countdown, Returned
<1>3. CASE IndexOutput
    <2> PICK o \in pass :
            /\ pass' = pass \ {o}
            /\ IF buildable[o] /\ \E r \in requires[o] : ~Available(r)
                  THEN buildable' = [buildable EXCEPT ![o] = FALSE] /\ changed' = TRUE
                  ELSE UNCHANGED <<buildable, changed>>
        BY <1>3 DEF IndexOutput
    <2>1. pc' = "index"
        BY <1>1, <1>3 DEF IndexOutput
    <2>2. Countdown' =
              <<4, Cardinality(Builds'), IF changed' THEN 1 ELSE 0, Cardinality(pass')>>
        BY <2>1 DEF Countdown, Returned
    <2>3. CASE buildable' = [buildable EXCEPT ![o] = FALSE] /\ buildable[o]
        <3>1. o \in Builds /\ Builds' \subseteq Builds \ {o}
            BY <1>1, <2>3 DEF Builds
        <3>2. Cardinality(Builds') < Cardinality(Builds)
            BY <1>1, <3>1, Fewer
        <3> QED
            BY <1>2, <2>2, <3>2, LowerFours
    <2>4. CASE UNCHANGED <<buildable, changed>>
        <3>1. Builds' = Builds
            BY <2>4 DEF Builds
        <3>2. Cardinality(pass') < Cardinality(pass)
            BY <1>1, Fewer
        <3> QED
            BY <1>2, <2>2, <2>4, <3>1, <3>2, LowerFours
    <2> QED
        BY <2>3, <2>4
<1>4. CASE EndPass
    <2>1. CASE changed
        <3>1. pc' = "index" /\ changed' = FALSE /\ buildable' = buildable
            BY <1>1, <1>4, <2>1 DEF EndPass
        <3>2. Countdown' =
                  <<4, Cardinality(Builds'), IF changed' THEN 1 ELSE 0, Cardinality(pass')>>
            BY <3>1 DEF Countdown, Returned
        <3>3. Builds' = Builds
            BY <3>1 DEF Builds
        <3>4. (IF changed' THEN 1 ELSE 0) < (IF changed THEN 1 ELSE 0)
            BY <2>1, <3>1
        <3> QED
            BY <1>2, <3>2, <3>3, <3>4, LowerFours
    <2>2. CASE ~changed
        <3>1. pc' = "targets"
            BY <1>4, <2>2 DEF EndPass
        <3>2. Countdown' = <<3, 0, 0, 0>>
            BY <3>1 DEF Countdown, Returned
        <3>3. 3 < 4
            OBVIOUS
        <3> QED
            BY <1>2, <3>2, <3>3, LowerFours
    <2> QED
        BY <2>1, <2>2
<1> QED
    BY <1>3, <1>4

(* The phases follow each other. *)
LEMMA PhasesCountDown ==
    ASSUME GraphInv, CheckTargets \/ StartSort \/ EndSort
    PROVE  Lower(Countdown', Countdown)
<1>1. CASE CheckTargets
    <2>1. pc = "targets" /\ pc' \in {"visit", "refused"}
        BY <1>1 DEF CheckTargets
    <2>2. Countdown = <<3, 0, 0, 0>>
        BY <2>1 DEF Countdown, Returned
    <2>3. CASE pc' = "visit"
        <3>1. Countdown' =
                  <<2, Cardinality(Outputs \ visited'), Cardinality(Waiting'), Len(stack')>>
            BY <2>3 DEF Countdown, Returned
        <3>2. 2 < 3
            OBVIOUS
        <3> QED
            BY <2>2, <3>1, <3>2, LowerFours
    <2>4. CASE pc' = "refused"
        <3>1. Countdown' = <<0, 0, 0, 0>>
            BY <2>4 DEF Countdown, Returned
        <3>2. 0 < 3
            OBVIOUS
        <3> QED
            BY <2>2, <3>1, <3>2, LowerFours
    <2> QED
        BY <2>1, <2>3, <2>4
<1>2. CASE StartSort
    <2>1. pc = "visit" /\ pc' = "sort"
        BY <1>2 DEF StartSort
    <2>2. Countdown = <<2, Cardinality(Outputs \ visited), Cardinality(Waiting), Len(stack)>>
        BY <2>1 DEF Countdown, Returned
    <2>3. Countdown' = <<1, Cardinality(nodes' \ Elements(order')), 0, 0>>
        BY <2>1 DEF Countdown, Returned
    <2>4. 1 < 2
        OBVIOUS
    <2> QED
        BY <2>2, <2>3, <2>4, LowerFours
<1>3. CASE EndSort
    <2>1. pc = "sort" /\ pc' = "built"
        BY <1>3 DEF EndSort
    <2>2. Countdown = <<1, Cardinality(nodes \ Elements(order)), 0, 0>>
        BY <2>1 DEF Countdown, Returned
    <2>3. Countdown' = <<0, 0, 0, 0>>
        BY <2>1 DEF Countdown, Returned
    <2>4. 0 < 1
        OBVIOUS
    <2> QED
        BY <2>2, <2>3, <2>4, LowerFours
<1> QED
    BY <1>1, <1>2, <1>3
-----------------------------------------------------------------------------
(* A requirement less of the innermost call. *)
LEMMA LeftWaiting ==
    ASSUME GraphInv, pc = "visit", NEW q \in Top.rest, stack' = Left(q)
    PROVE  Cardinality(Waiting') < Cardinality(Waiting)
<1>1. stack \in Seq(Frames) /\ stack # <<>> /\ Top = stack[1]
    BY DEF GraphInv, GraphTypes, CallsInv, Top
<1>2. /\ Len(stack') = Len(stack) /\ Len(stack) \in Nat /\ Len(stack) >= 1
      /\ stack'[1].rest = stack[1].rest \ {q}
      /\ \A i \in 2..Len(stack) : stack'[i] = stack[i]
    BY <1>1, LeftShape
<1> DEFINE w == <<Len(stack), q>>
<1>3. q \in Outputs \cup Externals
    <2>1. stack[1] \in Frames
        BY <1>1
    <2> QED
        BY <1>1, <2>1 DEF Frames
<1>4. w \in Waiting
    <2>1. Len(stack) + 1 - Len(stack) = 1 /\ Len(stack) \in 1..Len(stack)
        BY <1>2
    <2> QED
        BY <1>1, <1>3, <2>1 DEF Waiting
<1>5. Waiting' \subseteq Waiting \ {w}
    <2> SUFFICES ASSUME NEW v \in Waiting' PROVE v \in Waiting /\ v # w
        OBVIOUS
    <2> DEFINE i == Len(stack) + 1 - v[1]
    <2>1. /\ v \in (1..Len(stack)) \X (Outputs \cup Externals)
          /\ v[2] \in stack'[i].rest
        BY <1>2 DEF Waiting
    <2>2. v[1] \in 1..Len(stack) /\ i \in 1..Len(stack) /\ (v[1] = Len(stack) <=> i = 1)
        BY <1>2, <2>1
    <2> HIDE DEF i
    <2>3. CASE i = 1
        <3>1. v[2] \in stack[1].rest /\ v[2] # q
            BY <1>2, <2>1, <2>3
        <3> QED
            BY <2>1, <2>3, <3>1 DEF Waiting, i
    <2>4. CASE i # 1
        <3>1. stack'[i] = stack[i] /\ v[1] # Len(stack)
            BY <1>2, <2>2, <2>4
        <3> QED
            BY <2>1, <3>1 DEF Waiting, i
    <2> QED
        BY <2>3, <2>4
<1>6. IsFiniteSet(Waiting)
    BY <1>1, WaitingFinite
<1> HIDE DEF w
<1> QED
    BY <1>4, <1>5, <1>6, Fewer

LEMMA VisitCountsDown ==
    ASSUME GraphInv, Visit
    PROVE  Lower(Countdown', Countdown)
<1> PICK q \in Top.rest :
        VisitExternal(q) \/ VisitMissing(q) \/ FindCycle(q) \/ VisitAgain(q) \/ VisitOutput(q)
    BY DEF Visit
<1>1. pc = "visit"
    BY DEF Visit
<1>2. Countdown = <<2, Cardinality(Outputs \ visited), Cardinality(Waiting), Len(stack)>>
    BY <1>1 DEF Countdown, Returned
<1>3. CASE VisitMissing(q) \/ FindCycle(q)
    <2>1. pc' \in {"missing", "cycle"}
        BY <1>3 DEF VisitMissing, FindCycle
    <2>2. Countdown' = <<0, 0, 0, 0>>
        BY <2>1 DEF Countdown, Returned
    <2>3. 0 < 2
        OBVIOUS
    <2> QED
        BY <1>2, <2>2, <2>3, LowerFours
<1>4. CASE VisitExternal(q) \/ VisitAgain(q)
    <2>1. pc' = "visit" /\ visited' = visited /\ stack' = Left(q)
        BY <1>1, <1>4 DEF VisitExternal, VisitAgain
    <2>2. Countdown' = <<2, Cardinality(Outputs \ visited'), Cardinality(Waiting'), Len(stack')>>
        BY <2>1 DEF Countdown, Returned
    <2>3. Cardinality(Waiting') < Cardinality(Waiting)
        BY <1>1, <2>1, LeftWaiting
    <2> QED
        BY <1>2, <2>1, <2>2, <2>3, LowerFours
<1>5. CASE VisitOutput(q)
    <2>1. pc' = "visit" /\ visited' = visited \cup {q} /\ q \in Outputs \ visited
        BY <1>1, <1>5 DEF VisitOutput
    <2>2. Countdown' = <<2, Cardinality(Outputs \ visited'), Cardinality(Waiting'), Len(stack')>>
        BY <2>1 DEF Countdown, Returned
    <2>3. IsFiniteSet(Outputs \ visited)
        BY CatalogueIsFinite, FS_Difference
    <2>4. Outputs \ visited' \subseteq (Outputs \ visited) \ {q}
        BY <2>1
    <2>5. Cardinality(Outputs \ visited') < Cardinality(Outputs \ visited)
        BY <2>1, <2>3, <2>4, Fewer
    <2> QED
        BY <1>2, <2>2, <2>5, LowerFours
<1> QED
    BY <1>3, <1>4, <1>5

LEMMA ReturnCountsDown ==
    ASSUME GraphInv, Return
    PROVE  Lower(Countdown', Countdown)
<1>1. /\ pc = "visit" /\ pc' = "visit" /\ visited' = visited /\ stack' = Tail(stack)
      /\ stack \in Seq(Frames) /\ Len(stack) > 1 /\ stack[1].rest = {}
    BY DEF Return, graph, GraphInv, GraphTypes, CallsInv, Top
<1>2. /\ Len(stack') = Len(stack) - 1 /\ Len(stack) \in Nat
      /\ \A i \in 1..Len(stack') : stack'[i] = stack[i + 1]
    BY <1>1, SMTT(30)
<1>3. Waiting' = Waiting
    <2>1. ASSUME NEW v \in Waiting' PROVE v \in Waiting
        <3> DEFINE i == Len(stack') + 1 - v[1]
        <3>1. /\ v \in (1..Len(stack')) \X (Outputs \cup Externals)
              /\ v[2] \in stack'[i].rest
            BY <2>1 DEF Waiting
        <3>2. v[1] \in 1..Len(stack) /\ i \in 1..Len(stack') /\ i + 1 = Len(stack) + 1 - v[1]
            BY <1>2, <3>1
        <3> HIDE DEF i
        <3>3. v[2] \in stack[i + 1].rest
            BY <1>2, <3>1, <3>2
        <3>4. v \in (1..Len(stack)) \X (Outputs \cup Externals)
            BY <3>1, <3>2
        <3> QED
            BY <3>2, <3>3, <3>4 DEF Waiting
    <2>2. ASSUME NEW v \in Waiting PROVE v \in Waiting'
        <3> DEFINE i == Len(stack) + 1 - v[1]
        <3>1. /\ v \in (1..Len(stack)) \X (Outputs \cup Externals)
              /\ v[2] \in stack[i].rest
            BY <2>2 DEF Waiting
        <3>2. i \in 1..Len(stack)
            BY <1>2, <3>1
        <3>3. i # 1
            BY <1>1, <3>1
        <3>4. v[1] \in 1..Len(stack)
            BY <3>1
        <3>5. /\ v[1] \in 1..Len(stack') /\ i - 1 \in 1..Len(stack')
              /\ i - 1 = Len(stack') + 1 - v[1] /\ (i - 1) + 1 = i
            <4>1. Len(stack') = Len(stack) - 1 /\ Len(stack) \in Nat
                BY <1>2
            <4> QED
                BY <3>2, <3>3, <3>4, <4>1
        <3> HIDE DEF i
        <3>6. v[2] \in stack'[i - 1].rest
            BY <1>2, <3>1, <3>5
        <3>7. v \in (1..Len(stack')) \X (Outputs \cup Externals)
            BY <3>1, <3>5
        <3> QED
            BY <3>5, <3>6, <3>7 DEF Waiting
    <2> QED
        BY <2>1, <2>2
<1>4. Countdown = <<2, Cardinality(Outputs \ visited), Cardinality(Waiting), Len(stack)>>
    BY <1>1 DEF Countdown, Returned
<1>5. Countdown' = <<2, Cardinality(Outputs \ visited'), Cardinality(Waiting'), Len(stack')>>
    BY <1>1 DEF Countdown, Returned
<1>6. Len(stack') < Len(stack)
    BY <1>2
<1> QED
    BY <1>1, <1>3, <1>4, <1>5, <1>6, LowerFours

(* The provider at the head of the queue is not in the order yet. *)
LEMMA SortCountsDown ==
    ASSUME OrderInv, Sort
    PROVE  Lower(Countdown', Countdown)
<1> DEFINE p == Head(queue)
<1>1. pc = "sort" /\ pc' = "sort" /\ queue # <<>> /\ nodes' = nodes /\ order' = Append(order, p)
    BY DEF Sort, graph
<1>2. /\ IsFiniteSet(nodes) /\ queue \in Seq(nodes) /\ order \in Seq(nodes)
      /\ Elements(queue) \cap Elements(order) = {}
    BY <1>1 DEF OrderInv, GraphInv, GraphTypes, SortInv, Sorting
<1>3. p \in nodes /\ p \in Elements(queue)
    <2>1. p = queue[1] /\ 1 \in DOMAIN queue
        BY <1>1, <1>2
    <2> QED
        BY <1>2, <2>1 DEF Elements
<1> HIDE DEF p
<1>4. Elements(order) \cup {p} \subseteq Elements(order')
    <2>1. /\ DOMAIN order' = 1..(Len(order) + 1) /\ DOMAIN order = 1..Len(order)
          /\ Len(order) \in Nat /\ order'[Len(order) + 1] = p
          /\ \A i \in 1..Len(order) : order'[i] = order[i]
        BY <1>1, <1>2, <1>3
    <2>2. p \in Elements(order')
        BY <2>1 DEF Elements
    <2>3. Elements(order) \subseteq Elements(order')
        BY <2>1 DEF Elements
    <2> QED
        BY <2>2, <2>3
<1>5. nodes' \ Elements(order') \subseteq (nodes \ Elements(order)) \ {p}
    BY <1>1, <1>4
<1>6. p \in nodes \ Elements(order)
    BY <1>2, <1>3
<1>7. IsFiniteSet(nodes \ Elements(order))
    BY <1>2, FS_Difference
<1>8. Cardinality(nodes' \ Elements(order')) < Cardinality(nodes \ Elements(order))
    BY <1>5, <1>6, <1>7, Fewer
<1>9. Countdown = <<1, Cardinality(nodes \ Elements(order)), 0, 0>>
    BY <1>1 DEF Countdown, Returned
<1>10. Countdown' = <<1, Cardinality(nodes' \ Elements(order')), 0, 0>>
    BY <1>1 DEF Countdown, Returned
<1> QED
    BY <1>8, <1>9, <1>10, LowerFours

(* Every step of build_graph leaves less to do, in a well-founded order: the passes  *)
(* over the index, the visit of requirements that go in a circle and the sort cannot *)
(* go on for ever, and nothing is left only where build_graph has returned or raised. *)
THEOREM GraphCountsDown ==
    Spec => /\ [](Countdown \in Fours /\ (Countdown[1] = 0 => pc \in Returned))
            /\ [][Lower(Countdown', Countdown)]_vars
<1>1. OrderInv => Countdown \in Fours /\ (Countdown[1] = 0 => pc \in Returned)
    BY CountdownType DEF OrderInv
<1>2. OrderInv /\ [Next]_vars => [Lower(Countdown', Countdown)]_vars
    <2> SUFFICES ASSUME OrderInv, Next PROVE Lower(Countdown', Countdown)
        OBVIOUS
    <2>1. CASE IndexOutput \/ EndPass
        BY <2>1, IndexCountsDown DEF OrderInv
    <2>2. CASE CheckTargets \/ StartSort \/ EndSort
        BY <2>2, PhasesCountDown DEF OrderInv
    <2>3. CASE Visit
        BY <2>3, VisitCountsDown DEF OrderInv
    <2>4. CASE Return
        BY <2>4, ReturnCountsDown DEF OrderInv
    <2>5. CASE Sort
        BY <2>5, SortCountsDown
    <2> QED
        BY <2>1, <2>2, <2>3, <2>4, <2>5 DEF Next
<1> QED
    BY <1>1, <1>2, OrderHolds, PTL DEF Spec
=============================================================================

--------------------------- MODULE DetectionProofs ---------------------------
(***************************************************************************)
(* Theorems about Detection, for any number of threads, any catalogues and any *)
(* images, also those that contain themselves.                               *)
(***************************************************************************)
EXTENDS Detection, Countdowns, FiniteSetTheorems, TLAPS

(* Only a container that was matched has children. *)
Open(frame) == frame.children # <<>> => frame.format # None

(* The images around the one that is looked at are open at the child that holds *)
(* it, and there are no more of them than MAX_DEPTH.                           *)
Stacks ==
    {s \in Seq(FrameSet) :
        /\ Len(s) <= MaxDepth
        /\ \A i \in 1..Len(s) : Open(s[i]) /\ (i > 1 => s[i].children # <<>>)}

(* What is found at MAX_DEPTH is data. *)
Reported(node) == node.depth = MaxDepth => node.format = DataFormat
Reports == {n \in Seq(NodeSet) : \A i \in 1..Len(n) : Reported(n[i])}

IInv ==
    /\ formats \in Seq(Formats) \cup {None}
    /\ pc \in [Threads -> {"idle", "set", "detect", "report"}]
    /\ catalogue \in [Threads -> Seq(Formats)]
    /\ stack \in [Threads -> Stacks]
    /\ nodes \in [Threads -> Reports]
    /\ calls \in [Threads -> 0..MaxCalls]
    /\ \A t \in Threads : stack[t] # <<>> => formats # None
-----------------------------------------------------------------------------
(* Stacks *)

LEMMA EmptyStack == <<>> \in Stacks
BY DetectionAssumption DEF Stacks

LEMMA StackOfOne ==
    ASSUME NEW f \in FrameSet, Open(f)
    PROVE  <<f>> \in Stacks
BY DetectionAssumption DEF Stacks

(* The innermost frame is replaced. *)
LEMMA StackReplaced ==
    ASSUME NEW s \in Stacks, s # <<>>, NEW f \in FrameSet, Open(f)
    PROVE  Push(f, Tail(s)) \in Stacks
<1>1. s \in Seq(FrameSet) BY DEF Stacks
<1>2. Tail(s) \in Seq(FrameSet) /\ Len(Tail(s)) = Len(s) - 1 BY <1>1
<1> DEFINE p == <<f>> \o Tail(s)
<1>3. p \in Seq(FrameSet) /\ Len(p) = Len(s) BY <1>1, <1>2
<1>4. p[1] = f /\ \A i \in 2..Len(s) : p[i] = s[i] BY <1>1, <1>2
<1>5. \A i \in 1..Len(p) : Open(p[i]) /\ (i > 1 => p[i].children # <<>>)
  <2> SUFFICES ASSUME NEW i \in 1..Len(p)
               PROVE  Open(p[i]) /\ (i > 1 => p[i].children # <<>>)
    OBVIOUS
  <2>1. CASE i = 1 BY <2>1, <1>4
  <2>2. CASE i # 1
    <3>1. i \in 2..Len(s) /\ i \in 1..Len(s) BY <2>2, <1>1, <1>3
    <3>2. p[i] = s[i] BY <3>1, <1>4
    <3> QED BY <3>1, <3>2 DEF Stacks
  <2> QED BY <2>1, <2>2
<1>6. Len(p) <= MaxDepth BY <1>3 DEF Stacks
<1> HIDE DEF p
<1>7. p \in Stacks BY <1>3, <1>5, <1>6 DEF Stacks
<1> QED BY <1>7 DEF Push, p

(* A frame is added for a child of the innermost one. *)
LEMMA StackPushed ==
    ASSUME NEW s \in Stacks, s # <<>>, Head(s).children # <<>>, Len(s) < MaxDepth,
           NEW f \in FrameSet, Open(f)
    PROVE  Push(f, s) \in Stacks
<1>1. s \in Seq(FrameSet) BY DEF Stacks
<1> DEFINE p == <<f>> \o s
<1>2. p \in Seq(FrameSet) /\ Len(p) = Len(s) + 1 BY <1>1
<1>3. p[1] = f /\ \A i \in 1..Len(s) : p[i + 1] = s[i] BY <1>1
<1>4. \A i \in 1..Len(s) : s[i].children # <<>>
  <2>1. s[1] = Head(s) BY <1>1
  <2> QED BY <2>1 DEF Stacks
<1>5. \A i \in 1..Len(p) : Open(p[i]) /\ (i > 1 => p[i].children # <<>>)
  <2> SUFFICES ASSUME NEW i \in 1..Len(p)
               PROVE  Open(p[i]) /\ (i > 1 => p[i].children # <<>>)
    OBVIOUS
  <2>1. CASE i = 1 BY <2>1, <1>3
  <2>2. CASE i # 1
    <3>1. PICK j \in 1..Len(s) : i = j + 1
      <4>1. i - 1 \in 1..Len(s) /\ i = (i - 1) + 1 BY <2>2, <1>1, <1>2
      <4> QED BY <4>1
    <3>2. p[i] = s[j] BY <3>1, <1>3
    <3> QED BY <3>2, <1>4 DEF Stacks
  <2> QED BY <2>1, <2>2
<1>6. Len(p) <= MaxDepth BY <1>1, <1>2, DetectionAssumption
<1> HIDE DEF p
<1>7. p \in Stacks BY <1>2, <1>5, <1>6 DEF Stacks
<1> QED BY <1>7 DEF Push, p

(* The innermost frame is taken off. *)
LEMMA StackPopped ==
    ASSUME NEW s \in Stacks, Len(s) > 1
    PROVE  /\ Tail(s) \in Stacks /\ Tail(s) # <<>>
           /\ s[2] \in FrameSet /\ s[2].children # <<>> /\ Open(s[2])
<1>1. s \in Seq(FrameSet) BY DEF Stacks
<1> DEFINE p == Tail(s)
<1>2. p \in Seq(FrameSet) /\ Len(p) = Len(s) - 1 BY <1>1
<1>3. \A i \in 1..Len(p) : p[i] = s[i + 1] /\ i + 1 \in 1..Len(s) /\ i + 1 > 1 BY <1>1, <1>2
<1> HIDE DEF p
<1>4. \A i \in 1..Len(p) : Open(p[i]) /\ p[i].children # <<>> BY <1>3 DEF Stacks
<1>5. Len(p) <= MaxDepth BY <1>1, <1>2, DetectionAssumption DEF Stacks
<1>6. p \in Stacks BY <1>2, <1>4, <1>5 DEF Stacks
<1>7. p # <<>> BY <1>1, <1>2
<1>8. 2 \in 1..Len(s) BY <1>1
<1>9. s[2] \in FrameSet /\ s[2].children # <<>> /\ Open(s[2]) BY <1>1, <1>8 DEF Stacks
<1> QED BY <1>6, <1>7, <1>9 DEF p

LEMMA TopOfStack ==
    ASSUME NEW s \in Stacks, s # <<>>
    PROVE  Head(s) \in FrameSet /\ Open(Head(s)) /\ Len(s) \in 1..MaxDepth
<1>1. s \in Seq(FrameSet) BY DEF Stacks
<1>2. Head(s) = s[1] /\ Len(s) \in Nat /\ Len(s) >= 1 /\ s[1] \in FrameSet BY <1>1
<1>3. 1 \in 1..Len(s) BY <1>2
<1>4. Open(s[1]) BY <1>3 DEF Stacks
<1>5. Len(s) <= MaxDepth BY DEF Stacks
<1> QED BY <1>2, <1>4, <1>5, DetectionAssumption
-----------------------------------------------------------------------------
(* Frames *)

LEMMA FrameOfChild ==
    ASSUME NEW child \in ChildOf, NEW stream \in Seq(Formats),
           NEW seen \in SUBSET (Seq(Formats) \X Nat \X Formats), NEW before \in Nat,
           formats \in Seq(Formats)
    PROVE  Frame(child, stream, seen, before) \in FrameSet
           /\ Open(Frame(child, stream, seen, before))
BY DEF ChildOf, Frame, FrameSet, Open

LEMMA FrameFields ==
    ASSUME NEW f \in FrameSet
    PROVE  /\ f.image \in Images /\ f.stream \in Seq(Formats)
           /\ f.todo \in Seq(Formats) /\ f.children \in Seq(ChildOf)
           /\ f.seen \in SUBSET (Seq(Formats) \X Nat \X Formats)
           /\ f.branch \in SUBSET (Seq(Formats) \X Nat \X Formats)
           /\ f.format \in Formats \cup {None}
BY DEF FrameSet

LEMMA FrameNextFormat ==
    ASSUME NEW f \in FrameSet, f.todo # <<>>
    PROVE  /\ [f EXCEPT !.todo = Tail(@)] \in FrameSet
           /\ Head(f.todo) \in Formats /\ Tail(f.todo) \in Seq(Formats)
<1>1. f.todo \in Seq(Formats) BY FrameFields
<1>2. Head(f.todo) \in Formats /\ Tail(f.todo) \in Seq(Formats) BY <1>1
<1>3. [f EXCEPT !.todo = Tail(f.todo)] \in FrameSet BY <1>2 DEF FrameSet
<1> QED BY <1>2, <1>3

LEMMA FrameNextChild ==
    ASSUME NEW f \in FrameSet, f.children # <<>>
    PROVE  /\ [f EXCEPT !.children = Tail(@)] \in FrameSet
           /\ Head(f.children) \in ChildOf /\ Tail(f.children) \in Seq(ChildOf)
<1>1. f.children \in Seq(ChildOf) BY FrameFields
<1>2. Head(f.children) \in ChildOf /\ Tail(f.children) \in Seq(ChildOf) BY <1>1
<1>3. [f EXCEPT !.children = Tail(f.children)] \in FrameSet BY <1>2 DEF FrameSet
<1> QED BY <1>2, <1>3

LEMMA FrameAfterChild ==
    ASSUME NEW f \in FrameSet, f.children # <<>>,
           NEW branch \in SUBSET (Seq(Formats) \X Nat \X Formats)
    PROVE  [f EXCEPT !.children = Tail(@), !.branch = branch] \in FrameSet
<1>1. Tail(f.children) \in Seq(ChildOf) BY FrameNextChild
<1>2. [f EXCEPT !.children = Tail(f.children), !.branch = branch] \in FrameSet
  BY <1>1 DEF FrameSet
<1> QED BY <1>2

LEMMA KeyType ==
    ASSUME NEW f \in FrameSet, NEW format \in Formats
    PROVE  Key(f, format) \in Seq(Formats) \X Nat \X Formats
BY DEF Key, FrameSet

LEMMA ChildrenType ==
    ASSUME NEW image \in Images, NEW format \in Formats
    PROVE  ChildrenOf(image, format) \in Seq(ChildOf)
BY DetectionAssumption DEF ChildrenOf

LEMMA ReportLonger ==
    ASSUME NEW n \in Reports, NEW node \in NodeSet, Reported(node)
    PROVE  Append(n, node) \in Reports
<1>1. n \in Seq(NodeSet) BY DEF Reports
<1> DEFINE a == Append(n, node)
<1>2. a \in Seq(NodeSet) /\ Len(a) = Len(n) + 1 BY <1>1
<1>3. \A i \in 1..Len(a) : a[i] = IF i <= Len(n) THEN n[i] ELSE node BY <1>1
<1> HIDE DEF a
<1>4. \A i \in 1..Len(a) : Reported(a[i])
  <2> SUFFICES ASSUME NEW i \in 1..Len(a) PROVE Reported(a[i]) OBVIOUS
  <2>1. CASE i \in 1..Len(n) BY <2>1, <1>1, <1>3 DEF Reports
  <2>2. CASE i \notin 1..Len(n) BY <2>2, <1>1, <1>2, <1>3
  <2> QED BY <2>1, <2>2
<1>5. a \in Reports BY <1>2, <1>4 DEF Reports
<1> QED BY <1>5 DEF a

LEMMA DataNodeType ==
    ASSUME NEW child \in ChildOf, NEW depth \in 0..MaxDepth
    PROVE  DataNode(child, depth) \in NodeSet /\ Reported(DataNode(child, depth))
BY DEF ChildOf, DataNode, NodeSet, Reported

LEMMA OrdersType ==
    ASSUME NEW c \in Catalogues, NEW order \in Orders(c)
    PROVE  order \in Seq(Formats)
<1>1. c \subseteq Formats /\ IsFiniteSet(c) BY DetectionAssumption
<1>2. Cardinality(c) \in Nat BY <1>1, FS_CardinalityType
<1>3. order \in [1..Cardinality(c) -> c] BY DEF Orders
<1> QED BY <1>1, <1>2, <1>3
-----------------------------------------------------------------------------
(* What a step of a thread that detects has at hand. *)
LEMMA LookingFacts ==
    ASSUME IInv, NEW t \in Threads, Looking(t)
    PROVE  /\ formats \in Seq(Formats)
           /\ stack[t] \in Stacks /\ stack[t] # <<>> /\ nodes[t] \in Reports
           /\ Top(t) \in FrameSet /\ Open(Top(t))
           /\ Len(stack[t]) \in 1..MaxDepth /\ Depth(t) \in 0..(MaxDepth - 1)
<1>1. stack[t] \in Stacks /\ stack[t] # <<>> /\ nodes[t] \in Reports BY DEF IInv, Looking
<1>2. Top(t) \in FrameSet /\ Open(Top(t)) /\ Len(stack[t]) \in 1..MaxDepth
  BY <1>1, TopOfStack DEF Top
<1>3. formats \in Seq(Formats) BY <1>1 DEF IInv
<1> QED BY <1>1, <1>2, <1>3, DetectionAssumption DEF Depth

(* A step that only touches the stack and the nodes of a thread. *)
LEMMA IInvUpdate ==
    ASSUME IInv, NEW t \in Threads, Looking(t),
           NEW s \in Stacks, stack' = [stack EXCEPT ![t] = s],
           NEW n \in Reports, nodes' = [nodes EXCEPT ![t] = n],
           pc' \in [Threads -> {"idle", "set", "detect", "report"}],
           UNCHANGED <<formats, catalogue, calls>>
    PROVE  IInv'
<1>1. stack' \in [Threads -> Stacks] /\ nodes' \in [Threads -> Reports] BY DEF IInv
<1>2. formats # None BY LookingFacts, DetectionAssumption
<1>3. \A u \in Threads : stack'[u] # <<>> => formats' # None BY <1>2
<1> QED BY <1>1, <1>3 DEF IInv

LEMMA IInvPassOver ==
    ASSUME IInv, NEW t \in Threads, PassOver(t)
    PROVE  IInv'
<1> USE DEF PassOver, NextFormat
<1>1. Looking(t) /\ Top(t).todo # <<>> /\ Top(t).children = <<>> OBVIOUS
<1> DEFINE f == [Top(t) EXCEPT !.todo = Tail(@)]
<1>2. f \in FrameSet BY <1>1, LookingFacts, FrameNextFormat
<1>3. f.children = <<>> BY <1>1, LookingFacts DEF FrameSet
<1>4. stack' = [stack EXCEPT ![t] = Push(f, Tail(stack[t]))] BY LookingFacts, <1>1 DEF Replace, IInv
<1>5. nodes' = [nodes EXCEPT ![t] = nodes[t]] BY DEF IInv
<1> HIDE DEF f
<1>6. Push(f, Tail(stack[t])) \in Stacks BY <1>1, <1>2, <1>3, LookingFacts, StackReplaced DEF Open
<1> QED BY <1>1, <1>4, <1>5, <1>6, LookingFacts, IInvUpdate DEF IInv

LEMMA IInvMatch ==
    ASSUME IInv, NEW t \in Threads, Match(t)
    PROVE  IInv'
<1> DEFINE frame == Top(t)
           format == Head(frame.todo)
           node == Node(format, frame, Depth(t))
           seen == frame.seen \cup {Key(frame, format)}
           f == [frame EXCEPT !.todo = Tail(@), !.format = format, !.seen = @ \cup {Key(frame, format)},
                              !.branch = Branch(frame, format),
                              !.children = ChildrenOf(frame.image, format)]
<1>1. Looking(t) /\ frame.todo # <<>> BY DEF Match, NextFormat
<1>2. frame \in FrameSet BY <1>1, LookingFacts
<1>3. format \in Formats /\ Tail(frame.todo) \in Seq(Formats) BY <1>1, <1>2, FrameNextFormat
<1>4. seen \in SUBSET (Seq(Formats) \X Nat \X Formats) BY <1>2, <1>3, FrameFields, KeyType
<1>5. ChildrenOf(frame.image, format) \in Seq(ChildOf) BY <1>2, <1>3, FrameFields, ChildrenType
<1>6. f \in FrameSet /\ f.format = format
  <2> DEFINE todo == Tail(frame.todo)
             children == ChildrenOf(frame.image, format)
  <2>1. f = [frame EXCEPT !.todo = todo, !.format = format, !.seen = seen,
                          !.branch = seen, !.children = children] BY DEF Branch
  <2> HIDE DEF frame, format, todo, children, seen, f
  <2> QED BY <2>1, <1>2, <1>3, <1>4, <1>5 DEF FrameSet, todo, children
<1>7. node \in NodeSet /\ Reported(node)
  BY <1>1, <1>2, <1>3, LookingFacts, DetectionAssumption DEF Node, NodeSet, FrameSet, Reported
<1>8. /\ stack' = [stack EXCEPT ![t] = Push(f, Tail(stack[t]))]
      /\ nodes' = [nodes EXCEPT ![t] = Append(nodes[t], node)]
      /\ UNCHANGED <<formats, pc, catalogue, calls>>
  BY DEF Match, Replace, IInv
<1> HIDE DEF f, node, format, frame
<1>9. Open(f) BY <1>3, <1>6, DetectionAssumption DEF Open
<1>10. Push(f, Tail(stack[t])) \in Stacks BY <1>1, <1>6, <1>9, LookingFacts, StackReplaced
<1>11. Append(nodes[t], node) \in Reports BY <1>1, <1>7, LookingFacts, ReportLonger
<1> QED BY <1>1, <1>8, <1>10, <1>11, IInvUpdate DEF IInv

LEMMA IInvEnterChild ==
    ASSUME IInv, NEW t \in Threads, EnterChild(t)
    PROVE  IInv'
<1> DEFINE frame == Top(t)
           f == Frame(Head(frame.children), ChildStream(frame), frame.branch, Len(nodes[t]))
<1>1. Looking(t) /\ frame.children # <<>> /\ ~TooDeep(Depth(t) + 1) BY DEF EnterChild
<1>2. frame \in FrameSet /\ Open(frame) BY <1>1, LookingFacts
<1>3. Head(frame.children) \in ChildOf BY <1>1, <1>2, FrameNextChild
<1>4. ChildStream(frame) \in Seq(Formats) BY <1>1, <1>2, FrameFields DEF ChildStream, Open
<1>5. Len(nodes[t]) \in Nat BY <1>1, LookingFacts DEF Reports
<1>6. f \in FrameSet /\ Open(f)
  BY <1>1, <1>2, <1>3, <1>4, <1>5, LookingFacts, FrameFields, FrameOfChild
<1>7. Len(stack[t]) < MaxDepth
  BY <1>1, LookingFacts, DetectionAssumption DEF TooDeep, Depth
<1>8. Head(stack[t]).children # <<>> BY <1>1 DEF Top
<1>9. /\ stack' = [stack EXCEPT ![t] = Push(f, stack[t])]
      /\ nodes' = [nodes EXCEPT ![t] = nodes[t]]
      /\ UNCHANGED <<formats, pc, catalogue, calls>>
  BY DEF EnterChild, IInv
<1> HIDE DEF f, frame
<1>10. Push(f, stack[t]) \in Stacks BY <1>1, <1>6, <1>7, <1>8, LookingFacts, StackPushed
<1> QED BY <1>1, <1>9, <1>10, LookingFacts, IInvUpdate DEF IInv

LEMMA IInvPassChild ==
    ASSUME IInv, NEW t \in Threads, PassChild(t)
    PROVE  IInv'
<1> DEFINE frame == Top(t)
           f == [frame EXCEPT !.children = Tail(@)]
           node == DataNode(Head(frame.children), Depth(t) + 1)
<1>1. Looking(t) /\ frame.children # <<>> BY DEF PassChild
<1>2. frame \in FrameSet /\ Open(frame) BY <1>1, LookingFacts
<1>3. f \in FrameSet /\ Head(frame.children) \in ChildOf BY <1>1, <1>2, FrameNextChild
<1>4. f.format = frame.format BY <1>2 DEF FrameSet
<1>5. Depth(t) + 1 \in 0..MaxDepth BY <1>1, LookingFacts, DetectionAssumption
<1>6. node \in NodeSet /\ Reported(node) BY <1>3, <1>5, DataNodeType
<1>7. /\ stack' = [stack EXCEPT ![t] = Push(f, Tail(stack[t]))]
      /\ nodes' = [nodes EXCEPT ![t] = Append(nodes[t], node)]
      /\ UNCHANGED <<formats, pc, catalogue, calls>>
  BY DEF PassChild, Replace, IInv
<1> HIDE DEF f, node, frame
<1>8. Open(f) BY <1>1, <1>2, <1>4 DEF Open
<1>9. Push(f, Tail(stack[t])) \in Stacks BY <1>1, <1>3, <1>8, LookingFacts, StackReplaced
<1>10. Append(nodes[t], node) \in Reports BY <1>1, <1>6, LookingFacts, ReportLonger
<1> QED BY <1>1, <1>7, <1>9, <1>10, IInvUpdate DEF IInv

LEMMA IInvLeaveChild ==
    ASSUME IInv, NEW t \in Threads, LeaveChild(t)
    PROVE  IInv'
<1> DEFINE s == stack[t]
           parent == s[2]
           seen == Top(t).seen
           f == [parent EXCEPT !.children = Tail(@), !.branch = seen]
           child == Head(parent.children)
           n == Found(Top(t).before, nodes[t], child, Depth(t))
<1>1. Looking(t) /\ Depth(t) > 0 BY DEF LeaveChild
<1>2. s \in Stacks /\ Len(s) > 1 /\ Depth(t) \in 0..MaxDepth
  BY <1>1, LookingFacts, DetectionAssumption DEF Depth
<1>3. /\ Tail(s) \in Stacks /\ Tail(s) # <<>>
      /\ parent \in FrameSet /\ parent.children # <<>> /\ Open(parent)
  BY <1>2, StackPopped
<1>4. seen \in SUBSET (Seq(Formats) \X Nat \X Formats) BY <1>1, LookingFacts, FrameFields
<1>5. f \in FrameSet /\ child \in ChildOf
  <2> HIDE DEF s, seen, parent
  <2> QED BY <1>3, <1>4, FrameAfterChild, FrameNextChild
<1>6. Open(f)
  <2>1. f.format = parent.format BY <1>3 DEF FrameSet
  <2> QED BY <2>1, <1>3 DEF Open
<1>7. n \in Reports
  <2>1. nodes[t] \in Reports BY <1>1, LookingFacts
  <2>2. DataNode(child, Depth(t)) \in NodeSet /\ Reported(DataNode(child, Depth(t)))
    BY <1>2, <1>5, DataNodeType
  <2> HIDE DEF child
  <2> QED BY <2>1, <2>2, ReportLonger DEF Found
<1>8. /\ stack' = [stack EXCEPT ![t] = Push(f, Tail(Tail(s)))]
      /\ nodes' = [nodes EXCEPT ![t] = n]
      /\ UNCHANGED <<formats, pc, catalogue, calls>>
  BY DEF LeaveChild, IInv
<1> HIDE DEF f, n, s, parent, child
<1>9. Push(f, Tail(Tail(s))) \in Stacks BY <1>3, <1>5, <1>6, StackReplaced
<1> QED BY <1>1, <1>7, <1>8, <1>9, IInvUpdate DEF IInv

LEMMA IInvEnd ==
    ASSUME IInv, NEW t \in Threads, LeaveImage(t) \/ Panic(t) \/ Report(t)
    PROVE  IInv'
<1>1. <<>> \in Reports
  <2>1. <<>> \in Seq(NodeSet) /\ Len(<<>>) = 0 OBVIOUS
  <2> QED BY <2>1 DEF Reports
<1>2. <<>> \in Stacks BY EmptyStack
<1>3. stack' = stack \/ stack' = [stack EXCEPT ![t] = <<>>] BY DEF LeaveImage, Panic, Report
<1>4. nodes' = nodes \/ nodes' = [nodes EXCEPT ![t] = <<>>] BY DEF LeaveImage, Panic, Report
<1>5. stack' \in [Threads -> Stacks] BY <1>2, <1>3 DEF IInv
<1>6. nodes' \in [Threads -> Reports] BY <1>1, <1>4 DEF IInv
<1>7. pc' \in [Threads -> {"idle", "set", "detect", "report"}]
  BY DEF IInv, LeaveImage, Panic, Report
<1>8. UNCHANGED <<formats, catalogue, calls>> BY DEF LeaveImage, Panic, Report
<1>9. \A u \in Threads : stack'[u] # <<>> => formats' # None BY <1>3, <1>8 DEF IInv
<1> QED BY <1>5, <1>6, <1>7, <1>8, <1>9 DEF IInv
-----------------------------------------------------------------------------
(* What a call changes first. *)
LEMMA CallType ==
    ASSUME IInv, NEW t \in Threads, NEW next \in {"idle", "set", "detect"}, Call(t, next)
    PROVE  /\ calls' \in [Threads -> 0..MaxCalls]
           /\ pc' \in [Threads -> {"idle", "set", "detect", "report"}]
<1>1. calls[t] + 1 \in 0..MaxCalls BY DetectionAssumption DEF Call, IInv
<1> QED BY <1>1 DEF Call, IInv

(* The calls that come to nothing. *)
LEMMA IInvNothing ==
    ASSUME IInv, NEW t \in Threads, LoadNothing(t) \/ LoadFails(t) \/ DetectNothing(t)
    PROVE  IInv'
<1>1. Call(t, "idle") /\ UNCHANGED <<formats, catalogue, stack, nodes>>
  BY DEF LoadNothing, LoadFails, DetectNothing
<1> QED BY <1>1, CallType DEF IInv

LEMMA IInvLoadCatalogue ==
    ASSUME IInv, NEW t \in Threads, LoadCatalogue(t)
    PROVE  IInv'
<1>1. PICK c \in Catalogues : \E order \in Orders(c) : catalogue' = [catalogue EXCEPT ![t] = order]
  BY DEF LoadCatalogue
<1> PICK order \in Orders(c) : catalogue' = [catalogue EXCEPT ![t] = order]
  BY <1>1
<1>2. catalogue' \in [Threads -> Seq(Formats)] BY OrdersType DEF IInv
<1>3. Call(t, "set") /\ UNCHANGED <<formats, stack, nodes>> BY DEF LoadCatalogue
<1> QED BY <1>2, <1>3, CallType DEF IInv

LEMMA IInvSetCatalogue ==
    ASSUME IInv, NEW t \in Threads, SetCatalogue(t)
    PROVE  IInv'
<1>1. catalogue[t] \in Seq(Formats) BY DEF IInv
<1>2. formats' \in Seq(Formats) \cup {None} /\ formats' # None
  BY <1>1, DetectionAssumption DEF IInv, SetCatalogue, SetFormats
<1>3. catalogue' \in [Threads -> Seq(Formats)] BY DEF IInv, SetCatalogue
<1>4. pc' \in [Threads -> {"idle", "set", "detect", "report"}] BY DEF IInv, SetCatalogue
<1> QED BY <1>2, <1>3, <1>4 DEF IInv, SetCatalogue

LEMMA IInvDetect ==
    ASSUME IInv, NEW t \in Threads, Detect(t)
    PROVE  IInv'
<1>1. PICK image \in Images :
        stack' = [stack EXCEPT ![t] =
                     <<Frame([index |-> 0, offset |-> 0, image |-> image], <<>>, {}, 0)>>]
  BY DEF Detect
<1> DEFINE child == [index |-> 0, offset |-> 0, image |-> image]
           f == Frame(child, <<>>, {}, 0)
<1>2. formats \in Seq(Formats) BY DEF Detect, IInv
<1>3. child \in ChildOf BY DEF ChildOf
<1>4. <<>> \in Seq(Formats) /\ {} \in SUBSET (Seq(Formats) \X Nat \X Formats) OBVIOUS
<1> HIDE DEF child
<1>5. f \in FrameSet /\ Open(f) BY <1>2, <1>3, <1>4, FrameOfChild
<1>6. stack' = [stack EXCEPT ![t] = <<f>>] BY <1>1 DEF child
<1> HIDE DEF f
<1>7. stack' \in [Threads -> Stacks] BY <1>5, <1>6, StackOfOne DEF IInv
<1>8. Call(t, "detect") /\ formats # None /\ UNCHANGED <<formats, catalogue, nodes>> BY DEF Detect
<1> QED BY <1>7, <1>8, CallType DEF IInv
-----------------------------------------------------------------------------
LEMMA IInvInit == Init => IInv
<1> SUFFICES ASSUME Init PROVE IInv OBVIOUS
<1>1. <<>> \in Stacks BY EmptyStack
<1>2. <<>> \in Reports
  <2>1. <<>> \in Seq(NodeSet) /\ Len(<<>>) = 0 OBVIOUS
  <2> QED BY <2>1 DEF Reports
<1>3. 0 \in 0..MaxCalls /\ <<>> \in Seq(Formats) BY DetectionAssumption
<1> QED BY <1>1, <1>2, <1>3 DEF Init, IInv

LEMMA IInvNext == IInv /\ [Next]_vars => IInv'
<1> SUFFICES ASSUME IInv, [Next]_vars PROVE IInv' OBVIOUS
<1>1. CASE UNCHANGED vars BY <1>1 DEF vars, IInv
<1>2. ASSUME NEW t \in Threads, LoadNothing(t) \/ LoadFails(t) \/ DetectNothing(t) PROVE IInv'
  BY <1>2, IInvNothing
<1>3. ASSUME NEW t \in Threads, LoadCatalogue(t) PROVE IInv' BY <1>3, IInvLoadCatalogue
<1>4. ASSUME NEW t \in Threads, Detect(t) PROVE IInv' BY <1>4, IInvDetect
<1>5. ASSUME NEW t \in Threads, SetCatalogue(t) PROVE IInv' BY <1>5, IInvSetCatalogue
<1>6. ASSUME NEW t \in Threads, PassOver(t) PROVE IInv' BY <1>6, IInvPassOver
<1>7. ASSUME NEW t \in Threads, Match(t) PROVE IInv' BY <1>7, IInvMatch
<1>8. ASSUME NEW t \in Threads, EnterChild(t) PROVE IInv' BY <1>8, IInvEnterChild
<1>9. ASSUME NEW t \in Threads, PassChild(t) PROVE IInv' BY <1>9, IInvPassChild
<1>10. ASSUME NEW t \in Threads, LeaveChild(t) PROVE IInv' BY <1>10, IInvLeaveChild
<1>11. ASSUME NEW t \in Threads, LeaveImage(t) \/ Panic(t) \/ Report(t) PROVE IInv'
  BY <1>11, IInvEnd
<1> QED
  BY <1>1, <1>2, <1>3, <1>4, <1>5, <1>6, <1>7, <1>8, <1>9, <1>10, <1>11 DEF Next, Step

LEMMA IInvHolds == Spec => []IInv
BY IInvInit, IInvNext, PTL DEF Spec

LEMMA IInvImpliesTypeOK == IInv => TypeOK
<1> SUFFICES ASSUME IInv PROVE TypeOK OBVIOUS
<1>1. Stacks \subseteq Seq(FrameSet) BY DEF Stacks
<1>2. Reports \subseteq Seq(NodeSet) BY DEF Reports
<1>3. stack \in [Threads -> Seq(FrameSet)] BY <1>1 DEF IInv
<1>4. nodes \in [Threads -> Seq(NodeSet)] BY <1>2 DEF IInv
<1> QED BY <1>3, <1>4 DEF IInv, TypeOK

LEMMA IInvImpliesDepthIsBounded == IInv => DepthIsBounded
<1> SUFFICES ASSUME IInv, NEW t \in Threads
             PROVE  /\ Len(stack[t]) <= MaxDepth
                    /\ \A i \in DOMAIN nodes[t] :
                          nodes[t][i].depth <= MaxDepth
                          /\ (nodes[t][i].depth = MaxDepth => nodes[t][i].format = DataFormat)
  BY DEF DepthIsBounded
<1>1. stack[t] \in Stacks /\ nodes[t] \in Reports BY DEF IInv
<1>2. Len(stack[t]) <= MaxDepth BY <1>1 DEF Stacks
<1>3. nodes[t] \in Seq(NodeSet) /\ DOMAIN nodes[t] = 1..Len(nodes[t]) BY <1>1 DEF Reports
<1>4. \A i \in DOMAIN nodes[t] : nodes[t][i] \in NodeSet /\ Reported(nodes[t][i])
  BY <1>1, <1>3 DEF Reports
<1>5. \A i \in DOMAIN nodes[t] : nodes[t][i].depth \in 0..MaxDepth BY <1>4 DEF NodeSet
<1> QED BY <1>2, <1>4, <1>5, DetectionAssumption DEF Reported

(* The stacks, the reports and the catalogue of the threads hold what they are made *)
(* of, however the images are nested: the recursion of detect_tree_recursive.     *)
THEOREM DetectionTypes == Spec => []TypeOK
BY IInvHolds, IInvImpliesTypeOK, PTL

(* MAX_DEPTH bounds what detect_tree_recursive looks at for images of any content, *)
(* those that are in themselves included, and what it reports that deep is data.  *)
THEOREM DetectionDepth == Spec => []DepthIsBounded
BY IInvHolds, IInvImpliesDepthIsBounded, PTL

(* load sets the catalogue of the process once: of any number of threads that load *)
(* one at the same time the first decides, and no detection sees another.        *)
THEOREM DetectionCatalogue == Spec => CatalogueIsFinal
<1>1. [Next]_vars => [formats # None => formats' = formats]_vars
  BY DEF Next, Step, vars, LoadNothing, LoadCatalogue, LoadFails, DetectNothing, Detect, Panic,
         SetCatalogue, SetFormats, PassOver, Match, EnterChild, PassChild, LeaveChild, LeaveImage,
         Report
<1> QED BY <1>1, PTL DEF Spec, CatalogueIsFinal
-----------------------------------------------------------------------------
(***************************************************************************)
(* Why detect_tree goes in no circle.  What is handed to the children of a     *)
(* format was seen before, and it is itself in it (Traced); every image that   *)
(* is looked at knows all that the images around it hand on, and is looked at   *)
(* as nothing that one of them is (Apart).                                    *)
(***************************************************************************)
Traced(f) == f.format # None => f.seen \subseteq f.branch /\ Key(f, f.format) \in f.branch
Apart(f, outer) ==
    /\ outer.branch \subseteq f.seen
    /\ f.format # None => Key(f, f.format) # Key(outer, outer.format)
Traces(s) ==
    /\ \A i \in 1..Len(s) : Traced(s[i])
    /\ \A i, j \in 1..Len(s) : i < j => Apart(s[i], s[j])
TraceInv == \A t \in Threads : Traces(stack[t])

LEMMA TracesTail ==
    ASSUME NEW s \in Seq(FrameSet), s # <<>>, Traces(s)
    PROVE  /\ Tail(s) \in Seq(FrameSet) /\ Traces(Tail(s)) /\ Traced(Head(s))
           /\ \A j \in 1..Len(Tail(s)) : Apart(Head(s), Tail(s)[j])
<1> DEFINE p == Tail(s)
<1>1. p \in Seq(FrameSet) /\ Len(p) = Len(s) - 1 /\ Len(s) \in Nat /\ Len(s) >= 1 /\ Head(s) = s[1]
  OBVIOUS
<1>2. \A i \in 1..Len(p) : p[i] = s[i + 1] OBVIOUS
<1> HIDE DEF p
<1>3. \A i \in 1..Len(p) : i + 1 \in 1..Len(s) /\ 1 < i + 1 BY <1>1
<1>4. 1 \in 1..Len(s) BY <1>1
<1>5. \A i \in 1..Len(p) : Traced(p[i]) BY <1>2, <1>3 DEF Traces
<1>6. \A i, j \in 1..Len(p) : i < j => Apart(p[i], p[j])
  <2> SUFFICES ASSUME NEW i \in 1..Len(p), NEW j \in 1..Len(p), i < j PROVE Apart(p[i], p[j])
    OBVIOUS
  <2>1. i + 1 < j + 1 OBVIOUS
  <2> QED BY <1>2, <1>3, <2>1 DEF Traces
<1>7. Traced(s[1]) /\ \A j \in 1..Len(p) : Apart(s[1], p[j])
  BY <1>2, <1>3, <1>4 DEF Traces
<1>8. Traces(p) BY <1>5, <1>6 DEF Traces
<1> QED BY <1>1, <1>7, <1>8 DEF p

LEMMA TracesPushed ==
    ASSUME NEW s \in Seq(FrameSet), Traces(s), NEW f \in FrameSet, Traced(f),
           \A j \in 1..Len(s) : Apart(f, s[j])
    PROVE  Traces(Push(f, s))
<1> DEFINE p == <<f>> \o s
<1>1. p \in Seq(FrameSet) /\ Len(p) = Len(s) + 1 /\ Len(s) \in Nat /\ p[1] = f OBVIOUS
<1>2. \A j \in 1..Len(s) : p[j + 1] = s[j] OBVIOUS
<1> HIDE DEF p
<1>3. \A i \in 1..Len(p) : i = 1 \/ (i - 1 \in 1..Len(s) /\ p[i] = s[i - 1])
  <2> SUFFICES ASSUME NEW i \in 1..Len(p), i # 1 PROVE i - 1 \in 1..Len(s) /\ p[i] = s[i - 1]
    OBVIOUS
  <2>1. i - 1 \in 1..Len(s) /\ (i - 1) + 1 = i BY <1>1
  <2> QED BY <1>2, <2>1
<1>4. \A i \in 1..Len(p) : Traced(p[i]) BY <1>1, <1>3 DEF Traces
<1>5. \A i, j \in 1..Len(p) : i < j => Apart(p[i], p[j])
  <2> SUFFICES ASSUME NEW i \in 1..Len(p), NEW j \in 1..Len(p), i < j PROVE Apart(p[i], p[j])
    OBVIOUS
  <2>1. j # 1 /\ j - 1 \in 1..Len(s) /\ p[j] = s[j - 1] BY <1>3
  <2>2. CASE i = 1 BY <1>1, <2>1, <2>2
  <2>3. CASE i # 1
    <3>1. i - 1 \in 1..Len(s) /\ p[i] = s[i - 1] /\ i - 1 < j - 1 BY <1>3, <2>3
    <3> QED BY <2>1, <3>1 DEF Traces
  <2> QED BY <2>2, <2>3
<1> QED BY <1>4, <1>5 DEF Traces, Push, p

(* What the frames around the innermost one are, and what it is to them. *)
LEMMA LookingTraces ==
    ASSUME IInv, TraceInv, NEW t \in Threads, Looking(t)
    PROVE  /\ stack[t] \in Seq(FrameSet) /\ Tail(stack[t]) \in Seq(FrameSet)
           /\ Traces(stack[t]) /\ Traces(Tail(stack[t])) /\ Traced(Top(t))
           /\ \A j \in 1..Len(Tail(stack[t])) :
                 /\ Tail(stack[t])[j] \in FrameSet /\ Apart(Top(t), Tail(stack[t])[j])
                 /\ Key(Tail(stack[t])[j], Tail(stack[t])[j].format) \in Top(t).seen
<1> DEFINE s == stack[t]
           p == Tail(s)
<1>1. s \in Stacks /\ s # <<>> /\ s \in Seq(FrameSet) BY LookingFacts DEF Stacks
<1>2. Traces(s) BY DEF TraceInv
<1>3. /\ p \in Seq(FrameSet) /\ Traces(p) /\ Traced(Head(s))
      /\ \A j \in 1..Len(p) : Apart(Head(s), p[j])
  BY <1>1, <1>2, TracesTail
<1>4. \A j \in 1..Len(p) : p[j] \in FrameSet /\ p[j].format # None
  <2> SUFFICES ASSUME NEW j \in 1..Len(p) PROVE p[j] \in FrameSet /\ p[j].format # None OBVIOUS
  <2>1. p[j] \in FrameSet BY <1>3
  <2>2. p[j] = s[j + 1] /\ j + 1 \in 1..Len(s) /\ j + 1 > 1 BY <1>1
  <2>3. Open(s[j + 1]) /\ s[j + 1].children # <<>> BY <1>1, <2>2 DEF Stacks
  <2> QED BY <2>1, <2>2, <2>3 DEF Open
<1>5. \A j \in 1..Len(p) : Key(p[j], p[j].format) \in Head(s).seen
  BY <1>3, <1>4 DEF Traces, Traced, Apart
<1> QED BY <1>1, <1>2, <1>3, <1>4, <1>5 DEF Top

(* The innermost frame is replaced by one that has seen no less. *)
LEMMA TracesReplaced ==
    ASSUME IInv, TraceInv, NEW t \in Threads, Looking(t),
           NEW f \in FrameSet, Traced(f), Top(t).seen \subseteq f.seen,
           f.format # None =>
               \A j \in 1..Len(Tail(stack[t])) :
                   Key(f, f.format) # Key(Tail(stack[t])[j], Tail(stack[t])[j].format)
    PROVE  Traces(Push(f, Tail(stack[t])))
<1>1. \A j \in 1..Len(Tail(stack[t])) : Apart(f, Tail(stack[t])[j])
  BY LookingTraces DEF Apart
<1> QED BY <1>1, LookingTraces, TracesPushed

LEMMA TraceUpdate ==
    ASSUME IInv, TraceInv, NEW t \in Threads, NEW s, Traces(s), stack' = [stack EXCEPT ![t] = s]
    PROVE  TraceInv'
<1>1. \A u \in Threads : stack'[u] = IF u = t THEN s ELSE stack[u] BY DEF IInv
<1>2. \A u \in Threads : Traces(stack'[u]) BY <1>1 DEF TraceInv
<1> QED BY <1>2 DEF TraceInv

LEMMA TracePassOver ==
    ASSUME IInv, TraceInv, NEW t \in Threads, PassOver(t)
    PROVE  TraceInv'
<1> DEFINE f == [Top(t) EXCEPT !.todo = Tail(@)]
<1>1. Looking(t) /\ Top(t).todo # <<>> BY DEF PassOver, NextFormat
<1>2. Top(t) \in FrameSet BY <1>1, LookingFacts
<1>3. f \in FrameSet BY <1>1, <1>2, FrameNextFormat
<1>4. /\ f.format = Top(t).format /\ f.seen = Top(t).seen /\ f.branch = Top(t).branch
      /\ f.stream = Top(t).stream /\ f.offset = Top(t).offset
  BY <1>2 DEF FrameSet
<1>5. stack' = [stack EXCEPT ![t] = Push(f, Tail(stack[t]))] BY DEF PassOver, Replace, IInv
<1> HIDE DEF f
<1>6. Traced(f) BY <1>1, <1>4, LookingTraces DEF Traced, Key
<1>7. f.format # None => \A j \in 1..Len(Tail(stack[t])) :
          Key(f, f.format) # Key(Tail(stack[t])[j], Tail(stack[t])[j].format)
  BY <1>1, <1>4, LookingTraces DEF Apart, Key
<1>8. Traces(Push(f, Tail(stack[t]))) BY <1>1, <1>3, <1>4, <1>6, <1>7, TracesReplaced
<1> QED BY <1>5, <1>8, TraceUpdate

(* A format is looked at whose key is none of those around. *)
LEMMA TraceMatch ==
    ASSUME IInv, TraceInv, NEW t \in Threads, Match(t)
    PROVE  TraceInv'
<1> DEFINE frame == Top(t)
           format == Head(frame.todo)
           seen == frame.seen \cup {Key(frame, format)}
           todo == Tail(frame.todo)
           children == ChildrenOf(frame.image, format)
           f == [frame EXCEPT !.todo = todo, !.format = format, !.seen = seen,
                              !.branch = seen, !.children = children]
<1>1. Looking(t) /\ frame.todo # <<>> /\ Key(frame, format) \notin frame.seen
  BY DEF Match, NextFormat, Passes
<1>2. frame \in FrameSet BY <1>1, LookingFacts
<1>3. format \in Formats /\ todo \in Seq(Formats) BY <1>1, <1>2, FrameNextFormat
<1>4. seen \in SUBSET (Seq(Formats) \X Nat \X Formats) BY <1>2, <1>3, FrameFields, KeyType
<1>5. children \in Seq(ChildOf) BY <1>2, <1>3, FrameFields, ChildrenType
<1>6. stack' = [stack EXCEPT ![t] = Push(f, Tail(stack[t]))]
  BY DEF Match, Replace, Branch, IInv
<1>7. /\ f \in FrameSet /\ f.format = format /\ f.seen = seen /\ f.branch = seen
      /\ f.stream = frame.stream /\ f.offset = frame.offset
  <2> HIDE DEF frame, format, seen, todo, children
  <2> QED BY <1>2, <1>3, <1>4, <1>5 DEF FrameSet
<1> HIDE DEF f, frame, format, todo, children
<1>8. Key(f, f.format) = Key(frame, format) BY <1>7 DEF Key
<1>9. Traced(f) BY <1>7, <1>8 DEF Traced
<1>10. \A j \in 1..Len(Tail(stack[t])) :
          Key(f, f.format) # Key(Tail(stack[t])[j], Tail(stack[t])[j].format)
  BY <1>1, <1>8, LookingTraces DEF frame
<1>11. Top(t).seen \subseteq f.seen BY <1>7 DEF frame
<1>12. Traces(Push(f, Tail(stack[t]))) BY <1>1, <1>7, <1>9, <1>10, <1>11, TracesReplaced
<1> QED BY <1>6, <1>12, TraceUpdate

LEMMA TraceEnterChild ==
    ASSUME IInv, TraceInv, NEW t \in Threads, EnterChild(t)
    PROVE  TraceInv'
<1> DEFINE frame == Top(t)
           f == Frame(Head(frame.children), ChildStream(frame), frame.branch, Len(nodes[t]))
           s == stack[t]
<1>1. Looking(t) /\ frame.children # <<>> BY DEF EnterChild
<1>2. frame \in FrameSet /\ Open(frame) BY <1>1, LookingFacts
<1>3. Head(frame.children) \in ChildOf BY <1>1, <1>2, FrameNextChild
<1>4. ChildStream(frame) \in Seq(Formats) BY <1>1, <1>2, FrameFields DEF ChildStream, Open
<1>5. Len(nodes[t]) \in Nat BY <1>1, LookingFacts DEF Reports
<1>6. f \in FrameSet
  BY <1>1, <1>2, <1>3, <1>4, <1>5, LookingFacts, FrameFields, FrameOfChild
<1>7. f.format = None /\ f.seen = frame.branch BY DEF Frame
<1>8. stack' = [stack EXCEPT ![t] = Push(f, s)] BY DEF EnterChild, IInv
<1>9. frame.seen \subseteq frame.branch
  BY <1>1, <1>2, LookingTraces DEF Open, Traced
<1>10. s \in Seq(FrameSet) /\ s # <<>> /\ frame = s[1] /\ Traces(s)
  BY <1>1, LookingFacts, LookingTraces DEF Top
<1> HIDE DEF f, frame, s
<1>11. \A j \in 1..Len(s) : s[j].branch \subseteq frame.branch
  <2> SUFFICES ASSUME NEW j \in 1..Len(s) PROVE s[j].branch \subseteq frame.branch OBVIOUS
  <2>1. CASE j = 1 BY <1>10, <2>1
  <2>2. CASE j # 1
    <3>1. 1 \in 1..Len(s) /\ 1 < j BY <1>10, <2>2
    <3>2. s[j].branch \subseteq s[1].seen BY <1>10, <3>1 DEF Traces, Apart
    <3> QED BY <1>9, <1>10, <3>2
  <2> QED BY <2>1, <2>2
<1>12. Traced(f) /\ \A j \in 1..Len(s) : Apart(f, s[j]) BY <1>7, <1>11 DEF Traced, Apart
<1>13. Traces(Push(f, s)) BY <1>6, <1>10, <1>12, TracesPushed
<1> QED BY <1>8, <1>13, TraceUpdate

LEMMA TracePassChild ==
    ASSUME IInv, TraceInv, NEW t \in Threads, PassChild(t)
    PROVE  TraceInv'
<1> DEFINE f == [Top(t) EXCEPT !.children = Tail(@)]
<1>1. Looking(t) /\ Top(t).children # <<>> BY DEF PassChild
<1>2. Top(t) \in FrameSet BY <1>1, LookingFacts
<1>3. f \in FrameSet BY <1>1, <1>2, FrameNextChild
<1>4. /\ f.format = Top(t).format /\ f.seen = Top(t).seen /\ f.branch = Top(t).branch
      /\ f.stream = Top(t).stream /\ f.offset = Top(t).offset
  BY <1>2 DEF FrameSet
<1>5. stack' = [stack EXCEPT ![t] = Push(f, Tail(stack[t]))] BY DEF PassChild, Replace, IInv
<1> HIDE DEF f
<1>6. Traced(f) BY <1>1, <1>4, LookingTraces DEF Traced, Key
<1>7. f.format # None => \A j \in 1..Len(Tail(stack[t])) :
          Key(f, f.format) # Key(Tail(stack[t])[j], Tail(stack[t])[j].format)
  BY <1>1, <1>4, LookingTraces DEF Apart, Key
<1>8. Traces(Push(f, Tail(stack[t]))) BY <1>1, <1>3, <1>4, <1>6, <1>7, TracesReplaced
<1> QED BY <1>5, <1>8, TraceUpdate

(* What was seen in a child is handed on to the next, no less than before. *)
LEMMA TraceLeaveChild ==
    ASSUME IInv, TraceInv, NEW t \in Threads, LeaveChild(t)
    PROVE  TraceInv'
<1> DEFINE s == stack[t]
           p == Tail(s)
           parent == s[2]
           seen == Top(t).seen
           f == [parent EXCEPT !.children = Tail(@), !.branch = seen]
<1>1. Looking(t) /\ Depth(t) > 0 BY DEF LeaveChild
<1>2. s \in Stacks /\ Len(s) > 1 /\ Traces(s)
  BY <1>1, LookingFacts, LookingTraces, DetectionAssumption DEF Depth
<1>3. /\ p \in Stacks /\ p # <<>> /\ parent \in FrameSet /\ parent.children # <<>> /\ Open(parent)
  BY <1>2, StackPopped
<1>4. seen \in SUBSET (Seq(Formats) \X Nat \X Formats) BY <1>1, LookingFacts, FrameFields
<1>5. stack' = [stack EXCEPT ![t] = Push(f, Tail(p))] BY DEF LeaveChild, IInv
<1>6. p \in Seq(FrameSet) /\ Traces(p) /\ Head(p) = parent /\ parent = p[1] /\ 1 \in 1..Len(p)
  <2>1. s \in Seq(FrameSet) BY <1>2 DEF Stacks
  <2> QED BY <1>1, <1>2, <2>1, LookingTraces
<1>7. parent.branch \subseteq seen BY <1>1, <1>6, LookingTraces DEF Apart
<1> HIDE DEF s, p, parent, seen
<1>8. /\ f \in FrameSet /\ f.format = parent.format /\ f.seen = parent.seen /\ f.branch = seen
      /\ f.stream = parent.stream /\ f.offset = parent.offset
  <2>1. f \in FrameSet BY <1>3, <1>4, FrameAfterChild
  <2> QED BY <1>3, <2>1 DEF FrameSet
<1> HIDE DEF f
<1>9. /\ Tail(p) \in Seq(FrameSet) /\ Traces(Tail(p)) /\ Traced(parent)
      /\ \A j \in 1..Len(Tail(p)) : Apart(parent, Tail(p)[j])
  BY <1>3, <1>6, TracesTail
<1>10. Traced(f) BY <1>7, <1>8, <1>9 DEF Traced, Key
<1>11. \A j \in 1..Len(Tail(p)) : Apart(f, Tail(p)[j]) BY <1>8, <1>9 DEF Apart, Key
<1>12. Traces(Push(f, Tail(p))) BY <1>8, <1>9, <1>10, <1>11, TracesPushed
<1> QED BY <1>5, <1>12, TraceUpdate

LEMMA TraceInvNext == IInv /\ TraceInv /\ [Next]_vars => TraceInv'
<1> SUFFICES ASSUME IInv, TraceInv, [Next]_vars PROVE TraceInv' OBVIOUS
<1>1. Traces(<<>>) BY DEF Traces
<1>2. CASE UNCHANGED stack BY <1>2 DEF TraceInv
<1>3. ASSUME NEW t \in Threads, Detect(t) PROVE TraceInv'
  <2>1. PICK image \in Images :
          stack' = [stack EXCEPT ![t] =
                       <<Frame([index |-> 0, offset |-> 0, image |-> image], <<>>, {}, 0)>>]
    BY <1>3 DEF Detect
  <2> DEFINE f == Frame([index |-> 0, offset |-> 0, image |-> image], <<>>, {}, 0)
  <2>2. f.format = None BY DEF Frame
  <2> HIDE DEF f
  <2>3. Len(<<f>>) = 1 /\ <<f>>[1] = f OBVIOUS
  <2>4. Traces(<<f>>) BY <2>2, <2>3 DEF Traces, Traced
  <2> QED BY <2>1, <2>4, TraceUpdate DEF f
<1>4. ASSUME NEW t \in Threads, LeaveImage(t) \/ Panic(t) PROVE TraceInv'
  BY <1>1, <1>4, TraceUpdate DEF LeaveImage, Panic
<1>5. ASSUME NEW t \in Threads,
             LoadNothing(t) \/ LoadCatalogue(t) \/ LoadFails(t) \/ DetectNothing(t)
                \/ SetCatalogue(t) \/ Report(t)
      PROVE  UNCHANGED stack
  BY <1>5 DEF LoadNothing, LoadCatalogue, LoadFails, DetectNothing, SetCatalogue, Report
<1> QED
  BY <1>2, <1>3, <1>4, <1>5, TracePassOver, TraceMatch, TraceEnterChild, TracePassChild,
     TraceLeaveChild DEF Next, Step, vars

LEMMA TraceInvHolds == Spec => []TraceInv
<1>1. Init => TraceInv
  <2> SUFFICES ASSUME Init PROVE TraceInv OBVIOUS
  <2>1. \A t \in Threads : Len(stack[t]) = 0 BY DEF Init
  <2> QED BY <2>1 DEF TraceInv, Traces
<1> QED BY <1>1, TraceInvNext, IInvHolds, PTL DEF Spec

(* No image is looked at as a format as which the same bytes are looked at around   *)
(* it: what detect_tree_recursive hands from an image to its children and from one *)
(* child to the next never forgets one, however the images contain each other.   *)
THEOREM DetectionNoCircle == Spec => []NoCircle
<1>1. IInv /\ TraceInv => NoCircle
  <2> SUFFICES ASSUME IInv, TraceInv, NEW t \in Threads, NEW i \in DOMAIN stack[t],
                      NEW j \in DOMAIN stack[t], i < j, stack[t][i].format # None
               PROVE  Key(stack[t][i], stack[t][i].format) # Key(stack[t][j], stack[t][j].format)
    BY DEF NoCircle
  <2>1. stack[t] \in Seq(FrameSet) BY DEF IInv, Stacks
  <2>2. i \in 1..Len(stack[t]) /\ j \in 1..Len(stack[t]) BY <2>1
  <2> QED BY <2>2 DEF TraceInv, Traces, Apart
<1> QED BY <1>1, IInvHolds, TraceInvHolds, PTL
-----------------------------------------------------------------------------
(***************************************************************************)
(* Why the report has every child.  A child is known by its number and image;  *)
(* a node is complete when those below it are the children of its container.    *)
(* While the children of a frame are looked at, there is a node for it, the      *)
(* last that deep (Tip): those told below it and those that are left are all    *)
(* children, and the one that is looked at is told as soon as anything is        *)
(* found in it.  All other nodes are complete (Tree).                          *)
(***************************************************************************)
Pair(x) == <<x.index, x.image>>
Pairs(c) == {Pair(c[j]) : j \in DOMAIN c}
Kids(node) == IF node.format = DataFormat THEN <<>> ELSE ChildrenOf(node.image, node.format)
Told(n, i) == {Pair(n[j]) : j \in Below(n, i)}
Complete(n, i) == Told(n, i) = Pairs(Kids(n[i]))
IsLast(n, i) == \A j \in (i + 1)..Len(n) : n[j].depth > n[i].depth

Tip(s, n, k, i) ==
    /\ n[i].depth = Len(s) - k /\ IsLast(n, i) /\ s[k].before < i
    /\ Told(n, i) \subseteq Pairs(Kids(n[i]))
    /\ Pairs(s[k].children) \subseteq Pairs(Kids(n[i]))
    /\ Pairs(Kids(n[i])) \subseteq Told(n, i) \cup Pairs(s[k].children)
    /\ k > 1 /\ s[k - 1].before < Len(n) => Pair(Head(s[k].children)) \in Told(n, i)

Tree(s, n) ==
    /\ \A i \in 1..Len(n) :
          Complete(n, i) \/ \E k \in 1..Len(s) : s[k].children # <<>> /\ Tip(s, n, k, i)
    /\ \A k \in 1..Len(s) : s[k].children # <<>> => \E i \in 1..Len(n) : Tip(s, n, k, i)
    /\ \A k \in 1..Len(s) : s[k].before <= Len(n)
    /\ \A k \in 1..Len(s) : k > 1 => Pair(s[k - 1]) = Pair(Head(s[k].children))

TreeOf(s, n, c) ==
    /\ s # <<>> => c = "detect" /\ Tree(s, n)
    /\ c = "detect" => s # <<>>
    /\ c = "report" => \A i \in 1..Len(n) : Complete(n, i)
    /\ c \in {"idle", "set"} => n = <<>>
TreeInv == \A t \in Threads : TreeOf(stack[t], nodes[t], pc[t])

LEMMA NodeFields ==
    ASSUME NEW n \in Seq(NodeSet), NEW i \in 1..Len(n)
    PROVE  n[i] \in NodeSet /\ n[i].depth \in Nat
<1>1. n[i] \in NodeSet OBVIOUS
<1> QED BY <1>1, DetectionAssumption DEF NodeSet

LEMMA PairsOfNone == Pairs(<<>>) = {}
BY DEF Pairs

LEMMA PairsTail ==
    ASSUME NEW c \in Seq(ChildOf), c # <<>>
    PROVE  Pairs(c) = {Pair(Head(c))} \cup Pairs(Tail(c))
<1> DEFINE r == Tail(c)
<1>1. r \in Seq(ChildOf) /\ Len(r) = Len(c) - 1 /\ Len(c) \in Nat /\ Len(c) >= 1 /\ Head(c) = c[1]
  OBVIOUS
<1>2. DOMAIN c = 1..Len(c) /\ DOMAIN r = 1..Len(r) BY <1>1
<1>3. \A j \in 1..Len(r) : r[j] = c[j + 1] OBVIOUS
<1> HIDE DEF r
<1>4. ASSUME NEW j \in 1..Len(c) PROVE Pair(c[j]) \in {Pair(c[1])} \cup Pairs(r)
  <2>1. CASE j = 1 BY <2>1
  <2>2. CASE j # 1
    <3>1. j - 1 \in 1..Len(r) /\ (j - 1) + 1 = j BY <2>2, <1>1
    <3>2. r[j - 1] = c[j] BY <3>1, <1>3
    <3> QED BY <3>1, <3>2, <1>2 DEF Pairs
  <2> QED BY <2>1, <2>2
<1>5. ASSUME NEW j \in 1..Len(r) PROVE Pair(r[j]) \in Pairs(c)
  <2>1. j + 1 \in 1..Len(c) BY <1>1
  <2> QED BY <2>1, <1>2, <1>3 DEF Pairs
<1>6. Pair(c[1]) \in Pairs(c)
  <2>1. 1 \in 1..Len(c) BY <1>1
  <2> QED BY <2>1, <1>2 DEF Pairs
<1>7. Pairs(c) \subseteq {Pair(c[1])} \cup Pairs(r) BY <1>2, <1>4 DEF Pairs
<1>8. Pairs(r) \subseteq Pairs(c) BY <1>2, <1>5 DEF Pairs
<1> QED BY <1>1, <1>6, <1>7, <1>8 DEF r

(* A node that is reported is told below the last of the nodes one level above. *)
LEMMA ToldLonger ==
    ASSUME NEW n \in Seq(NodeSet), NEW x \in NodeSet, NEW i \in 1..Len(n)
    PROVE  /\ Append(n, x)[i] = n[i]
           /\ IsLast(Append(n, x), i) <=> IsLast(n, i) /\ x.depth > n[i].depth
           /\ Told(n, i) \subseteq Told(Append(n, x), i)
           /\ IsLast(n, i) /\ x.depth = n[i].depth + 1
                 => Told(Append(n, x), i) = Told(n, i) \cup {Pair(x)}
           /\ ~(IsLast(n, i) /\ x.depth = n[i].depth + 1)
                 => Told(Append(n, x), i) = Told(n, i)
<1> DEFINE m == Append(n, x)
           l == Len(n) + 1
<1>1. m \in Seq(NodeSet) /\ Len(m) = l /\ m[l] = x /\ Len(n) \in Nat OBVIOUS
<1>2. \A j \in 1..Len(n) : m[j] = n[j] OBVIOUS
<1>3. n[i].depth \in Nat /\ x.depth \in Nat
  <2>1. x.depth \in Nat BY DetectionAssumption DEF NodeSet
  <2> QED BY <2>1, NodeFields
<1>4. \A j \in (i + 1)..l : j \in (i + 1)..Len(n) \/ j = l BY <1>1
<1>5. \A j \in (i + 1)..Len(n) : j \in 1..Len(n) /\ j \in (i + 1)..l /\ j # l BY <1>1
<1>6. l \in (i + 1)..l BY <1>1
<1>7. \A j \in (i + 1)..Len(n) : (i + 1)..j \subseteq (i + 1)..Len(n) BY <1>1
<1> HIDE DEF m, l
<1>8. IsLast(m, i) <=> IsLast(n, i) /\ x.depth > n[i].depth
  <2>1. IsLast(m, i) <=> \A j \in (i + 1)..l : m[j].depth > n[i].depth BY <1>1, <1>2 DEF IsLast
  <2>2. IsLast(n, i) <=> \A j \in (i + 1)..Len(n) : m[j].depth > n[i].depth BY <1>2, <1>5 DEF IsLast
  <2> QED BY <2>1, <2>2, <1>1, <1>4, <1>5, <1>6
<1>9. \A j \in (i + 1)..Len(n) : j \in Below(m, i) <=> j \in Below(n, i)
  <2> SUFFICES ASSUME NEW j \in (i + 1)..Len(n) PROVE j \in Below(m, i) <=> j \in Below(n, i)
    OBVIOUS
  <2>1. m[j] = n[j] /\ m[i] = n[i] BY <1>2, <1>5
  <2>2. \A k \in (i + 1)..j : m[k] = n[k] BY <1>2, <1>5, <1>7
  <2>3. j \in (i + 1)..Len(m) BY <1>1, <1>5
  <2> QED BY <2>1, <2>2, <2>3 DEF Below
<1>10. l \in Below(m, i) <=> IsLast(n, i) /\ x.depth = n[i].depth + 1
  <2>1. l \in Below(m, i) <=> x.depth = n[i].depth + 1 /\ IsLast(m, i)
    BY <1>1, <1>2, <1>6 DEF Below, IsLast
  <2>2. x.depth = n[i].depth + 1 => x.depth > n[i].depth BY <1>3
  <2> QED BY <2>1, <2>2, <1>8
<1>11. Below(m, i) \subseteq (i + 1)..l /\ Below(n, i) \subseteq (i + 1)..Len(n)
  BY <1>1 DEF Below
<1>12. \A j \in Below(n, i) : m[j] = n[j] /\ j \in Below(m, i) BY <1>2, <1>5, <1>9, <1>11
<1>13. \A j \in Below(m, i) : (j \in Below(n, i) /\ m[j] = n[j]) \/ (j = l /\ l \in Below(m, i))
  BY <1>2, <1>4, <1>5, <1>9, <1>11
<1>14. Told(n, i) \subseteq Told(m, i) BY <1>12 DEF Told
<1>15. CASE IsLast(n, i) /\ x.depth = n[i].depth + 1
  <2>1. Pair(x) \in Told(m, i) BY <1>1, <1>10, <1>15 DEF Told
  <2>2. Told(m, i) \subseteq Told(n, i) \cup {Pair(x)} BY <1>1, <1>13 DEF Told
  <2>3. Told(m, i) = Told(n, i) \cup {Pair(x)} BY <2>1, <2>2, <1>14
  <2> QED BY <2>3, <1>2, <1>8, <1>15 DEF m
<1>16. CASE ~(IsLast(n, i) /\ x.depth = n[i].depth + 1)
  <2>1. l \notin Below(m, i) BY <1>10, <1>16
  <2>2. Told(m, i) \subseteq Told(n, i) BY <2>1, <1>13 DEF Told
  <2>3. Told(m, i) = Told(n, i) BY <2>2, <1>14
  <2> QED BY <2>3, <1>2, <1>8, <1>16 DEF m
<1> QED BY <1>15, <1>16

(* Nothing is below what was reported last. *)
LEMMA ToldOfLast ==
    ASSUME NEW n \in Seq(NodeSet), NEW x \in NodeSet
    PROVE  /\ Append(n, x) \in Seq(NodeSet) /\ Len(Append(n, x)) = Len(n) + 1
           /\ Append(n, x)[Len(n) + 1] = x
           /\ IsLast(Append(n, x), Len(n) + 1) /\ Told(Append(n, x), Len(n) + 1) = {}
<1> DEFINE m == Append(n, x)
           l == Len(n) + 1
<1>1. m \in Seq(NodeSet) /\ Len(m) = l /\ m[l] = x OBVIOUS
<1>2. (l + 1)..l = {} OBVIOUS
<1> HIDE DEF m, l
<1>3. IsLast(m, l) /\ Told(m, l) = {} BY <1>1, <1>2 DEF IsLast, Told, Below
<1> QED BY <1>1, <1>3 DEF m, l

(* There is one last node of a depth. *)
LEMMA LastIsOne ==
    ASSUME NEW n \in Seq(NodeSet), NEW i \in 1..Len(n), NEW j \in 1..Len(n),
           IsLast(n, i), IsLast(n, j), n[i].depth = n[j].depth
    PROVE  i = j
<1>1. n[i].depth \in Nat /\ n[j].depth \in Nat BY NodeFields
<1>2. ~(i < j)
  <2> SUFFICES ASSUME i < j PROVE FALSE OBVIOUS
  <2>1. j \in (i + 1)..Len(n) OBVIOUS
  <2> QED BY <1>1, <2>1 DEF IsLast
<1>3. ~(j < i)
  <2> SUFFICES ASSUME j < i PROVE FALSE OBVIOUS
  <2>1. i \in (j + 1)..Len(n) OBVIOUS
  <2> QED BY <1>1, <2>1 DEF IsLast
<1> QED BY <1>2, <1>3

LEMMA ReplacedTop ==
    ASSUME NEW s \in Seq(FrameSet), s # <<>>, NEW f \in FrameSet
    PROVE  /\ Push(f, Tail(s)) \in Seq(FrameSet) /\ Len(Push(f, Tail(s))) = Len(s)
           /\ Push(f, Tail(s))[1] = f /\ Len(s) \in Nat /\ Len(s) >= 1
           /\ \A k \in 2..Len(s) : Push(f, Tail(s))[k] = s[k]
BY DEF Push

LEMMA PushedTop ==
    ASSUME NEW s \in Seq(FrameSet), NEW f \in FrameSet
    PROVE  /\ Push(f, s) \in Seq(FrameSet) /\ Len(Push(f, s)) = Len(s) + 1
           /\ Push(f, s)[1] = f /\ Len(s) \in Nat
           /\ \A k \in 1..Len(s) : Push(f, s)[k + 1] = s[k]
BY DEF Push

(* A frame that is replaced by one with the same children is the same to the tree. *)
LEMMA TreeSame ==
    ASSUME NEW s \in Seq(FrameSet), NEW p \in Seq(FrameSet), NEW n \in Seq(NodeSet),
           Tree(s, n), Len(p) = Len(s),
           \A k \in 1..Len(s) : /\ p[k].before = s[k].before /\ p[k].children = s[k].children
                                /\ Pair(p[k]) = Pair(s[k])
    PROVE  Tree(p, n)
<1>1. \A k \in 1..Len(s) : k > 1 => k - 1 \in 1..Len(s) OBVIOUS
<1>2. \A k \in 1..Len(s) : \A i \in 1..Len(n) : Tip(s, n, k, i) => Tip(p, n, k, i)
  BY <1>1 DEF Tip
<1>3. \A i \in 1..Len(n) : Complete(n, i)
          \/ \E k \in 1..Len(p) : p[k].children # <<>> /\ Tip(p, n, k, i)
  BY <1>2 DEF Tree
<1>4. \A k \in 1..Len(p) : p[k].children # <<>> => \E i \in 1..Len(n) : Tip(p, n, k, i)
  BY <1>2 DEF Tree
<1>5. \A k \in 1..Len(p) : p[k].before <= Len(n) BY DEF Tree
<1>6. \A k \in 1..Len(p) : k > 1 => Pair(p[k - 1]) = Pair(Head(p[k].children))
  BY <1>1 DEF Tree
<1> QED BY <1>3, <1>4, <1>5, <1>6 DEF Tree

(* What is reported below a tip is less than all that is reported. *)
LEMMA TipAfter ==
    ASSUME NEW s \in Seq(FrameSet), NEW n \in Seq(NodeSet), Tree(s, n),
           NEW k \in 1..Len(s), s[k].children # <<>>, s[k].before \in Nat
    PROVE  s[k].before < Len(n)
<1>1. PICK j \in 1..Len(n) : s[k].before < j BY DEF Tree, Tip
<1> QED BY <1>1

(* A node for the image that is looked at: it has all its children still before it,  *)
(* and is told itself below the node of the container.                         *)
LEMMA TreeMatched ==
    ASSUME NEW s \in Stacks, s # <<>>, NEW n \in Seq(NodeSet), Tree(s, n),
           s[1].children = <<>>,
           NEW x \in NodeSet, x.depth = Len(s) - 1, Pair(x) = Pair(s[1]),
           NEW f \in FrameSet, f.before = s[1].before, Pair(f) = Pair(s[1]),
           f.children = Kids(x)
    PROVE  Tree(Push(f, Tail(s)), Append(n, x))
<1> DEFINE p == Push(f, Tail(s))
           m == Append(n, x)
           l == Len(n) + 1
<1>1. s \in Seq(FrameSet) BY DEF Stacks
<1>2. /\ p \in Seq(FrameSet) /\ Len(p) = Len(s) /\ p[1] = f /\ Len(s) \in Nat /\ Len(s) >= 1
      /\ \A k \in 2..Len(s) : p[k] = s[k]
  BY <1>1, ReplacedTop
<1>3. m \in Seq(NodeSet) /\ Len(m) = l /\ m[l] = x /\ IsLast(m, l) /\ Told(m, l) = {}
  BY ToldOfLast
<1>4. \A i \in 1..Len(n) :
          /\ m[i] = n[i] /\ (IsLast(m, i) <=> IsLast(n, i) /\ x.depth > n[i].depth)
          /\ Told(n, i) \subseteq Told(m, i)
          /\ IsLast(n, i) /\ x.depth = n[i].depth + 1 => Told(m, i) = Told(n, i) \cup {Pair(x)}
          /\ ~(IsLast(n, i) /\ x.depth = n[i].depth + 1) => Told(m, i) = Told(n, i)
  BY ToldLonger
<1>5. \A k \in 2..Len(s) : k \in 1..Len(s) /\ s[k].children # <<>>
  BY <1>2 DEF Stacks
<1>6. \A k \in 1..Len(s) : s[k] \in FrameSet /\ s[k].before \in Nat /\ s[k].children \in Seq(ChildOf)
  <2>1. \A k \in 1..Len(s) : s[k] \in FrameSet BY <1>1
  <2> QED BY <2>1 DEF FrameSet
<1>7. Len(n) \in Nat /\ \A i \in 1..Len(n) : i \in 1..l /\ i # l OBVIOUS
<1>8. \A i \in 1..Len(n) : n[i].depth \in Nat BY NodeFields
<1> HIDE DEF p, m, l
<1>9. ASSUME NEW k \in 2..Len(s), NEW i \in 1..Len(n), Tip(s, n, k, i) PROVE Tip(p, m, k, i)
  <2>1. m[i] = n[i] /\ n[i].depth = Len(s) - k /\ IsLast(n, i) /\ s[k].before < i
    BY <1>4, <1>9 DEF Tip
  <2>2. IsLast(m, i) BY <2>1, <1>2, <1>4
  <2>3. Pairs(s[k].children) \subseteq Pairs(Kids(n[i])) BY <1>9 DEF Tip
  <2>4. s[k].children # <<>> /\ s[k].children \in Seq(ChildOf) BY <1>5, <1>6
  <2>5. Pair(Head(s[k].children)) \in Pairs(s[k].children) BY <2>4, PairsTail
  <2>6. k = 2 => Pair(x) = Pair(Head(s[k].children))
    <3>1. k = 2 => Pair(s[1]) = Pair(Head(s[k].children)) BY <1>5 DEF Tree
    <3> QED BY <3>1
  <2>7. x.depth = n[i].depth + 1 <=> k = 2 BY <2>1, <1>2
  <2>8. Told(m, i) \subseteq Pairs(Kids(n[i]))
    BY <2>1, <2>3, <2>5, <2>6, <2>7, <1>4, <1>9 DEF Tip
  <2>9. Pairs(Kids(n[i])) \subseteq Told(m, i) \cup Pairs(s[k].children) BY <1>4, <1>9 DEF Tip
  <2>10. Pair(Head(s[k].children)) \in Told(m, i)
    <3>1. CASE k = 2 BY <3>1, <2>1, <2>6, <2>7, <1>4
    <3>2. CASE k # 2
      <4>1. k - 1 \in 2..Len(s) /\ k - 1 \in 1..Len(s) /\ k > 1 BY <3>2, <1>2
      <4>2. s[k - 1].before < Len(n) BY <4>1, <1>1, <1>5, <1>6, TipAfter
      <4>3. Pair(Head(s[k].children)) \in Told(n, i) BY <4>1, <4>2, <1>9 DEF Tip
      <4> QED BY <4>3, <1>4
    <3> QED BY <3>1, <3>2
  <2>11. p[k] = s[k] BY <1>2
  <2> QED BY <2>1, <2>2, <2>3, <2>8, <2>9, <2>10, <2>11, <1>2 DEF Tip
<1>10. ASSUME f.children # <<>> PROVE Tip(p, m, 1, l)
  <2>1. f.before < l
    <3>1. 1 \in 1..Len(s) BY <1>2
    <3>2. s[1].before \in Nat /\ s[1].before <= Len(n) BY <3>1, <1>6 DEF Tree
    <3> QED BY <3>2 DEF l
  <2>2. Told(m, l) = {} /\ Kids(m[l]) = f.children BY <1>3
  <2> QED BY <2>1, <2>2, <1>2, <1>3 DEF Tip
<1>11. \A i \in 1..l : Complete(m, i)
          \/ \E k \in 1..Len(p) : p[k].children # <<>> /\ Tip(p, m, k, i)
  <2> SUFFICES ASSUME NEW i \in 1..l
               PROVE  Complete(m, i)
                        \/ \E k \in 1..Len(p) : p[k].children # <<>> /\ Tip(p, m, k, i)
    OBVIOUS
  <2>1. CASE i = l
    <3>1. 1 \in 1..Len(p) BY <1>2
    <3>2. f.children # <<>> => p[1].children # <<>> /\ Tip(p, m, 1, i) BY <2>1, <1>2, <1>10
    <3>3. f.children = <<>> => Complete(m, i) BY <2>1, <1>3, PairsOfNone DEF Complete
    <3> QED BY <3>1, <3>2, <3>3
  <2>2. CASE i # l
    <3>1. i \in 1..Len(n) BY <2>2, <1>7 DEF l
    <3>2. ASSUME NEW k \in 2..Len(s), Tip(s, n, k, i)
          PROVE  \E j \in 1..Len(p) : p[j].children # <<>> /\ Tip(p, m, j, i)
      BY <3>1, <3>2, <1>2, <1>5, <1>9
    <3>3. CASE \E k \in 1..Len(s) : s[k].children # <<>> /\ Tip(s, n, k, i)
      <4>1. PICK k \in 1..Len(s) : s[k].children # <<>> /\ Tip(s, n, k, i) BY <3>3
      <4>2. k \in 2..Len(s) BY <4>1, <1>2
      <4> QED BY <4>1, <4>2, <3>2
    <3>4. CASE Complete(n, i)
      <4>1. CASE IsLast(n, i) /\ x.depth = n[i].depth + 1
        <5>1. n[i].depth = Len(s) - 2 /\ 2 \in 2..Len(s) BY <4>1, <3>1, <1>2, <1>8
        <5>2. PICK j \in 1..Len(n) : Tip(s, n, 2, j) BY <5>1, <1>5 DEF Tree
        <5>3. i = j BY <5>1, <5>2, <4>1, <3>1, LastIsOne DEF Tip
        <5> QED BY <5>1, <5>2, <5>3, <3>2
      <4>2. CASE ~(IsLast(n, i) /\ x.depth = n[i].depth + 1)
        BY <4>2, <3>1, <3>4, <1>4 DEF Complete
      <4> QED BY <4>1, <4>2
    <3> QED BY <3>1, <3>3, <3>4 DEF Tree
  <2> QED BY <2>1, <2>2
<1>12. \A k \in 1..Len(p) : p[k].children # <<>> => \E i \in 1..l : Tip(p, m, k, i)
  <2> SUFFICES ASSUME NEW k \in 1..Len(p), p[k].children # <<>>
               PROVE  \E i \in 1..l : Tip(p, m, k, i)
    OBVIOUS
  <2>1. CASE k = 1
    <3>1. l \in 1..l BY <1>7 DEF l
    <3> QED BY <3>1, <2>1, <1>2, <1>10
  <2>2. CASE k # 1
    <3>1. k \in 2..Len(s) BY <2>2, <1>2
    <3>2. PICK i \in 1..Len(n) : Tip(s, n, k, i) BY <3>1, <1>5 DEF Tree
    <3> QED BY <3>1, <3>2, <1>7, <1>9
  <2> QED BY <2>1, <2>2
<1>13. \A k \in 1..Len(p) : p[k].before <= l
  <2> SUFFICES ASSUME NEW k \in 1..Len(p) PROVE p[k].before <= l OBVIOUS
  <2>1. k \in 1..Len(s) /\ s[k].before \in Nat /\ s[k].before <= Len(n) BY <1>2, <1>6 DEF Tree
  <2>2. p[k].before = s[k].before
    <3>1. k = 1 \/ k \in 2..Len(s) BY <2>1, <1>2
    <3> QED BY <3>1, <1>2
  <2> QED BY <2>1, <2>2, <1>7 DEF l
<1>14. \A k \in 1..Len(p) : k > 1 => Pair(p[k - 1]) = Pair(Head(p[k].children))
  <2> SUFFICES ASSUME NEW k \in 1..Len(p), k > 1
               PROVE  Pair(p[k - 1]) = Pair(Head(p[k].children))
    OBVIOUS
  <2>1. k \in 1..Len(s) /\ k \in 2..Len(s) BY <1>2
  <2>2. p[k] = s[k] /\ Pair(s[k - 1]) = Pair(Head(s[k].children)) BY <2>1, <1>2 DEF Tree
  <2>3. Pair(p[k - 1]) = Pair(s[k - 1])
    <3>1. k - 1 = 1 \/ k - 1 \in 2..Len(s) BY <2>1
    <3> QED BY <3>1, <1>2
  <2> QED BY <2>2, <2>3
<1>15. Tree(p, m) BY <1>3, <1>11, <1>12, <1>13, <1>14 DEF Tree
<1> QED BY <1>15 DEF p, m

(* A child is looked at: as long as nothing is reported of it nothing is told of it. *)
LEMMA TreeEntered ==
    ASSUME NEW s \in Seq(FrameSet), s # <<>>, NEW n \in Seq(NodeSet), Tree(s, n),
           NEW f \in FrameSet, f.before = Len(n), f.children = <<>>,
           Pair(f) = Pair(Head(s[1].children))
    PROVE  Tree(Push(f, s), n)
<1> DEFINE p == Push(f, s)
<1>1. /\ p \in Seq(FrameSet) /\ Len(p) = Len(s) + 1 /\ p[1] = f /\ Len(s) \in Nat
      /\ \A k \in 1..Len(s) : p[k + 1] = s[k]
  BY PushedTop
<1>2. \A k \in 1..Len(s) : k + 1 \in 1..Len(p) /\ k + 1 > 1 /\ (k + 1) - 1 = k
                           /\ Len(p) - (k + 1) = Len(s) - k
  BY <1>1
<1>3. \A k \in 1..Len(s) : k > 1 => k - 1 \in 1..Len(s) /\ p[k] = s[k - 1]
  <2> SUFFICES ASSUME NEW k \in 1..Len(s), k > 1 PROVE k - 1 \in 1..Len(s) /\ p[k] = s[k - 1]
    OBVIOUS
  <2>1. k - 1 \in 1..Len(s) /\ (k - 1) + 1 = k BY <1>1
  <2>2. p[(k - 1) + 1] = s[k - 1] BY <2>1, <1>1
  <2> QED BY <2>1, <2>2
<1>4. Len(n) \in Nat OBVIOUS
<1> HIDE DEF p
<1>5. ASSUME NEW k \in 1..Len(s), NEW i \in 1..Len(n), Tip(s, n, k, i) PROVE Tip(p, n, k + 1, i)
  <2>1. p[k].before < Len(n) => Pair(Head(s[k].children)) \in Told(n, i)
    <3>1. CASE k = 1 BY <3>1, <1>1, <1>4
    <3>2. CASE k # 1
      <4>1. k > 1 BY <3>2
      <4> QED BY <4>1, <1>3, <1>5 DEF Tip
    <3> QED BY <3>1, <3>2
  <2>2. p[k + 1] = s[k] /\ (k + 1) - 1 = k /\ Len(p) - (k + 1) = Len(s) - k BY <1>1, <1>2
  <2> QED BY <2>1, <2>2, <1>5 DEF Tip
<1>6. \A k \in 1..Len(p) : k = 1 \/ (k - 1 \in 1..Len(s) /\ p[k] = s[k - 1] /\ (k - 1) + 1 = k)
  <2> SUFFICES ASSUME NEW k \in 1..Len(p), k # 1
               PROVE  k - 1 \in 1..Len(s) /\ p[k] = s[k - 1] /\ (k - 1) + 1 = k
    OBVIOUS
  <2>1. k - 1 \in 1..Len(s) /\ (k - 1) + 1 = k BY <1>1
  <2>2. p[(k - 1) + 1] = s[k - 1] BY <2>1, <1>1
  <2> QED BY <2>1, <2>2
<1>7. \A i \in 1..Len(n) : Complete(n, i)
          \/ \E k \in 1..Len(p) : p[k].children # <<>> /\ Tip(p, n, k, i)
  <2> SUFFICES ASSUME NEW i \in 1..Len(n), NEW k \in 1..Len(s),
                      s[k].children # <<>>, Tip(s, n, k, i)
               PROVE  \E j \in 1..Len(p) : p[j].children # <<>> /\ Tip(p, n, j, i)
    BY DEF Tree
  <2>1. k + 1 \in 1..Len(p) /\ p[k + 1] = s[k] BY <1>1, <1>2
  <2> QED BY <2>1, <1>5
<1>8. \A k \in 1..Len(p) : p[k].children # <<>> => \E i \in 1..Len(n) : Tip(p, n, k, i)
  <2> SUFFICES ASSUME NEW k \in 1..Len(p), p[k].children # <<>>
               PROVE  \E i \in 1..Len(n) : Tip(p, n, k, i)
    OBVIOUS
  <2>1. k - 1 \in 1..Len(s) /\ p[k] = s[k - 1] /\ (k - 1) + 1 = k BY <1>1, <1>6
  <2>2. PICK i \in 1..Len(n) : Tip(s, n, k - 1, i) BY <2>1 DEF Tree
  <2>3. Tip(p, n, (k - 1) + 1, i) BY <2>1, <2>2, <1>5
  <2> QED BY <2>1, <2>3
<1>9. \A k \in 1..Len(p) : p[k].before <= Len(n) BY <1>1, <1>4, <1>6, SMTT(30) DEF Tree
<1>10. \A k \in 1..Len(p) : k > 1 => Pair(p[k - 1]) = Pair(Head(p[k].children))
  <2> SUFFICES ASSUME NEW k \in 1..Len(p), k > 1
               PROVE  Pair(p[k - 1]) = Pair(Head(p[k].children))
    OBVIOUS
  <2>1. k - 1 \in 1..Len(s) /\ p[k] = s[k - 1] BY <1>6
  <2>2. CASE k = 2 BY <2>1, <2>2, <1>1
  <2>3. CASE k # 2
    <3>1. k - 1 > 1 BY <2>3
    <3>2. p[k - 1] = s[(k - 1) - 1] BY <2>1, <3>1, <1>3
    <3>3. Pair(s[(k - 1) - 1]) = Pair(Head(s[k - 1].children)) BY <2>1, <3>1 DEF Tree
    <3> QED BY <2>1, <3>2, <3>3
  <2> QED BY <2>2, <2>3
<1>11. Tree(p, n) BY <1>7, <1>8, <1>9, <1>10 DEF Tree
<1> QED BY <1>11 DEF p

(* A child that is too deep is told at once. *)
LEMMA TreePassed ==
    ASSUME NEW s \in Stacks, s # <<>>, NEW n \in Seq(NodeSet), Tree(s, n),
           s[1].children # <<>>,
           NEW x \in NodeSet, x.depth = Len(s), Pair(x) = Pair(Head(s[1].children)),
           Kids(x) = <<>>,
           NEW f \in FrameSet, f.before = s[1].before, Pair(f) = Pair(s[1]),
           f.children = Tail(s[1].children)
    PROVE  Tree(Push(f, Tail(s)), Append(n, x))
<1> DEFINE p == Push(f, Tail(s))
           m == Append(n, x)
           l == Len(n) + 1
<1>1. s \in Seq(FrameSet) BY DEF Stacks
<1>2. /\ p \in Seq(FrameSet) /\ Len(p) = Len(s) /\ p[1] = f /\ Len(s) \in Nat /\ Len(s) >= 1
      /\ \A k \in 2..Len(s) : p[k] = s[k]
  BY <1>1, ReplacedTop
<1>3. m \in Seq(NodeSet) /\ Len(m) = l /\ m[l] = x /\ IsLast(m, l) /\ Told(m, l) = {}
  BY ToldOfLast
<1>4. \A i \in 1..Len(n) :
          /\ m[i] = n[i] /\ (IsLast(m, i) <=> IsLast(n, i) /\ x.depth > n[i].depth)
          /\ Told(n, i) \subseteq Told(m, i)
          /\ IsLast(n, i) /\ x.depth = n[i].depth + 1 => Told(m, i) = Told(n, i) \cup {Pair(x)}
          /\ ~(IsLast(n, i) /\ x.depth = n[i].depth + 1) => Told(m, i) = Told(n, i)
  BY ToldLonger
<1>5. \A k \in 1..Len(s) : s[k].children # <<>>
  <2>1. \A k \in 1..Len(s) : k = 1 \/ s[k].children # <<>> BY DEF Stacks
  <2> QED BY <2>1
<1>6. \A k \in 1..Len(s) : s[k] \in FrameSet /\ s[k].before \in Nat /\ s[k].children \in Seq(ChildOf)
  <2>1. \A k \in 1..Len(s) : s[k] \in FrameSet BY <1>1
  <2> QED BY <2>1 DEF FrameSet
<1>7. Len(n) \in Nat /\ \A i \in 1..Len(n) : i \in 1..l /\ i # l OBVIOUS
<1>8. \A i \in 1..Len(n) : n[i].depth \in Nat BY NodeFields
<1>9. 1 \in 1..Len(s) /\ Pairs(s[1].children) = {Pair(x)} \cup Pairs(f.children)
  <2>1. 1 \in 1..Len(s) BY <1>2
  <2> QED BY <2>1, <1>6, PairsTail
<1> HIDE DEF p, m, l
<1>10. ASSUME NEW k \in 2..Len(s), NEW i \in 1..Len(n), Tip(s, n, k, i) PROVE Tip(p, m, k, i)
  <2>1. m[i] = n[i] /\ n[i].depth = Len(s) - k /\ IsLast(n, i) /\ s[k].before < i
    BY <1>4, <1>10 DEF Tip
  <2>2. IsLast(m, i) BY <2>1, <1>2, <1>4
  <2>3. x.depth # n[i].depth + 1 BY <2>1, <1>2
  <2>4. Told(m, i) = Told(n, i) BY <2>3, <1>4
  <2>5. Pair(Head(s[k].children)) \in Told(n, i)
    <3>1. k - 1 \in 1..Len(s) /\ k > 1 BY <1>2
    <3>2. s[k - 1].before < Len(n) BY <3>1, <1>1, <1>5, <1>6, TipAfter
    <3> QED BY <3>1, <3>2, <1>10 DEF Tip
  <2>6. p[k] = s[k] BY <1>2
  <2> QED BY <2>1, <2>2, <2>4, <2>5, <2>6, <1>2, <1>10 DEF Tip
<1>11. ASSUME NEW i \in 1..Len(n), Tip(s, n, 1, i)
       PROVE  IF f.children # <<>> THEN Tip(p, m, 1, i) ELSE Complete(m, i)
  <2>1. m[i] = n[i] /\ n[i].depth = Len(s) - 1 /\ IsLast(n, i) /\ s[1].before < i
    BY <1>4, <1>11 DEF Tip
  <2>2. IsLast(m, i) BY <2>1, <1>2, <1>4
  <2>3. x.depth = n[i].depth + 1 BY <2>1, <1>2
  <2>4. Told(m, i) = Told(n, i) \cup {Pair(x)} BY <2>1, <2>3, <1>4
  <2>5. /\ Told(m, i) \subseteq Pairs(Kids(n[i]))
        /\ Pairs(f.children) \subseteq Pairs(Kids(n[i]))
        /\ Pairs(Kids(n[i])) \subseteq Told(m, i) \cup Pairs(f.children)
    BY <2>4, <1>9, <1>11 DEF Tip
  <2>6. Tip(p, m, 1, i) BY <2>1, <2>2, <2>5, <1>2 DEF Tip
  <2>7. ASSUME f.children = <<>> PROVE Complete(m, i)
    <3>1. Pairs(f.children) = {} BY <2>7, PairsOfNone
    <3>2. Told(m, i) = Pairs(Kids(n[i])) BY <3>1, <2>5
    <3> QED BY <3>2, <2>1 DEF Complete
  <2> QED BY <2>6, <2>7
<1>12. \A i \in 1..l : Complete(m, i)
          \/ \E k \in 1..Len(p) : p[k].children # <<>> /\ Tip(p, m, k, i)
  <2> SUFFICES ASSUME NEW i \in 1..l
               PROVE  Complete(m, i)
                        \/ \E k \in 1..Len(p) : p[k].children # <<>> /\ Tip(p, m, k, i)
    OBVIOUS
  <2>1. CASE i = l BY <2>1, <1>3, PairsOfNone DEF Complete
  <2>2. CASE i # l
    <3>1. i \in 1..Len(n) BY <2>2, <1>7 DEF l
    <3>2. ASSUME Tip(s, n, 1, i)
          PROVE  Complete(m, i) \/ \E j \in 1..Len(p) : p[j].children # <<>> /\ Tip(p, m, j, i)
      BY <3>1, <3>2, <1>2, <1>9, <1>11
    <3>3. CASE \E k \in 1..Len(s) : s[k].children # <<>> /\ Tip(s, n, k, i)
      <4>1. PICK k \in 1..Len(s) : s[k].children # <<>> /\ Tip(s, n, k, i) BY <3>3
      <4>2. CASE k = 1 BY <4>1, <4>2, <3>2
      <4>3. CASE k # 1
        <5>1. k \in 2..Len(s) /\ k \in 1..Len(p) BY <4>3, <1>2
        <5>2. p[k] = s[k] /\ Tip(p, m, k, i) BY <3>1, <4>1, <5>1, <1>2, <1>10
        <5> QED BY <4>1, <5>1, <5>2
      <4> QED BY <4>2, <4>3
    <3>4. CASE Complete(n, i)
      <4>1. CASE IsLast(n, i) /\ x.depth = n[i].depth + 1
        <5>1. n[i].depth = Len(s) - 1 BY <4>1, <3>1, <1>2, <1>8
        <5>2. PICK j \in 1..Len(n) : Tip(s, n, 1, j) BY <1>9 DEF Tree
        <5>3. i = j BY <5>1, <5>2, <4>1, <3>1, LastIsOne DEF Tip
        <5> QED BY <5>2, <5>3, <3>2
      <4>2. CASE ~(IsLast(n, i) /\ x.depth = n[i].depth + 1)
        BY <4>2, <3>1, <3>4, <1>4 DEF Complete
      <4> QED BY <4>1, <4>2
    <3> QED BY <3>1, <3>3, <3>4 DEF Tree
  <2> QED BY <2>1, <2>2
<1>13. \A k \in 1..Len(p) : p[k].children # <<>> => \E i \in 1..l : Tip(p, m, k, i)
  <2> SUFFICES ASSUME NEW k \in 1..Len(p), p[k].children # <<>>
               PROVE  \E i \in 1..l : Tip(p, m, k, i)
    OBVIOUS
  <2>1. PICK i \in 1..Len(n) : Tip(s, n, k, i) BY <1>2, <1>5 DEF Tree
  <2>2. CASE k = 1 BY <2>1, <2>2, <1>2, <1>7, <1>11
  <2>3. CASE k # 1
    <3>1. k \in 2..Len(s) BY <2>3, <1>2
    <3> QED BY <3>1, <2>1, <1>7, <1>10
  <2> QED BY <2>2, <2>3
<1>14. \A k \in 1..Len(p) : p[k].before <= l
  <2> SUFFICES ASSUME NEW k \in 1..Len(p) PROVE p[k].before <= l OBVIOUS
  <2>1. k \in 1..Len(s) /\ s[k].before \in Nat /\ s[k].before <= Len(n) BY <1>2, <1>6 DEF Tree
  <2>2. p[k].before = s[k].before
    <3>1. k = 1 \/ k \in 2..Len(s) BY <2>1, <1>2
    <3> QED BY <3>1, <1>2
  <2> QED BY <2>1, <2>2, <1>7 DEF l
<1>15. \A k \in 1..Len(p) : k > 1 => Pair(p[k - 1]) = Pair(Head(p[k].children))
  <2> SUFFICES ASSUME NEW k \in 1..Len(p), k > 1
               PROVE  Pair(p[k - 1]) = Pair(Head(p[k].children))
    OBVIOUS
  <2>1. k \in 1..Len(s) /\ k \in 2..Len(s) BY <1>2
  <2>2. p[k] = s[k] /\ Pair(s[k - 1]) = Pair(Head(s[k].children)) BY <2>1, <1>2 DEF Tree
  <2>3. Pair(p[k - 1]) = Pair(s[k - 1])
    <3>1. k - 1 = 1 \/ k - 1 \in 2..Len(s) BY <2>1
    <3> QED BY <3>1, <1>2
  <2> QED BY <2>2, <2>3
<1>16. Tree(p, m) BY <1>3, <1>12, <1>13, <1>14, <1>15 DEF Tree
<1> QED BY <1>16 DEF p, m

(* Back to the container, with something told of the child. *)
LEMMA TreeLeft ==
    ASSUME NEW s \in Stacks, Len(s) > 1, NEW n \in Seq(NodeSet), Tree(s, n),
           s[1].children = <<>>, s[1].before < Len(n),
           NEW f \in FrameSet, f.before = s[2].before, Pair(f) = Pair(s[2]),
           f.children = Tail(s[2].children)
    PROVE  Tree(Push(f, Tail(Tail(s))), n)
<1> DEFINE q == Tail(s)
           p == Push(f, Tail(q))
<1>1. s \in Seq(FrameSet) BY DEF Stacks
<1>2. q \in Seq(FrameSet) /\ Len(q) = Len(s) - 1 /\ Len(s) \in Nat /\ q # <<>>
  <2>1. Len(s) \in Nat /\ s # <<>> BY <1>1
  <2>2. q \in Seq(FrameSet) /\ Len(q) = Len(s) - 1 BY <1>1, <2>1
  <2> QED BY <2>1, <2>2, StackPopped
<1>3. \A k \in 2..Len(s) : q[k - 1] = s[k]
  <2> SUFFICES ASSUME NEW k \in 2..Len(s) PROVE q[k - 1] = s[k] OBVIOUS
  <2>1. k - 1 \in 1..Len(q) /\ (k - 1) + 1 = k BY <1>2
  <2>2. q[k - 1] = s[(k - 1) + 1] BY <1>1, <1>2, <2>1
  <2> QED BY <2>1, <2>2
<1> HIDE DEF q
<1>4. /\ p \in Seq(FrameSet) /\ Len(p) = Len(q) /\ p[1] = f
      /\ \A k \in 2..Len(q) : p[k] = q[k]
  BY <1>2, ReplacedTop
<1> HIDE DEF p
<1>5. Len(p) = Len(s) - 1 /\ p[1] = f /\ Len(s) > 1 BY <1>2, <1>4
<1>6. \A k \in 3..Len(s) : p[k - 1] = s[k]
  <2> SUFFICES ASSUME NEW k \in 3..Len(s) PROVE p[k - 1] = s[k] OBVIOUS
  <2>1. k - 1 \in 2..Len(q) /\ k \in 2..Len(s) BY <1>2
  <2> QED BY <2>1, <1>3, <1>4
<1>7. \A k \in 2..Len(s) : p[k - 1].before = s[k].before /\ Pair(p[k - 1]) = Pair(s[k])
  <2> SUFFICES ASSUME NEW k \in 2..Len(s)
               PROVE  p[k - 1].before = s[k].before /\ Pair(p[k - 1]) = Pair(s[k])
    OBVIOUS
  <2>1. CASE k = 2 BY <2>1, <1>5
  <2>2. CASE k # 2
    <3>1. k \in 3..Len(s) BY <2>2, <1>2
    <3> QED BY <3>1, <1>6
  <2> QED BY <2>1, <2>2
<1>8. s[2].children # <<>> /\ s[2].children \in Seq(ChildOf) /\ 2 \in 1..Len(s)
  <2>1. 2 \in 1..Len(s) BY <1>2
  <2>2. s[2] \in FrameSet /\ s[2].children # <<>> BY StackPopped
  <2> QED BY <2>1, <2>2, FrameFields
<1>9. Pairs(s[2].children) = {Pair(Head(s[2].children))} \cup Pairs(f.children) BY <1>8, PairsTail
<1>10. ASSUME NEW k \in 3..Len(s), NEW i \in 1..Len(n), Tip(s, n, k, i) PROVE Tip(p, n, k - 1, i)
  <2>1. /\ n[i].depth = Len(s) - k /\ IsLast(n, i) /\ s[k].before < i
        /\ Told(n, i) \subseteq Pairs(Kids(n[i]))
        /\ Pairs(s[k].children) \subseteq Pairs(Kids(n[i]))
        /\ Pairs(Kids(n[i])) \subseteq Told(n, i) \cup Pairs(s[k].children)
        /\ s[k - 1].before < Len(n) => Pair(Head(s[k].children)) \in Told(n, i)
    <3>1. k > 1 BY <1>2
    <3> QED BY <3>1, <1>10 DEF Tip
  <2>2. p[k - 1] = s[k] BY <1>6
  <2>3. k - 1 \in 2..Len(s) /\ Len(p) - (k - 1) = Len(s) - k BY <1>2, <1>5
  <2>4. p[(k - 1) - 1].before = s[k - 1].before BY <2>3, <1>7
  <2> QED BY <2>1, <2>2, <2>3, <2>4 DEF Tip
<1>11. ASSUME NEW i \in 1..Len(n), Tip(s, n, 2, i)
       PROVE  IF f.children # <<>> THEN Tip(p, n, 1, i) ELSE Complete(n, i)
  <2>1. /\ n[i].depth = Len(s) - 2 /\ IsLast(n, i) /\ s[2].before < i
        /\ Told(n, i) \subseteq Pairs(Kids(n[i]))
        /\ Pairs(s[2].children) \subseteq Pairs(Kids(n[i]))
        /\ Pairs(Kids(n[i])) \subseteq Told(n, i) \cup Pairs(s[2].children)
        /\ Pair(Head(s[2].children)) \in Told(n, i)
    BY <1>11 DEF Tip
  <2>2. /\ Pairs(f.children) \subseteq Pairs(Kids(n[i]))
        /\ Pairs(Kids(n[i])) \subseteq Told(n, i) \cup Pairs(f.children)
    BY <2>1, <1>9
  <2>3. Len(p) - 1 = Len(s) - 2 BY <1>2, <1>5
  <2>4. Tip(p, n, 1, i) BY <2>1, <2>2, <2>3, <1>5 DEF Tip
  <2>5. ASSUME f.children = <<>> PROVE Complete(n, i)
    <3>1. Pairs(f.children) = {} BY <2>5, PairsOfNone
    <3>2. Told(n, i) = Pairs(Kids(n[i])) BY <3>1, <2>1, <2>2
    <3> QED BY <3>2 DEF Complete
  <2> QED BY <2>4, <2>5
<1>12. \A i \in 1..Len(n) : Complete(n, i)
          \/ \E k \in 1..Len(p) : p[k].children # <<>> /\ Tip(p, n, k, i)
  <2> SUFFICES ASSUME NEW i \in 1..Len(n), NEW k \in 1..Len(s),
                      s[k].children # <<>>, Tip(s, n, k, i)
               PROVE  Complete(n, i)
                        \/ \E j \in 1..Len(p) : p[j].children # <<>> /\ Tip(p, n, j, i)
    BY DEF Tree
  <2>1. k # 1 OBVIOUS
  <2>2. CASE k = 2
    <3>1. 1 \in 1..Len(p) BY <1>2, <1>5
    <3> QED BY <3>1, <2>2, <1>5, <1>11
  <2>3. CASE k # 2
    <3>1. k \in 3..Len(s) /\ k - 1 \in 1..Len(p) BY <2>1, <2>3, <1>2, <1>5
    <3>2. p[k - 1].children # <<>> /\ Tip(p, n, k - 1, i) BY <3>1, <1>6, <1>10
    <3> QED BY <3>1, <3>2
  <2> QED BY <2>2, <2>3
<1>13. \A k \in 1..Len(p) : p[k].children # <<>> => \E i \in 1..Len(n) : Tip(p, n, k, i)
  <2> SUFFICES ASSUME NEW k \in 1..Len(p), p[k].children # <<>>
               PROVE  \E i \in 1..Len(n) : Tip(p, n, k, i)
    OBVIOUS
  <2>1. CASE k = 1
    <3>1. PICK i \in 1..Len(n) : Tip(s, n, 2, i) BY <1>8 DEF Tree
    <3> QED BY <3>1, <2>1, <1>5, <1>11
  <2>2. CASE k # 1
    <3>1. k + 1 \in 3..Len(s) /\ k + 1 \in 1..Len(s) /\ (k + 1) - 1 = k BY <2>2, <1>2, <1>5
    <3>2. p[(k + 1) - 1] = s[k + 1] BY <3>1, <1>6
    <3>3. PICK i \in 1..Len(n) : Tip(s, n, k + 1, i) BY <3>1, <3>2 DEF Tree
    <3>4. Tip(p, n, (k + 1) - 1, i) BY <3>1, <3>3, <1>10
    <3> QED BY <3>1, <3>4
  <2> QED BY <2>1, <2>2
<1>14. \A k \in 1..Len(p) : k + 1 \in 2..Len(s) /\ k + 1 \in 1..Len(s) /\ (k + 1) - 1 = k
  BY <1>2, <1>5
<1>15. \A k \in 1..Len(p) : p[k].before <= Len(n)
  <2> SUFFICES ASSUME NEW k \in 1..Len(p) PROVE p[k].before <= Len(n) OBVIOUS
  <2>1. p[(k + 1) - 1].before = s[k + 1].before /\ s[k + 1].before <= Len(n)
    BY <1>7, <1>14 DEF Tree
  <2> QED BY <2>1, <1>14
<1>16. \A k \in 1..Len(p) : k > 1 => Pair(p[k - 1]) = Pair(Head(p[k].children))
  <2> SUFFICES ASSUME NEW k \in 1..Len(p), k > 1
               PROVE  Pair(p[k - 1]) = Pair(Head(p[k].children))
    OBVIOUS
  <2>1. k + 1 \in 3..Len(s) /\ k + 1 \in 1..Len(s) /\ (k + 1) - 1 = k /\ k \in 2..Len(s)
    BY <1>2, <1>5
  <2>2. p[k] = s[k + 1]
    <3>1. p[(k + 1) - 1] = s[k + 1] BY <2>1, <1>6
    <3> QED BY <3>1, <2>1
  <2>3. Pair(p[k - 1]) = Pair(s[k]) BY <2>1, <1>7
  <2>4. Pair(s[k]) = Pair(Head(s[k + 1].children))
    <3>1. k + 1 > 1 OBVIOUS
    <3>2. Pair(s[(k + 1) - 1]) = Pair(Head(s[k + 1].children)) BY <3>1, <2>1 DEF Tree
    <3> QED BY <3>2, <2>1
  <2> QED BY <2>2, <2>3, <2>4
<1>17. Tree(p, n) BY <1>12, <1>13, <1>15, <1>16 DEF Tree
<1> QED BY <1>17 DEF p, q

LEMMA TreeUpdate ==
    ASSUME IInv, TreeInv, NEW t \in Threads, NEW s, NEW n, NEW c, TreeOf(s, n, c),
           stack' = [stack EXCEPT ![t] = s], nodes' = [nodes EXCEPT ![t] = n],
           pc' = [pc EXCEPT ![t] = c]
    PROVE  TreeInv'
<1>1. \A u \in Threads : /\ stack'[u] = IF u = t THEN s ELSE stack[u]
                         /\ nodes'[u] = IF u = t THEN n ELSE nodes[u]
                         /\ pc'[u] = IF u = t THEN c ELSE pc[u]
  BY DEF IInv
<1>2. \A u \in Threads : TreeOf(stack'[u], nodes'[u], pc'[u]) BY <1>1 DEF TreeInv
<1> QED BY <1>2 DEF TreeInv

(* What a thread that goes on looking has to keep. *)
LEMMA TreeGoesOn ==
    ASSUME IInv, TreeInv, NEW t \in Threads, Looking(t), NEW s, NEW n, s # <<>>, Tree(s, n),
           stack' = [stack EXCEPT ![t] = s], nodes' = [nodes EXCEPT ![t] = n], pc' = pc
    PROVE  TreeInv'
<1>1. TreeOf(s, n, pc[t]) BY DEF TreeOf, Looking
<1>2. pc' = [pc EXCEPT ![t] = pc[t]] BY DEF IInv
<1> QED BY <1>1, <1>2, TreeUpdate

LEMMA LookingTree ==
    ASSUME IInv, TreeInv, NEW t \in Threads, Looking(t)
    PROVE  /\ stack[t] \in Stacks /\ stack[t] \in Seq(FrameSet) /\ stack[t] # <<>>
           /\ Top(t) = stack[t][1] /\ Top(t) \in FrameSet /\ Open(Top(t))
           /\ nodes[t] \in Seq(NodeSet) /\ Tree(stack[t], nodes[t])
           /\ Len(stack[t]) \in Nat /\ Depth(t) = Len(stack[t]) - 1
<1>1. stack[t] \in Stacks /\ stack[t] # <<>> /\ nodes[t] \in Reports BY LookingFacts
<1>2. stack[t] \in Seq(FrameSet) /\ nodes[t] \in Seq(NodeSet) BY <1>1 DEF Stacks, Reports
<1>3. Tree(stack[t], nodes[t]) BY <1>1 DEF TreeInv, TreeOf
<1>4. Top(t) = stack[t][1] BY <1>1, <1>2 DEF Top
<1> QED BY <1>1, <1>2, <1>3, <1>4, LookingFacts DEF Depth

LEMMA TreePassOver ==
    ASSUME IInv, TreeInv, NEW t \in Threads, PassOver(t)
    PROVE  TreeInv'
<1> DEFINE s == stack[t]
           f == [Top(t) EXCEPT !.todo = Tail(@)]
           p == Push(f, Tail(s))
<1>1. Looking(t) /\ Top(t).todo # <<>> BY DEF PassOver, NextFormat
<1>2. Top(t) \in FrameSet /\ s \in Seq(FrameSet) /\ s # <<>> /\ Top(t) = s[1]
  BY <1>1, LookingTree
<1>3. f \in FrameSet BY <1>1, <1>2, FrameNextFormat
<1>4. f.before = Top(t).before /\ f.children = Top(t).children /\ Pair(f) = Pair(Top(t))
  BY <1>2 DEF FrameSet, Pair
<1>5. /\ stack' = [stack EXCEPT ![t] = p] /\ nodes' = [nodes EXCEPT ![t] = nodes[t]] /\ pc' = pc
  BY DEF PassOver, Replace, IInv
<1> HIDE DEF f, s
<1>6. /\ p \in Seq(FrameSet) /\ Len(p) = Len(s) /\ p[1] = f /\ Len(s) \in Nat /\ Len(s) >= 1
      /\ \A k \in 2..Len(s) : p[k] = s[k]
  BY <1>2, <1>3, ReplacedTop
<1> HIDE DEF p
<1>7. \A k \in 1..Len(s) : k = 1 \/ k \in 2..Len(s) BY <1>6
<1>8. Tree(s, nodes[t]) /\ nodes[t] \in Seq(NodeSet) BY <1>1, LookingTree DEF s
<1>9. \A k \in 1..Len(s) : /\ p[k].before = s[k].before /\ p[k].children = s[k].children
                           /\ Pair(p[k]) = Pair(s[k])
  BY <1>2, <1>4, <1>6, <1>7
<1>10. Tree(p, nodes[t]) BY <1>2, <1>6, <1>8, <1>9, TreeSame
<1>11. p # <<>> BY <1>6
<1> QED BY <1>1, <1>5, <1>10, <1>11, TreeGoesOn

LEMMA TreeMatch ==
    ASSUME IInv, TreeInv, NEW t \in Threads, Match(t)
    PROVE  TreeInv'
<1> DEFINE s == stack[t]
           frame == Top(t)
           format == Head(frame.todo)
           x == Node(format, frame, Depth(t))
           seen == frame.seen \cup {Key(frame, format)}
           todo == Tail(frame.todo)
           children == ChildrenOf(frame.image, format)
           f == [frame EXCEPT !.todo = todo, !.format = format, !.seen = seen,
                              !.branch = seen, !.children = children]
<1>1. Looking(t) /\ frame.todo # <<>> /\ frame.children = <<>> BY DEF Match, NextFormat
<1>2. /\ frame \in FrameSet /\ s \in Stacks /\ s \in Seq(FrameSet) /\ s # <<>> /\ frame = s[1]
      /\ nodes[t] \in Seq(NodeSet) /\ Tree(s, nodes[t]) /\ Depth(t) = Len(s) - 1
  BY <1>1, LookingTree
<1>3. format \in Formats /\ todo \in Seq(Formats) BY <1>1, <1>2, FrameNextFormat
<1>4. seen \in SUBSET (Seq(Formats) \X Nat \X Formats) BY <1>2, <1>3, FrameFields, KeyType
<1>5. children \in Seq(ChildOf) BY <1>2, <1>3, FrameFields, ChildrenType
<1>6. /\ stack' = [stack EXCEPT ![t] = Push(f, Tail(s))]
      /\ nodes' = [nodes EXCEPT ![t] = Append(nodes[t], x)] /\ pc' = pc
  BY DEF Match, Replace, Branch, IInv
<1>7. x \in NodeSet
  <2>1. Depth(t) \in 0..MaxDepth BY <1>1, LookingFacts, DetectionAssumption
  <2>2. frame.image \in Images /\ frame.index \in Nat BY <1>2 DEF FrameSet
  <2> HIDE DEF frame, format
  <2> QED BY <2>1, <2>2, <1>3 DEF Node, NodeSet
<1>8. x.depth = Depth(t) /\ Pair(x) = Pair(frame) /\ x.format = format /\ x.image = frame.image
  BY DEF Node, Pair
<1>9. Kids(x) = children
  BY <1>3, <1>8, DetectionAssumption DEF Kids
<1>10. /\ f \in FrameSet /\ f.before = frame.before /\ Pair(f) = Pair(frame)
       /\ f.children = children
  <2> HIDE DEF frame, format, seen, todo, children
  <2> QED BY <1>2, <1>3, <1>4, <1>5 DEF FrameSet, Pair
<1> HIDE DEF f, frame, format, todo, children, seen, x, s
<1>11. Tree(Push(f, Tail(s)), Append(nodes[t], x))
  BY <1>1, <1>2, <1>7, <1>8, <1>9, <1>10, TreeMatched
<1>12. Push(f, Tail(s)) # <<>> BY <1>2, <1>10, ReplacedTop
<1> QED BY <1>1, <1>6, <1>11, <1>12, TreeGoesOn

LEMMA TreeEnterChild ==
    ASSUME IInv, TreeInv, NEW t \in Threads, EnterChild(t)
    PROVE  TreeInv'
<1> DEFINE frame == Top(t)
           child == Head(frame.children)
           f == Frame(child, ChildStream(frame), frame.branch, Len(nodes[t]))
           s == stack[t]
<1>1. Looking(t) /\ frame.children # <<>> BY DEF EnterChild
<1>2. /\ frame \in FrameSet /\ Open(frame) /\ s \in Seq(FrameSet) /\ s # <<>> /\ frame = s[1]
      /\ nodes[t] \in Seq(NodeSet) /\ Tree(s, nodes[t])
  BY <1>1, LookingTree
<1>3. child \in ChildOf BY <1>1, <1>2, FrameNextChild
<1>4. ChildStream(frame) \in Seq(Formats) BY <1>1, <1>2, FrameFields DEF ChildStream, Open
<1>5. Len(nodes[t]) \in Nat BY <1>2
<1>6. f \in FrameSet
  BY <1>1, <1>2, <1>3, <1>4, <1>5, LookingFacts, FrameFields, FrameOfChild
<1>7. f.before = Len(nodes[t]) /\ f.children = <<>> /\ Pair(f) = Pair(child)
  BY DEF Frame, Pair
<1>8. /\ stack' = [stack EXCEPT ![t] = Push(f, s)] /\ nodes' = [nodes EXCEPT ![t] = nodes[t]]
      /\ pc' = pc
  BY DEF EnterChild, IInv
<1>9. Pair(f) = Pair(Head(s[1].children)) BY <1>2, <1>7
<1> HIDE DEF f, frame, child, s
<1>10. Tree(Push(f, s), nodes[t]) BY <1>2, <1>6, <1>7, <1>9, TreeEntered
<1>11. Push(f, s) # <<>>
  <2>1. Len(Push(f, s)) = Len(s) + 1 /\ Len(s) \in Nat BY <1>2, <1>6, PushedTop
  <2> QED BY <2>1
<1> QED BY <1>1, <1>8, <1>10, <1>11, TreeGoesOn

LEMMA TreePassChild ==
    ASSUME IInv, TreeInv, NEW t \in Threads, PassChild(t)
    PROVE  TreeInv'
<1> DEFINE s == stack[t]
           frame == Top(t)
           child == Head(frame.children)
           f == [frame EXCEPT !.children = Tail(@)]
           x == DataNode(child, Depth(t) + 1)
<1>1. Looking(t) /\ frame.children # <<>> BY DEF PassChild
<1>2. /\ frame \in FrameSet /\ s \in Stacks /\ s \in Seq(FrameSet) /\ s # <<>> /\ frame = s[1]
      /\ nodes[t] \in Seq(NodeSet) /\ Tree(s, nodes[t]) /\ Depth(t) + 1 = Len(s)
  BY <1>1, LookingTree
<1>3. f \in FrameSet /\ child \in ChildOf BY <1>1, <1>2, FrameNextChild
<1>4. f.before = frame.before /\ Pair(f) = Pair(frame) /\ f.children = Tail(frame.children)
  BY <1>2 DEF FrameSet, Pair
<1>5. Depth(t) + 1 \in 0..MaxDepth BY <1>1, LookingFacts, DetectionAssumption
<1>6. x \in NodeSet BY <1>3, <1>5, DataNodeType
<1>7. x.depth = Len(s) /\ Pair(x) = Pair(child) /\ Kids(x) = <<>>
  BY <1>2 DEF DataNode, Pair, Kids
<1>8. /\ stack' = [stack EXCEPT ![t] = Push(f, Tail(s))]
      /\ nodes' = [nodes EXCEPT ![t] = Append(nodes[t], x)] /\ pc' = pc
  BY DEF PassChild, Replace, IInv
<1>9. Pair(x) = Pair(Head(s[1].children)) /\ s[1].children # <<>>
      /\ f.children = Tail(s[1].children) /\ f.before = s[1].before /\ Pair(f) = Pair(s[1])
  BY <1>1, <1>2, <1>4, <1>7
<1> HIDE DEF f, x, child, frame, s
<1>10. Tree(Push(f, Tail(s)), Append(nodes[t], x))
  BY <1>2, <1>3, <1>6, <1>7, <1>9, TreePassed
<1>11. Push(f, Tail(s)) # <<>> BY <1>2, <1>3, ReplacedTop
<1> QED BY <1>1, <1>8, <1>10, <1>11, TreeGoesOn

(* A child in which nothing was found is told as data before the way back. *)
LEMMA TreeLeaveChild ==
    ASSUME IInv, TreeInv, NEW t \in Threads, LeaveChild(t)
    PROVE  TreeInv'
<1> DEFINE s == stack[t]
           frame == Top(t)
           parent == s[2]
           child == Head(parent.children)
           seen == frame.seen
           f == [parent EXCEPT !.children = Tail(@), !.branch = seen]
           x == DataNode(child, Depth(t))
           n == Found(frame.before, nodes[t], child, Depth(t))
           p == Push(f, Tail(Tail(s)))
<1>1. Looking(t) /\ Depth(t) > 0 /\ frame.children = <<>> BY DEF LeaveChild
<1>2. /\ frame \in FrameSet /\ s \in Stacks /\ s \in Seq(FrameSet) /\ s # <<>> /\ frame = s[1]
      /\ nodes[t] \in Seq(NodeSet) /\ Tree(s, nodes[t]) /\ Depth(t) = Len(s) - 1
      /\ Len(s) \in Nat /\ Len(s) > 1
  <2>1. Len(s) \in Nat /\ Depth(t) = Len(s) - 1 BY <1>1, LookingTree
  <2>2. Len(s) > 1 BY <1>1, <2>1
  <2> QED BY <1>1, <2>1, <2>2, LookingTree
<1>3. parent \in FrameSet /\ parent.children # <<>> BY <1>2, StackPopped
<1>4. child \in ChildOf BY <1>3, FrameNextChild
<1>5. seen \in SUBSET (Seq(Formats) \X Nat \X Formats) BY <1>2, FrameFields
<1>6. x \in NodeSet BY <1>1, <1>4, LookingFacts, DetectionAssumption, DataNodeType
<1>7. x.depth = Len(s) - 1 /\ Pair(x) = Pair(child) /\ Kids(x) = <<>>
  BY <1>2 DEF DataNode, Pair, Kids
<1>8. Pair(s[1]) = Pair(child)
  <2>1. 2 \in 1..Len(s) BY <1>2
  <2> QED BY <2>1, <1>2 DEF Tree
<1>9. f \in FrameSet
  <2> HIDE DEF parent, seen
  <2>1. Tail(parent.children) \in Seq(ChildOf) BY <1>3, FrameNextChild
  <2>2. [parent EXCEPT !.children = Tail(parent.children), !.branch = seen] \in FrameSet
    BY <2>1, <1>3, <1>5 DEF FrameSet
  <2> QED BY <2>2
<1>10. f.before = parent.before /\ Pair(f) = Pair(parent) /\ f.children = Tail(parent.children)
  BY <1>3 DEF FrameSet, Pair
<1>11. stack' = [stack EXCEPT ![t] = p] /\ nodes' = [nodes EXCEPT ![t] = n] /\ pc' = pc
  BY DEF LeaveChild, IInv
<1>12. n = IF Len(nodes[t]) = frame.before THEN Append(nodes[t], x) ELSE nodes[t]
  BY DEF Found
<1>13. s = Push(frame, Tail(s))
  <2> HIDE DEF s, frame
  <2> QED BY <1>2 DEF Push
<1>14. 1 \in 1..Len(s) BY <1>2
<1>15. frame.before \in Nat BY <1>2 DEF FrameSet
<1>16. frame.before <= Len(nodes[t]) BY <1>2, <1>14 DEF Tree
<1> HIDE DEF s, frame, child, seen, f, x, n
<1>17. n \in Seq(NodeSet) /\ Tree(s, n) /\ frame.before < Len(n)
  <2>1. CASE Len(nodes[t]) = frame.before
    <3>1. n = Append(nodes[t], x) BY <2>1, <1>12
    <3>2. frame.children = Kids(x) /\ s[1].children = <<>> BY <1>1, <1>2, <1>7
    <3>3. Tree(Push(frame, Tail(s)), Append(nodes[t], x))
      BY <3>2, <1>2, <1>6, <1>7, <1>8, TreeMatched
    <3>4. n \in Seq(NodeSet) /\ Len(n) = Len(nodes[t]) + 1 BY <3>1, <1>2, <1>6, ToldOfLast
    <3>5. Tree(s, n) BY <3>1, <3>3, <1>13
    <3>6. frame.before < Len(n) BY <3>4, <2>1, <1>15
    <3> QED BY <3>4, <3>5, <3>6
  <2>2. CASE Len(nodes[t]) # frame.before
    <3>1. n = nodes[t] BY <2>2, <1>12
    <3>2. Len(nodes[t]) \in Nat BY <1>2
    <3>3. frame.before < Len(nodes[t]) BY <3>2, <2>2, <1>15, <1>16
    <3> QED BY <3>1, <3>3, <1>2
  <2> QED BY <2>1, <2>2
<1>18. Tree(p, n) BY <1>1, <1>2, <1>9, <1>10, <1>17, TreeLeft
<1>19. p # <<>>
  <2>1. Tail(s) \in Seq(FrameSet) /\ Tail(s) # <<>> BY <1>2, StackPopped
  <2>2. Len(p) >= 1 BY <2>1, <1>9, ReplacedTop
  <2> HIDE DEF p
  <2> QED BY <2>2
<1> HIDE DEF p
<1> QED BY <1>1, <1>11, <1>18, <1>19, TreeGoesOn

LEMMA TreeInvNext == IInv /\ TreeInv /\ [Next]_vars => TreeInv'
<1> SUFFICES ASSUME IInv, TreeInv, [Next]_vars PROVE TreeInv' OBVIOUS
<1>1. CASE UNCHANGED vars
  <2>1. UNCHANGED <<stack, nodes, pc>> BY <1>1 DEF vars
  <2> QED BY <2>1 DEF TreeInv
<1>2. ASSUME NEW t \in Threads,
             LoadNothing(t) \/ LoadCatalogue(t) \/ LoadFails(t) \/ DetectNothing(t) \/ SetCatalogue(t)
      PROVE  TreeInv'
  <2>1. PICK c \in {"idle", "set"} :
          /\ pc' = [pc EXCEPT ![t] = c] /\ UNCHANGED <<stack, nodes>> /\ pc[t] \in {"idle", "set"}
    BY <1>2 DEF LoadNothing, LoadCatalogue, LoadFails, DetectNothing, SetCatalogue, Call
  <2>2. stack' = [stack EXCEPT ![t] = stack[t]] /\ nodes' = [nodes EXCEPT ![t] = nodes[t]]
    BY <2>1 DEF IInv
  <2>3. TreeOf(stack[t], nodes[t], c) BY <2>1 DEF TreeInv, TreeOf
  <2> QED BY <2>1, <2>2, <2>3, TreeUpdate
<1>3. ASSUME NEW t \in Threads, Detect(t) PROVE TreeInv'
  <2>1. PICK image \in Images :
          stack' = [stack EXCEPT ![t] =
                       <<Frame([index |-> 0, offset |-> 0, image |-> image], <<>>, {}, 0)>>]
    BY <1>3 DEF Detect
  <2> DEFINE f == Frame([index |-> 0, offset |-> 0, image |-> image], <<>>, {}, 0)
             s == <<f>>
  <2>2. f.children = <<>> /\ f.before = 0 BY DEF Frame
  <2> HIDE DEF f
  <2>3. s # <<>> /\ Len(s) = 1 /\ s[1] = f OBVIOUS
  <2> HIDE DEF s
  <2>4. Tree(s, <<>>)
    <3>1. \A k \in 1..Len(s) : s[k] = f /\ ~(k > 1) BY <2>3
    <3>2. Len(<<>>) = 0 /\ 1..Len(<<>>) = {} OBVIOUS
    <3> QED BY <2>2, <3>1, <3>2 DEF Tree
  <2>5. TreeOf(s, <<>>, "detect") BY <2>3, <2>4 DEF TreeOf
  <2>6. /\ pc' = [pc EXCEPT ![t] = "detect"] /\ nodes[t] = <<>>
        /\ nodes' = [nodes EXCEPT ![t] = nodes[t]]
    BY <1>3 DEF Detect, Call, TreeInv, TreeOf, IInv
  <2>7. stack' = [stack EXCEPT ![t] = s] BY <2>1 DEF s, f
  <2> QED BY <2>5, <2>6, <2>7, TreeUpdate
<1>4. ASSUME NEW t \in Threads, LeaveImage(t) PROVE TreeInv'
  <2>1. Looking(t) /\ Top(t).children = <<>> /\ Depth(t) = 0 BY <1>4 DEF LeaveImage
  <2>2. Len(stack[t]) = 1 /\ stack[t][1].children = <<>> /\ Tree(stack[t], nodes[t])
    <3>1. Len(stack[t]) \in Nat /\ Depth(t) = Len(stack[t]) - 1 BY <2>1, LookingTree
    <3>2. Len(stack[t]) = 1 BY <2>1, <3>1
    <3> QED BY <2>1, <3>2, LookingTree
  <2>3. \A k \in 1..Len(stack[t]) : stack[t][k].children = <<>> BY <2>2
  <2>4. \A i \in 1..Len(nodes[t]) : Complete(nodes[t], i) BY <2>2, <2>3 DEF Tree
  <2>5. TreeOf(<<>>, nodes[t], "report") BY <2>4 DEF TreeOf
  <2>6. /\ stack' = [stack EXCEPT ![t] = <<>>] /\ nodes' = [nodes EXCEPT ![t] = nodes[t]]
        /\ pc' = [pc EXCEPT ![t] = "report"]
    BY <1>4 DEF LeaveImage, IInv
  <2> QED BY <2>5, <2>6, TreeUpdate
<1>5. ASSUME NEW t \in Threads, Panic(t) \/ Report(t) PROVE TreeInv'
  <2>1. TreeOf(<<>>, <<>>, "idle") BY DEF TreeOf
  <2>2. CASE Panic(t) BY <2>1, <2>2, TreeUpdate DEF Panic
  <2>3. CASE Report(t)
    <3>1. stack[t] = <<>> BY <2>3 DEF Report, TreeInv, TreeOf
    <3>2. /\ stack' = [stack EXCEPT ![t] = <<>>] /\ nodes' = [nodes EXCEPT ![t] = <<>>]
          /\ pc' = [pc EXCEPT ![t] = "idle"]
      BY <2>3, <3>1 DEF Report, IInv
    <3> QED BY <2>1, <3>2, TreeUpdate
  <2> QED BY <1>5, <2>2, <2>3
<1> QED
  BY <1>1, <1>2, <1>3, <1>4, <1>5, TreePassOver, TreeMatch, TreeEnterChild, TreePassChild,
     TreeLeaveChild DEF Next, Step

LEMMA TreeInvHolds == Spec => []TreeInv
<1>1. Init => TreeInv
  <2> SUFFICES ASSUME Init PROVE TreeInv OBVIOUS
  <2>1. TreeOf(<<>>, <<>>, "idle") BY DEF TreeOf
  <2> QED BY <2>1 DEF Init, TreeInv
<1> QED BY <1>1, TreeInvNext, IInvHolds, PTL DEF Spec

(* The report of detect_tree has below every container exactly its children, those  *)
(* that were recognised, those that were seen before and those that are too deep,    *)
(* whatever the formats match and however the images contain each other.          *)
THEOREM DetectionReportsAll == Spec => []EveryChildIsReported
<1>1. IInv /\ TreeInv => EveryChildIsReported
  <2> SUFFICES ASSUME IInv, TreeInv, NEW t \in Threads, pc[t] = "report",
                      NEW i \in DOMAIN nodes[t]
               PROVE  LET node == nodes[t][i]
                          children == IF node.format = DataFormat THEN <<>>
                                      ELSE ChildrenOf(node.image, node.format)
                      IN  {<<nodes[t][j].index, nodes[t][j].image>> : j \in Below(nodes[t], i)}
                              = {<<children[j].index, children[j].image>> : j \in DOMAIN children}
    BY DEF EveryChildIsReported
  <2>1. nodes[t] \in Seq(NodeSet) BY DEF IInv, Reports
  <2>2. i \in 1..Len(nodes[t]) BY <2>1
  <2>3. Complete(nodes[t], i) BY <2>2 DEF TreeInv, TreeOf
  <2> QED BY <2>3 DEF Complete, Told, Pairs, Kids, Pair
<1> QED BY <1>1, IInvHolds, TreeInvHolds, PTL
-----------------------------------------------------------------------------
(* What is left of a detection, from the image it was called for inwards: at every  *)
(* depth the formats and the children that are left of the image there, or that no  *)
(* image has been entered there yet.                                             *)
FrameLeft(s, k) ==
    IF k <= Len(s)
    THEN <<0, Len(s[Len(s) + 1 - k].todo), Len(s[Len(s) + 1 - k].children), 0>>
    ELSE <<1, 0, 0, 0>>

(* Less is left at some depth, and the same outside of it. *)
Nearer(s, r) ==
    \E k \in 1..MaxDepth :
        /\ Lower(FrameLeft(s, k), FrameLeft(r, k))
        /\ \A j \in 1..(k - 1) : FrameLeft(s, j) = FrameLeft(r, j)

LEMMA FrameLeftType ==
    ASSUME NEW s \in Stacks, NEW k \in 1..MaxDepth
    PROVE  FrameLeft(s, k) \in Fours
<1>1. s \in Seq(FrameSet) BY DEF Stacks
<1>2. CASE k <= Len(s)
  <2> DEFINE f == s[Len(s) + 1 - k]
  <2>1. f \in FrameSet
    <3>1. Len(s) + 1 - k \in 1..Len(s) BY <1>1, <1>2
    <3> QED BY <1>1, <3>1
  <2>2. FrameLeft(s, k) = <<0, Len(f.todo), Len(f.children), 0>> BY <1>2 DEF FrameLeft
  <2> HIDE DEF f
  <2>3. Len(f.todo) \in Nat /\ Len(f.children) \in Nat BY <2>1, FrameFields
  <2> QED BY <2>2, <2>3 DEF Fours
<1>3. CASE ~(k <= Len(s)) BY <1>3 DEF FrameLeft, Fours
<1> QED BY <1>2, <1>3

(* Of the innermost image a format or a child less is left. *)
LEMMA NearerReplaced ==
    ASSUME NEW r \in Stacks, r # <<>>, NEW f \in FrameSet,
           \/ Len(f.todo) < Len(Head(r).todo)
           \/ Len(f.todo) = Len(Head(r).todo) /\ Len(f.children) < Len(Head(r).children)
    PROVE  Nearer(Push(f, Tail(r)), r)
<1> DEFINE s == Push(f, Tail(r))
           n == Len(r)
<1>1. r \in Seq(FrameSet) /\ n \in Nat /\ n >= 1 /\ Head(r) = r[1] /\ n <= MaxDepth BY DEF Stacks
<1>2. s \in Seq(FrameSet) /\ Len(s) = n /\ s[1] = f /\ \A i \in 2..n : s[i] = r[i]
  BY <1>1 DEF Push
<1> HIDE DEF s, n
<1>3. Len(r) = n BY DEF n
<1>4. FrameLeft(s, n) = <<0, Len(f.todo), Len(f.children), 0>>
  <2>1. n <= Len(s) /\ Len(s) + 1 - n = 1 BY <1>1, <1>2
  <2> QED BY <2>1, <1>2 DEF FrameLeft
<1>5. FrameLeft(r, n) = <<0, Len(Head(r).todo), Len(Head(r).children), 0>>
  <2>1. n <= Len(r) /\ Len(r) + 1 - n = 1 BY <1>1, <1>3
  <2> QED BY <2>1, <1>1 DEF FrameLeft
<1>6. Lower(FrameLeft(s, n), FrameLeft(r, n)) BY <1>4, <1>5 DEF Lower
<1>7. \A j \in 1..(n - 1) : FrameLeft(s, j) = FrameLeft(r, j)
  <2> TAKE j \in 1..(n - 1)
  <2>1. n + 1 - j \in 2..n /\ j <= n BY <1>1
  <2>2. s[n + 1 - j] = r[n + 1 - j] BY <2>1, <1>2
  <2> QED BY <2>1, <2>2, <1>2, <1>3 DEF FrameLeft
<1>8. n \in 1..MaxDepth BY <1>1, DetectionAssumption
<1>9. Nearer(s, r) BY <1>6, <1>7, <1>8 DEF Nearer
<1> QED BY <1>9 DEF s

(* An image is entered, at a depth where there was none. *)
LEMMA NearerPushed ==
    ASSUME NEW r \in Stacks, NEW f \in FrameSet, Len(r) < MaxDepth
    PROVE  Nearer(Push(f, r), r)
<1> DEFINE s == Push(f, r)
           n == Len(r) + 1
<1>1. r \in Seq(FrameSet) /\ Len(r) \in Nat BY DEF Stacks
<1>2. s \in Seq(FrameSet) /\ Len(s) = n /\ s[1] = f /\ \A i \in 1..Len(r) : s[i + 1] = r[i]
  BY <1>1 DEF Push
<1>3. n \in Nat /\ n \in 1..MaxDepth /\ Len(r) = n - 1 BY <1>1, DetectionAssumption
<1> HIDE DEF s, n
<1>4. FrameLeft(s, n) = <<0, Len(f.todo), Len(f.children), 0>>
  <2>1. n <= Len(s) /\ Len(s) + 1 - n = 1 BY <1>2, <1>3
  <2> QED BY <2>1, <1>2 DEF FrameLeft
<1>5. FrameLeft(r, n) = <<1, 0, 0, 0>>
  <2>1. ~(n <= Len(r)) BY <1>3
  <2> QED BY <2>1 DEF FrameLeft
<1>6. Lower(FrameLeft(s, n), FrameLeft(r, n)) BY <1>4, <1>5 DEF Lower
<1>7. \A j \in 1..(n - 1) : FrameLeft(s, j) = FrameLeft(r, j)
  <2> TAKE j \in 1..(n - 1)
  <2> DEFINE i == n - j
  <2>1. /\ i \in 1..Len(r) /\ Len(s) + 1 - j = i + 1 /\ Len(r) + 1 - j = i
        /\ j <= Len(s) /\ j <= Len(r)
    BY <1>2, <1>3
  <2> HIDE DEF i
  <2>2. s[i + 1] = r[i] BY <2>1, <1>2
  <2> QED BY <2>1, <2>2 DEF FrameLeft
<1>8. Nearer(s, r) BY <1>3, <1>6, <1>7 DEF Nearer
<1> QED BY <1>8 DEF s

(* An image is left, and is no child any more that is to be entered. *)
LEMMA NearerPopped ==
    ASSUME NEW r \in Stacks, Len(r) > 1, NEW f \in FrameSet,
           f.todo = r[2].todo, Len(f.children) < Len(r[2].children)
    PROVE  Nearer(Push(f, Tail(Tail(r))), r)
<1> DEFINE t == Tail(r)
           s == Push(f, Tail(t))
           n == Len(r) - 1
<1>1. r \in Seq(FrameSet) /\ Len(r) \in Nat /\ Len(r) > 1 /\ Len(r) <= MaxDepth BY DEF Stacks
<1>2. t \in Seq(FrameSet) /\ Len(t) = n /\ n \in Nat /\ n >= 1 /\ \A i \in 1..n : t[i] = r[i + 1]
  BY <1>1, SMTT(30)
<1>3. Len(r) = n + 1 /\ n \in 1..MaxDepth BY <1>1, <1>2, DetectionAssumption
<1> HIDE DEF t, n
<1>4. s \in Seq(FrameSet) /\ Len(s) = n /\ s[1] = f /\ \A i \in 2..n : s[i] = t[i]
  BY <1>2 DEF Push
<1> HIDE DEF s
<1>5. FrameLeft(s, n) = <<0, Len(f.todo), Len(f.children), 0>>
  <2>1. n <= Len(s) /\ Len(s) + 1 - n = 1 BY <1>2, <1>4
  <2> QED BY <2>1, <1>4 DEF FrameLeft
<1>6. FrameLeft(r, n) = <<0, Len(r[2].todo), Len(r[2].children), 0>>
  <2>1. n <= Len(r) /\ Len(r) + 1 - n = 2 BY <1>2, <1>3
  <2> QED BY <2>1 DEF FrameLeft
<1>7. Lower(FrameLeft(s, n), FrameLeft(r, n)) BY <1>5, <1>6 DEF Lower
<1>8. \A j \in 1..(n - 1) : FrameLeft(s, j) = FrameLeft(r, j)
  <2> TAKE j \in 1..(n - 1)
  <2> DEFINE i == n + 1 - j
  <2>1. /\ i \in 2..n /\ i \in 1..n /\ Len(s) + 1 - j = i /\ Len(r) + 1 - j = i + 1
        /\ j <= Len(s) /\ j <= Len(r)
    BY <1>2, <1>3, <1>4
  <2> HIDE DEF i
  <2>2. s[i] = r[i + 1] BY <2>1, <1>2, <1>4
  <2> QED BY <2>1, <2>2 DEF FrameLeft
<1>9. Nearer(s, r) BY <1>3, <1>7, <1>8 DEF Nearer
<1> QED BY <1>9 DEF s, t
-----------------------------------------------------------------------------
LEMMA ShorterTail ==
    ASSUME NEW S, NEW s \in Seq(S), s # <<>>
    PROVE  Tail(s) \in Seq(S) /\ Len(Tail(s)) < Len(s)
OBVIOUS

LEMMA PassOverIsNearer ==
    ASSUME IInv, NEW t \in Threads, PassOver(t)
    PROVE  Nearer(stack'[t], stack[t])
<1> DEFINE f == [Top(t) EXCEPT !.todo = Tail(@)]
<1>1. Looking(t) /\ Top(t).todo # <<>> /\ Replace(t, f) BY DEF PassOver, NextFormat
<1>2. Top(t) \in FrameSet /\ f \in FrameSet BY <1>1, LookingFacts, FrameNextFormat
<1>3. f.todo = Tail(Top(t).todo) /\ Top(t).todo \in Seq(Formats) BY <1>2 DEF FrameSet
<1>4. Len(f.todo) < Len(Top(t).todo) BY <1>1, <1>3, ShorterTail
<1>5. stack'[t] = Push(f, Tail(stack[t])) BY <1>1 DEF Replace, IInv
<1>6. stack[t] \in Stacks /\ stack[t] # <<>> /\ Top(t) = Head(stack[t]) BY <1>1, LookingFacts DEF Top
<1> HIDE DEF f
<1> QED BY <1>2, <1>4, <1>5, <1>6, NearerReplaced

LEMMA MatchIsNearer ==
    ASSUME IInv, NEW t \in Threads, Match(t)
    PROVE  Nearer(stack'[t], stack[t])
<1> DEFINE frame == Top(t)
           format == Head(frame.todo)
           todo == Tail(frame.todo)
           children == ChildrenOf(frame.image, format)
           seen == frame.seen \cup {Key(frame, format)}
           f == [frame EXCEPT !.todo = todo, !.format = format, !.seen = seen,
                              !.branch = seen, !.children = children]
<1>1. Looking(t) /\ frame.todo # <<>> BY DEF Match, NextFormat
<1>2. frame \in FrameSet BY <1>1, LookingFacts
<1>3. format \in Formats /\ todo \in Seq(Formats) BY <1>1, <1>2, FrameNextFormat
<1>4. seen \in SUBSET (Seq(Formats) \X Nat \X Formats) BY <1>2, <1>3, FrameFields, KeyType
<1>5. children \in Seq(ChildOf) BY <1>2, <1>3, FrameFields, ChildrenType
<1>6. frame.todo \in Seq(Formats) BY <1>2, FrameFields
<1>7. Len(todo) < Len(frame.todo) BY <1>1, <1>6, ShorterTail
<1>8. stack'[t] = Push(f, Tail(stack[t])) BY DEF Match, Replace, IInv, Branch
<1>9. stack[t] \in Stacks /\ stack[t] # <<>> /\ frame = Head(stack[t]) BY <1>1, LookingFacts DEF Top
<1> HIDE DEF frame, format, todo, children, seen
<1>10. f \in FrameSet /\ f.todo = todo BY <1>2, <1>3, <1>4, <1>5 DEF FrameSet
<1> HIDE DEF f
<1> QED BY <1>7, <1>8, <1>9, <1>10, NearerReplaced

LEMMA EnterChildIsNearer ==
    ASSUME IInv, NEW t \in Threads, EnterChild(t)
    PROVE  Nearer(stack'[t], stack[t])
<1> DEFINE frame == Top(t)
           f == Frame(Head(frame.children), ChildStream(frame), frame.branch, Len(nodes[t]))
<1>1. Looking(t) /\ frame.children # <<>> /\ ~TooDeep(Depth(t) + 1) BY DEF EnterChild
<1>2. frame \in FrameSet /\ Open(frame) BY <1>1, LookingFacts
<1>3. Head(frame.children) \in ChildOf BY <1>1, <1>2, FrameNextChild
<1>4. ChildStream(frame) \in Seq(Formats) BY <1>1, <1>2, FrameFields DEF ChildStream, Open
<1>5. Len(nodes[t]) \in Nat BY <1>1, LookingFacts DEF Reports
<1>6. f \in FrameSet
  BY <1>1, <1>2, <1>3, <1>4, <1>5, LookingFacts, FrameFields, FrameOfChild
<1>7. Len(stack[t]) < MaxDepth
  BY <1>1, LookingFacts, DetectionAssumption DEF TooDeep, Depth
<1>8. stack'[t] = Push(f, stack[t]) BY DEF EnterChild, IInv
<1>9. stack[t] \in Stacks BY <1>1, LookingFacts
<1> HIDE DEF f, frame
<1> QED BY <1>6, <1>7, <1>8, <1>9, NearerPushed

LEMMA PassChildIsNearer ==
    ASSUME IInv, NEW t \in Threads, PassChild(t)
    PROVE  Nearer(stack'[t], stack[t])
<1> DEFINE frame == Top(t)
           f == [frame EXCEPT !.children = Tail(@)]
<1>1. Looking(t) /\ frame.children # <<>> /\ Replace(t, f) BY DEF PassChild
<1>2. frame \in FrameSet /\ f \in FrameSet BY <1>1, LookingFacts, FrameNextChild
<1>3. /\ f.children = Tail(frame.children) /\ f.todo = frame.todo
      /\ frame.children \in Seq(ChildOf)
  BY <1>2 DEF FrameSet
<1>4. Len(f.children) < Len(frame.children) BY <1>1, <1>3, ShorterTail
<1>5. stack'[t] = Push(f, Tail(stack[t])) BY <1>1 DEF Replace, IInv
<1>6. stack[t] \in Stacks /\ stack[t] # <<>> /\ frame = Head(stack[t]) BY <1>1, LookingFacts DEF Top
<1> HIDE DEF f, frame
<1>7. Len(f.todo) = Len(Head(stack[t]).todo) BY <1>3, <1>6
<1>8. Len(f.children) < Len(Head(stack[t]).children) BY <1>4, <1>6
<1> QED BY <1>2, <1>5, <1>6, <1>7, <1>8, NearerReplaced

LEMMA LeaveChildIsNearer ==
    ASSUME IInv, NEW t \in Threads, LeaveChild(t)
    PROVE  Nearer(stack'[t], stack[t])
<1> DEFINE s == stack[t]
           parent == s[2]
           seen == Top(t).seen
           f == [parent EXCEPT !.children = Tail(@), !.branch = seen]
<1>1. Looking(t) /\ Depth(t) > 0 BY DEF LeaveChild
<1>2. s \in Stacks /\ Len(s) > 1 BY <1>1, LookingFacts, DetectionAssumption DEF Depth
<1>3. parent \in FrameSet /\ parent.children # <<>> BY <1>2, StackPopped
<1>4. seen \in SUBSET (Seq(Formats) \X Nat \X Formats) BY <1>1, LookingFacts, FrameFields
<1>5. stack'[t] = Push(f, Tail(Tail(s))) BY DEF LeaveChild, IInv
<1> HIDE DEF s, seen, parent
<1>6. f \in FrameSet BY <1>3, <1>4, FrameAfterChild
<1>7. /\ f.children = Tail(parent.children) /\ f.todo = parent.todo
      /\ parent.children \in Seq(ChildOf)
  BY <1>3 DEF FrameSet
<1>8. Len(f.children) < Len(parent.children) BY <1>3, <1>7, ShorterTail
<1> HIDE DEF f
<1>9. f.todo = s[2].todo /\ Len(f.children) < Len(s[2].children) BY <1>7, <1>8 DEF parent
<1>10. Nearer(Push(f, Tail(Tail(s))), s) BY <1>2, <1>6, <1>9, NearerPopped
<1> QED BY <1>5, <1>10 DEF s

(* What a thread does itself brings it nearer to the end, or to it. *)
LEMMA StepIsNearer ==
    ASSUME IInv, NEW t \in Threads, pc[t] = "detect", Step(t)
    PROVE  pc'[t] # "detect" \/ Nearer(stack'[t], stack[t])
<1>1. ~SetCatalogue(t) /\ ~Report(t) BY DEF SetCatalogue, Report
<1>2. CASE PassOver(t) BY <1>2, PassOverIsNearer
<1>3. CASE Match(t) BY <1>3, MatchIsNearer
<1>4. CASE EnterChild(t) BY <1>4, EnterChildIsNearer
<1>5. CASE PassChild(t) BY <1>5, PassChildIsNearer
<1>6. CASE LeaveChild(t) BY <1>6, LeaveChildIsNearer
<1>7. CASE LeaveImage(t) BY <1>7 DEF LeaveImage, IInv
<1> QED BY <1>1, <1>2, <1>3, <1>4, <1>5, <1>6, <1>7 DEF Step

(* What another thread does leaves it where it is. *)
LEMMA OthersStayWhereTheyAre ==
    ASSUME IInv, [Next]_vars, NEW t \in Threads, pc[t] = "detect", ~Step(t)
    PROVE  pc'[t] # "detect" \/ stack'[t] = stack[t]
<1>1. CASE UNCHANGED vars BY <1>1 DEF vars
<1>2. ASSUME NEW u \in Threads,
             LoadNothing(u) \/ LoadCatalogue(u) \/ LoadFails(u) \/ DetectNothing(u)
      PROVE  stack'[t] = stack[t]
  BY <1>2 DEF LoadNothing, LoadCatalogue, LoadFails, DetectNothing
<1>3. ASSUME NEW u \in Threads, Detect(u) PROVE stack'[t] = stack[t]
  <2>1. u # t BY <1>3 DEF Detect, Call
  <2> QED BY <1>3, <2>1 DEF Detect, IInv
<1>4. ASSUME NEW u \in Threads, Panic(u) PROVE pc'[t] # "detect" \/ stack'[t] = stack[t]
  BY <1>4 DEF Panic, IInv
<1>5. ASSUME NEW u \in Threads, Step(u) PROVE stack'[t] = stack[t]
  <2>1. u # t BY <1>5
  <2>2. CASE SetCatalogue(u) \/ Report(u) BY <2>2 DEF SetCatalogue, Report
  <2>3. CASE PassOver(u) \/ Match(u) \/ PassChild(u)
    BY <2>1, <2>3 DEF PassOver, Match, PassChild, Replace, IInv
  <2>4. CASE EnterChild(u) \/ LeaveChild(u) BY <2>1, <2>4 DEF EnterChild, LeaveChild, IInv
  <2>5. CASE LeaveImage(u) BY <2>1, <2>5 DEF LeaveImage, IInv
  <2> QED BY <1>5, <2>2, <2>3, <2>4, <2>5 DEF Step
<1> QED BY <1>1, <1>2, <1>3, <1>4, <1>5 DEF Next

(* detect_tree_recursive comes to an end whatever the images hold and whatever the    *)
(* other threads do: every step of a detection ends it or leaves less at some depth,  *)
(* with the same left outside of it, and no other step gives it more to look at.     *)
(* There are no more than MAX_DEPTH depths, and at each the numbers are natural.     *)
THEOREM DetectionCountsDown ==
    Spec => /\ [](\A t \in Threads : \A k \in 1..MaxDepth : FrameLeft(stack[t], k) \in Fours)
            /\ [][\A t \in Threads : pc[t] = "detect" =>
                     /\ Step(t) => pc'[t] # "detect" \/ Nearer(stack'[t], stack[t])
                     /\ ~Step(t) => pc'[t] # "detect" \/ stack'[t] = stack[t]]_vars
<1>1. IInv => \A t \in Threads : \A k \in 1..MaxDepth : FrameLeft(stack[t], k) \in Fours
  BY FrameLeftType DEF IInv
<1>2. IInv /\ [Next]_vars =>
        \A t \in Threads : pc[t] = "detect" =>
            /\ Step(t) => pc'[t] # "detect" \/ Nearer(stack'[t], stack[t])
            /\ ~Step(t) => pc'[t] # "detect" \/ stack'[t] = stack[t]
  BY StepIsNearer, OthersStayWhereTheyAre
<1> QED BY <1>1, <1>2, IInvHolds, PTL DEF Spec
=============================================================================

------------------------------ MODULE Detection ------------------------------
(***************************************************************************)
(* The library (lib.rs, format.rs, detect.rs): threads load the catalogue of  *)
(* formats and detect what is in an image, and in what is in it.              *)
(*                                                                         *)
(* The recursion of detect_tree is a stack of frames, one for each image that  *)
(* is being looked at, and its result the list of nodes in the order in which  *)
(* they are reported: each before the nodes of its children.                  *)
(*                                                                         *)
(* An image has the formats whose rules match it, and for those that are       *)
(* containers its children: their numbers, offsets and images.  It may be one  *)
(* of its own children.                                                      *)
(***************************************************************************)
EXTENDS Naturals, Sequences, FiniteSets

CONSTANTS
    Threads,
    Catalogues,     \* the files of catalogues, as sets of formats
    Formats,
    Containers,     \* the formats for which get_container has a container
    Transforms,     \* those whose name starts with arc/
    Images,
    Matched,        \* the formats that match an image
    Inside,         \* the children of an image as a container, or Error
    MaxDepth,       \* MAX_DEPTH
    MaxCalls,       \* bound of the calls of a thread
    None, Error, DataFormat

ChildOf == [index : Nat, offset : Nat, image : Images]

ASSUME DetectionAssumption ==
    /\ MaxDepth \in Nat \ {0} /\ MaxCalls \in Nat
    /\ \A c \in Catalogues : c \subseteq Formats /\ IsFiniteSet(c)
    /\ Containers \subseteq Formats /\ Transforms \subseteq Formats
    /\ Matched \in [Images -> SUBSET Formats]
    /\ Inside \in [Images -> [Containers -> Seq(ChildOf) \cup {Error}]]
    /\ Error \notin Seq(ChildOf)
    /\ None \notin Seq(Formats) /\ None \notin Formats /\ DataFormat \notin Formats

VARIABLES
    formats,        \* FORMATS: the catalogue of the process, in the order of its hash map
    pc,             \* what a thread is doing
    catalogue,      \* the catalogue that a thread has read
    stack,          \* the images it is looking at, the innermost first
    nodes,          \* the nodes it has found
    calls           \* the calls it has made

vars == <<formats, pc, catalogue, stack, nodes, calls>>

(* The orders in which a HashMap may give what it holds. *)
Orders(set) ==
    {s \in [1..Cardinality(set) -> set] : \A i, j \in DOMAIN s : s[i] = s[j] => i = j}

(* What is known of the bytes of an image: the transforms they come from and    *)
(* the offset in the parent, and the format as which they were looked at.      *)
Key(frame, format) == <<frame.stream, frame.offset, format>>

Node(format, frame, depth) ==
    [format |-> format, index |-> frame.index, depth |-> depth, image |-> frame.image]

Frame(child, stream, seen, before) ==
    [image |-> child.image, index |-> child.index, offset |-> child.offset, stream |-> stream,
     todo |-> formats, seen |-> seen, before |-> before,
     format |-> None, children |-> <<>>, branch |-> {}]

Push(frame, frames) == <<frame>> \o frames

(* The innermost image, and those around it. *)
Top(t) == Head(stack[t])
Replace(t, frame) == stack' = [stack EXCEPT ![t] = Push(frame, Tail(@))]
Depth(t) == Len(stack[t]) - 1
-----------------------------------------------------------------------------
Init ==
    /\ formats = None
    /\ pc = [t \in Threads |-> "idle"]
    /\ catalogue = [t \in Threads |-> <<>>]
    /\ stack = [t \in Threads |-> <<>>]
    /\ nodes = [t \in Threads |-> <<>>]
    /\ calls = [t \in Threads |-> 0]

Call(t, next) ==
    /\ pc[t] = "idle" /\ calls[t] < MaxCalls
    /\ calls' = [calls EXCEPT ![t] = @ + 1]
    /\ pc' = [pc EXCEPT ![t] = next]

(* mountin_load_catalogue: a catalogue is read only where there is none, and     *)
(* its file may not be readable.                                              *)
LoadNothing(t) ==
    /\ formats # None
    /\ Call(t, "idle")
    /\ UNCHANGED <<formats, catalogue, stack, nodes>>

LoadCatalogue(t) ==
    /\ formats = None
    /\ \E c \in Catalogues : \E order \in Orders(c) :
          catalogue' = [catalogue EXCEPT ![t] = order]
    /\ Call(t, "set")
    /\ UNCHANGED <<formats, stack, nodes>>

LoadFails(t) ==
    /\ formats = None
    /\ Call(t, "idle")
    /\ UNCHANGED <<formats, catalogue, stack, nodes>>

(* FORMATS.set, which keeps what another thread may have set since. *)
SetAnyway(t) == formats' = catalogue[t]     \* what is set last counts
SetFormats(t) == formats' = IF formats = None THEN catalogue[t] ELSE formats
SetCatalogue(t) ==
    /\ pc[t] = "set"
    /\ SetFormats(t)
    /\ pc' = [pc EXCEPT ![t] = "idle"]
    /\ catalogue' = [catalogue EXCEPT ![t] = <<>>]
    /\ UNCHANGED <<stack, nodes, calls>>

(* mountin_detect_tree: nothing is found in a file that cannot be opened, or      *)
(* without a catalogue.                                                        *)
DetectNothing(t) ==
    /\ Call(t, "idle")
    /\ UNCHANGED <<formats, catalogue, stack, nodes>>

Detect(t) ==
    /\ formats # None
    /\ \E image \in Images :
          stack' = [stack EXCEPT ![t] =
                       <<Frame([index |-> 0, offset |-> 0, image |-> image], <<>>, {}, 0)>>]
    /\ Call(t, "detect")
    /\ UNCHANGED <<formats, catalogue, nodes>>
-----------------------------------------------------------------------------
(* As Looking, without a way back from the deepest images. *)
StopsAtDepth(t) == pc[t] = "detect" /\ stack[t] # <<>> /\ Len(stack[t]) < MaxDepth

Looking(t) == pc[t] = "detect" /\ stack[t] # <<>>

(* The next format of the loop of detect_tree_recursive. *)
NextFormat(t) == Looking(t) /\ Top(t).children = <<>> /\ Top(t).todo # <<>>

(* It does not match, or it was looked at before as this format. *)
Passes(frame, format) ==
    format \notin Matched[frame.image] \/ Key(frame, format) \in frame.seen

PassOver(t) ==
    /\ NextFormat(t) /\ Passes(Top(t), Head(Top(t).todo))
    /\ Replace(t, [Top(t) EXCEPT !.todo = Tail(@)])
    /\ UNCHANGED <<formats, pc, catalogue, nodes, calls>>

(* container.children, of which an error is no children. *)
ChildrenOf(image, format) ==
    IF format \notin Containers THEN <<>>
    ELSE IF Inside[image][format] = Error THEN <<>> ELSE Inside[image][format]

(* As Branch, with nothing seen yet. *)
EmptyBranch(frame, format) == {}

(* The formats seen so far, a copy for the children of this one. *)
Branch(frame, format) == frame.seen \cup {Key(frame, format)}

Match(t) ==
    /\ NextFormat(t) /\ ~Passes(Top(t), Head(Top(t).todo))
    /\ LET frame == Top(t)
           format == Head(frame.todo)
       IN  /\ nodes' = [nodes EXCEPT ![t] = Append(@, Node(format, frame, Depth(t)))]
           /\ Replace(t, [frame EXCEPT !.todo = Tail(@), !.format = format,
                                       !.seen = @ \cup {Key(frame, format)},
                                       !.branch = Branch(frame, format),
                                       !.children = ChildrenOf(frame.image, format)])
    /\ UNCHANGED <<formats, pc, catalogue, calls>>

ChildStream(frame) ==
    IF frame.format \in Transforms THEN Append(frame.stream, frame.format) ELSE frame.stream

TooDeepByOne(depth) == depth > MaxDepth     \* the bound is passed by one
TooDeep(depth) == depth >= MaxDepth

(* The image is looked at in a frame of its own, or not at all when too deep.   *)
EnterChild(t) ==
    /\ Looking(t) /\ Top(t).children # <<>> /\ ~TooDeep(Depth(t) + 1)
    /\ stack' = [stack EXCEPT ![t] =
                    Push(Frame(Head(Top(t).children), ChildStream(Top(t)), Top(t).branch,
                               Len(nodes[t])), @)]
    /\ UNCHANGED <<formats, pc, catalogue, nodes, calls>>

(* As DataNode, with the name left for a format that was not found. *)
DataNodeUnnamed(child, depth) ==
    [format |-> None, index |-> child.index, depth |-> depth, image |-> child.image]

DataNode(child, depth) ==
    [format |-> DataFormat, index |-> child.index, depth |-> depth, image |-> child.image]

PassChild(t) ==
    /\ Looking(t) /\ Top(t).children # <<>> /\ TooDeep(Depth(t) + 1)
    /\ nodes' = [nodes EXCEPT ![t] = Append(@, DataNode(Head(Top(t).children), Depth(t) + 1))]
    /\ Replace(t, [Top(t) EXCEPT !.children = Tail(@)])
    /\ UNCHANGED <<formats, pc, catalogue, calls>>

(* As Found, without data. *)
FoundOnly(before, found, child, depth) == found

(* Where nothing was found in a child, it is data. *)
Found(before, found, child, depth) ==
    IF Len(found) = before THEN Append(found, DataNode(child, depth)) ELSE found

(* The loop is at its end: back to the container, whose next children know of    *)
(* what was seen in this one.                                                  *)
LeaveChild(t) ==
    /\ Looking(t) /\ Top(t).children = <<>> /\ Top(t).todo = <<>> /\ Depth(t) > 0
    /\ LET parent == stack[t][2] IN
       /\ nodes' = [nodes EXCEPT ![t] = Found(Top(t).before, @, Head(parent.children), Depth(t))]
       /\ stack' = [stack EXCEPT ![t] =
                       Push([parent EXCEPT !.children = Tail(@), !.branch = Top(t).seen],
                            Tail(Tail(@)))]
    /\ UNCHANGED <<formats, pc, catalogue, calls>>

LeaveImage(t) ==
    /\ Looking(t) /\ Top(t).children = <<>> /\ Top(t).todo = <<>> /\ Depth(t) = 0
    /\ stack' = [stack EXCEPT ![t] = <<>>]
    /\ pc' = [pc EXCEPT ![t] = "report"]
    /\ UNCHANGED <<formats, catalogue, nodes, calls>>

(* A panic of a container ends the call before the callback was called.        *)
Panic(t) ==
    /\ Looking(t)
    /\ stack' = [stack EXCEPT ![t] = <<>>] /\ nodes' = [nodes EXCEPT ![t] = <<>>]
    /\ pc' = [pc EXCEPT ![t] = "idle"]
    /\ UNCHANGED <<formats, catalogue, calls>>

(* walk_tree, which calls back for every node. *)
Report(t) ==
    /\ pc[t] = "report"
    /\ nodes' = [nodes EXCEPT ![t] = <<>>]
    /\ pc' = [pc EXCEPT ![t] = "idle"]
    /\ UNCHANGED <<formats, catalogue, stack, calls>>

Step(t) ==
    \/ SetCatalogue(t) \/ PassOver(t) \/ Match(t) \/ EnterChild(t) \/ PassChild(t)
    \/ LeaveChild(t) \/ LeaveImage(t) \/ Report(t)
Next ==
    \E t \in Threads :
        \/ LoadNothing(t) \/ LoadCatalogue(t) \/ LoadFails(t)
        \/ DetectNothing(t) \/ Detect(t) \/ Panic(t) \/ Step(t)

Spec == Init /\ [][Next]_vars
FairSpec == Spec /\ \A t \in Threads : WF_vars(Step(t))
-----------------------------------------------------------------------------
FrameSet ==
    [image : Images, index : Nat, offset : Nat, stream : Seq(Formats), todo : Seq(Formats),
     seen : SUBSET (Seq(Formats) \X Nat \X Formats), before : Nat, format : Formats \cup {None},
     children : Seq(ChildOf), branch : SUBSET (Seq(Formats) \X Nat \X Formats)]

NodeSet ==
    [format : Formats \cup {DataFormat}, index : Nat, depth : 0..MaxDepth, image : Images]

(* What the variables hold. *)
TypeOK ==
    /\ formats \in Seq(Formats) \cup {None}
    /\ pc \in [Threads -> {"idle", "set", "detect", "report"}]
    /\ catalogue \in [Threads -> Seq(Formats)]
    /\ stack \in [Threads -> Seq(FrameSet)]
    /\ nodes \in [Threads -> Seq(NodeSet)]
    /\ calls \in [Threads -> 0..MaxCalls]

(* No image is looked at more than MAX_DEPTH deep, whatever the images hold, and   *)
(* what is reported at that depth is data.                                     *)
DepthIsBounded ==
    \A t \in Threads :
        /\ Len(stack[t]) <= MaxDepth
        /\ \A i \in DOMAIN nodes[t] :
              nodes[t][i].depth <= MaxDepth
              /\ (nodes[t][i].depth = MaxDepth => nodes[t][i].format = DataFormat)

(* The catalogue of a process is one and stays it, however many threads load one:  *)
(* no detection sees the formats of two.                                       *)
CatalogueIsFinal == [][formats # None => formats' = formats]_vars

(* The nodes of the children of the i-th node: those a level below it, up to the   *)
(* next that is not below it.                                                  *)
Below(found, i) ==
    {j \in (i + 1)..Len(found) :
        /\ found[j].depth = found[i].depth + 1
        /\ \A k \in (i + 1)..j : found[k].depth > found[i].depth}

(* Every child of every container that was opened is in the report, and nothing    *)
(* else is below it: what was not detected, was seen before or is too deep is data. *)
EveryChildIsReported ==
    \A t \in Threads : pc[t] = "report" =>
        \A i \in DOMAIN nodes[t] :
            LET node == nodes[t][i]
                children == IF node.format = DataFormat THEN <<>>
                            ELSE ChildrenOf(node.image, node.format)
            IN  {<<nodes[t][j].index, nodes[t][j].image>> : j \in Below(nodes[t], i)}
                    = {<<children[j].index, children[j].image>> : j \in DOMAIN children}

(* An image that is its own child at the same place, with no transform between,     *)
(* is looked at once: the frames around it are of other keys.                   *)
NoCircle ==
    \A t \in Threads : \A i, j \in DOMAIN stack[t] :
        i < j /\ stack[t][i].format # None =>
            Key(stack[t][i], stack[t][i].format) # Key(stack[t][j], stack[t][j].format)

(* Every detection comes to its end, with what it reports. *)
DetectionEnds == \A t \in Threads : pc[t] = "detect" ~> pc[t] = "idle"

(* "same bytes get deduped, different bytes don't": of a format that matches an     *)
(* image and is passed over, the image was reported as that format.              *)
OnlySameBytesArePassed ==
    \A t \in Threads : NextFormat(t) =>
        LET frame == Top(t)
            format == Head(frame.todo)
        IN  format \in Matched[frame.image] /\ Key(frame, format) \in frame.seen
                => \E i \in DOMAIN nodes[t] :
                      nodes[t][i].image = frame.image /\ nodes[t][i].format = format
=============================================================================

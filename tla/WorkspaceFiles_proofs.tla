------------------------- MODULE WorkspaceFiles_proofs -------------------------
(***************************************************************************)
(* What holds of a file of the workspace and its writers for any entries,    *)
(* values, requests, installs and bounds: its type, that listed packages are *)
(* installed, and that changes stay while their writers do not overlap; and  *)
(* what holds of the workspace's git repository for any files, graphs,       *)
(* requests and workers: what is pushed is on GitHub, and commits and files  *)
(* follow GitHub while requests do not overlap.                              *)
(***************************************************************************)
EXTENDS WorkspaceFiles, GitWorkspace, FiniteSetTheorems, SequenceTheorems, WellFoundedInduction,
        TLAPS

WebKinds == {"create", "update", "archive", "save", "overwrite", "delete", "rename"}
PackageKinds == {"install", "installAll"}
WebSteps == {"viewing", "exists", "compare", "open", "find", "load", "openTemp", "writeTemp",
             "replace", "move", "rename"}
PackageSteps == {"queued", "list", "copy", "append", "merge"}
Owed == [Entries -> Values \cup {Unset, Gone, Anything}]

\* What a call cl of c has when it is at step.
StepOK(c, step, cl) ==
    /\ step \in {"write", "writeTemp"} <=> cl.node # None
    /\ cl.kind \in WebKinds => c \in Requests
    /\ cl.kind \in PackageKinds => c \in Installs
    /\ step # "idle" => cl.kind # "none"
    /\ step \in WebSteps => c \in Requests
    /\ step \in PackageSteps => c \in Installs
    /\ step \in {"viewing", "exists", "compare"} => cl.kind = "save"
    /\ step = "open" => cl.kind \in {"save", "overwrite", "create"}
    /\ step = "write" => cl.kind \in {"save", "overwrite", "create", "install"}
    /\ step \in {"append", "merge"} => cl.kind = "install"
    /\ step \in {"load", "openTemp", "writeTemp", "replace"} => cl.path \in {"file", "aside"}

NamesOK(nm) ==
    /\ nm \in [Paths -> Nodes \cup {None}]
    /\ \A p, q \in Paths : (p # q /\ nm[p] # None) => nm[p] # nm[q]

TypeInv ==
    /\ NamesOK(names)
    /\ data \in [Nodes -> Contents \cup {Cut}]
    /\ installed \in [Entries -> Values \cup {Unset}]
    /\ pc \in [Calls -> Steps]
    /\ call \in [Calls -> Call]
    /\ dequeued \in [Installs -> 0..MaxDequeues]
    /\ scene \in Scenes /\ calls \in 0..MaxCalls /\ breaks \in 0..MaxBreaks
    /\ due \in Owed
    /\ mixed \in BOOLEAN
    /\ \A c \in Calls : StepOK(c, pc[c], call[c])

\* Where only installs change the file: what the file, or what any of them read of it, lists is
\* installed, and so is what one of them is about to list.
OnlyInstalls == scene.kinds \subseteq PackageKinds /\ scene.origin \in {None, Blank}
ListsInstalled(bytes, inst) == \A e \in Entries : Parsed(bytes)[e] # Unset => inst[e] # Unset
CallLists(step, cl, inst) ==
    /\ ListsInstalled(cl.base, inst)
    /\ step \in {"append", "merge", "write"} => inst[cl.entry] # Unset
InstallsInv ==
    OnlyInstalls =>
        /\ \A n \in Nodes : ListsInstalled(data[n], installed)
        /\ \A c \in Calls : CallLists(pc[c], call[c], installed)
        /\ \A c \in Requests : pc[c] = "idle"

\* What a file holds is what the entries were last set to.
Fits(owed, bytes) ==
    \A e \in Entries : \/ owed[e] = Anything
                       \/ owed[e] = Gone /\ bytes = None
                       \/ bytes \notin {None, Cut} /\ bytes[e] = owed[e]
ReadIn(nm, dt, path) == IF nm[path] # None THEN dt[nm[path]] ELSE None

\* Calls overlap only while mixed, and somebody is at work then.
MixedInv ==
    /\ ~mixed => \A c, d \in Calls : pc[c] \notin Resting /\ pc[d] \notin Resting => c = d
    /\ mixed => \E c \in Calls : pc[c] \notin Resting

\* A call cl at work alone: the file is as it is due until cl has opened it; then it is empty,
\* and cl will write what is due with its own change.
ChangedBy(cl) == [Parsed(cl.base) EXCEPT ![cl.entry] = cl.value]
AloneOK(step, cl, nm, dt, owed) ==
    /\ step # "write" => Fits(owed, ReadIn(nm, dt, "file"))
    /\ step = "compare" => nm["file"] # None
    /\ step = "write" => nm["file"] = cl.node /\ dt[cl.node] = Cut
    /\ \/ step \in {"open", "write"} /\ cl.kind = "save"
       \/ step \in {"merge", "write"} /\ cl.kind = "install"
       \/ step \in {"openTemp", "writeTemp", "replace"} /\ cl.path = "file"
       => Fits(owed, cl.base)
    /\ step = "writeTemp" => nm[TempOf(cl.path)] = cl.node /\ dt[cl.node] = Cut
    /\ step = "replace" =>
          nm[TempOf(cl.path)] # None /\ dt[nm[TempOf(cl.path)]] = ChangedBy(cl)

ChangesInv ==
    ~mixed =>
        /\ \A c \in Calls : pc[c] \notin Resting => AloneOK(pc[c], call[c], names, data, due)
        /\ (\A c \in Calls : pc[c] \in Resting) => Fits(due, ReadIn(names, data, "file"))

FilesInvariant == TypeInv /\ InstallsInv /\ MixedInv /\ ChangesInv

-----------------------------------------------------------------------------
(* Data and steps. *)

LEMMA ParsedType ==
    ASSUME NEW bytes \in Contents \cup {Cut, None}
    PROVE  /\ Parsed(bytes) \in Contents
           /\ bytes \notin {Cut, None} => Parsed(bytes) = bytes
           /\ bytes \in {Cut, None} => Parsed(bytes) = Blank
           /\ Blank \in Contents /\ \A e \in Entries : Blank[e] = Unset
  BY DEF Parsed, Blank, Contents

LEMMA ChangedType ==
    ASSUME NEW cl \in Call
    PROVE  /\ ChangedBy(cl) \in Contents
           /\ cl.entry \in Entries /\ ChangedBy(cl)[cl.entry] = cl.value
           /\ \A e \in Entries \ {cl.entry} : ChangedBy(cl)[e] = Parsed(cl.base)[e]
  <1>1. Parsed(cl.base) \in Contents /\ cl.entry \in Entries /\ cl.value \in Values \cup {Unset}
    BY ParsedType DEF Call
  <1> QED
    BY <1>1 DEF ChangedBy, Contents

LEMMA NoCallType ==
    /\ NoCall \in Call /\ NoCall.node = None /\ NoCall.kind = "none" /\ NoCall.base = None
    /\ NoCall.path = "file"
  <1>1. (CHOOSE e \in Entries : TRUE) \in Entries
    BY FilesAssumption
  <1> QED
    BY <1>1 DEF NoCall, Call, Paths

\* What is owed once nobody knows.
AllAnything == [e \in Entries |-> Anything]

LEMMA AnythingFits ==
    /\ AllAnything \in Owed
    /\ \A bytes : Fits(AllAnything, bytes)
  BY DEF AllAnything, Owed, Fits

\* A call goes on, arrives, ends or rests.
Goes(c, step, cl) ==
    /\ pc[c] \notin Resting /\ step \notin Resting /\ mixed' = mixed /\ due' = due
    /\ ~mixed => AloneOK(step, cl, names', data', due)
Begins(c, step, cl) ==
    /\ pc[c] \in Resting /\ step \notin Resting /\ mixed' = (mixed \/ Others(c) # {})
    /\ due' = due
    /\ Fits(due, ReadIn(names, data, "file")) => AloneOK(step, cl, names', data', due)
Ends(c, step) ==
    /\ pc[c] \notin Resting /\ step \in Resting /\ mixed' = (mixed /\ Others(c) # {})
    /\ \E owed \in Owed :
          /\ due' = IF mixed THEN AllAnything ELSE owed
          /\ ~mixed => Fits(owed, ReadIn(names', data', "file"))
Rests(c, step) ==
    /\ pc[c] \in Resting /\ step \in Resting
    /\ UNCHANGED <<mixed, due, names, data>>
Proceeds(c, step, cl) ==
    Goes(c, step, cl) \/ Begins(c, step, cl) \/ Ends(c, step) \/ Rests(c, step)

\* What a call may do where only installs change the file.
KeepsInstalls(c, step, cl) ==
    OnlyInstalls =>
        /\ c \in Installs
        /\ \A e \in Entries : installed[e] # Unset => installed'[e] # Unset
        /\ \A n \in Nodes : ListsInstalled(data'[n], installed')
        /\ CallLists(step, cl, installed')

LEMMA MixedKept ==
    ASSUME TypeInv, MixedInv, NEW c \in Calls, NEW step \in Steps, NEW cl,
           pc' = [pc EXCEPT ![c] = step], Proceeds(c, step, cl)
    PROVE  MixedInv' /\ mixed' \in BOOLEAN
  <1>1. /\ pc'[c] = step /\ \A d \in Calls \ {c} : pc'[d] = pc[d]
        /\ mixed \in BOOLEAN
    BY DEF TypeInv
  <1>2. Others(c) # {} <=> \E d \in Calls \ {c} : pc[d] \notin Resting
    BY DEF Others
  <1>3. mixed' \in BOOLEAN
    <2>1. (mixed \/ Others(c) # {}) \in BOOLEAN /\ (mixed /\ Others(c) # {}) \in BOOLEAN
      OBVIOUS
    <2> QED
      BY <1>1, <2>1 DEF Proceeds, Goes, Begins, Ends, Rests
  <1>4. CASE Goes(c, step, cl)
    BY <1>1, <1>4 DEF Goes, MixedInv
  <1>5. CASE Begins(c, step, cl)
    <2>1. mixed' <=> (mixed \/ Others(c) # {})
      BY <1>5 DEF Begins
    <2> QED
      BY <1>1, <1>2, <1>5, <2>1 DEF Begins, MixedInv
  <1>6. CASE Ends(c, step)
    <2>1. mixed' <=> (mixed /\ Others(c) # {})
      BY <1>6 DEF Ends
    <2> QED
      BY <1>1, <1>2, <1>6, <2>1 DEF Ends, MixedInv
  <1>7. CASE Rests(c, step)
    BY <1>1, <1>7 DEF Rests, MixedInv
  <1> QED
    BY <1>3, <1>4, <1>5, <1>6, <1>7 DEF Proceeds

LEMMA ChangesKept ==
    ASSUME TypeInv, MixedInv, ChangesInv, NEW c \in Calls, NEW step \in Steps, NEW cl,
           pc' = [pc EXCEPT ![c] = step], call' = [call EXCEPT ![c] = cl], Proceeds(c, step, cl)
    PROVE  ChangesInv' /\ due' \in Owed
  <1>1. /\ pc'[c] = step /\ \A d \in Calls \ {c} : pc'[d] = pc[d]
        /\ call'[c] = cl /\ \A d \in Calls \ {c} : call'[d] = call[d]
        /\ mixed \in BOOLEAN /\ due \in Owed
    BY DEF TypeInv
  <1>2. Others(c) # {} <=> \E d \in Calls \ {c} : pc[d] \notin Resting
    BY DEF Others
  <1>3. CASE Goes(c, step, cl)
    <2>1. mixed' = mixed /\ due' = due
      BY <1>3 DEF Goes
    <2>2. ASSUME ~mixed
          PROVE  /\ \A d \in Calls \ {c} : pc[d] \in Resting
                 /\ step \notin Resting /\ AloneOK(step, cl, names', data', due)
      BY <1>3, <2>2 DEF Goes, MixedInv
    <2> QED
      BY <1>1, <2>1, <2>2 DEF ChangesInv
  <1>4. CASE Begins(c, step, cl)
    <2>1. due' = due /\ (mixed' <=> (mixed \/ Others(c) # {})) /\ step \notin Resting
      BY <1>4 DEF Begins
    <2>2. ASSUME ~mixed'
          PROVE  /\ \A d \in Calls \ {c} : pc[d] \in Resting
                 /\ AloneOK(step, cl, names', data', due)
      <3>1. ~mixed /\ \A d \in Calls : pc[d] \in Resting
        BY <1>2, <1>4, <2>1, <2>2 DEF Begins
      <3> QED
        BY <1>4, <3>1 DEF Begins, ChangesInv
    <2> QED
      BY <1>1, <2>1, <2>2 DEF ChangesInv
  <1>5. CASE Ends(c, step)
    <2>1. (mixed' <=> (mixed /\ Others(c) # {})) /\ step \in Resting /\ pc[c] \notin Resting
      BY <1>5 DEF Ends
    <2>2. PICK owed \in Owed : /\ due' = IF mixed THEN AllAnything ELSE owed
                               /\ ~mixed => Fits(owed, ReadIn(names', data', "file"))
      BY <1>5 DEF Ends
    <2>3. due' \in Owed
      BY <2>2, AnythingFits
    <2>4. Fits(due', ReadIn(names', data', "file"))
      BY <2>2, AnythingFits
    <2>5. ~mixed' => \A d \in Calls : pc'[d] \in Resting
      BY <1>1, <1>2, <2>1 DEF MixedInv
    <2> QED
      BY <2>3, <2>4, <2>5 DEF ChangesInv
  <1>6. CASE Rests(c, step)
    <2>1. pc[c] \in Resting /\ step \in Resting /\ mixed' = mixed /\ due' = due
          /\ names' = names /\ data' = data
      BY <1>6 DEF Rests
    <2> QED
      BY <1>1, <2>1 DEF ChangesInv
  <1> QED
    BY <1>3, <1>4, <1>5, <1>6 DEF Proceeds

LEMMA InstallsKept ==
    ASSUME TypeInv, InstallsInv, NEW c \in Calls, NEW step \in Steps, NEW cl,
           pc' = [pc EXCEPT ![c] = step], call' = [call EXCEPT ![c] = cl], scene' = scene,
           KeepsInstalls(c, step, cl), call \in [Calls -> Call]
    PROVE  InstallsInv'
  <1>1. /\ pc'[c] = step /\ \A d \in Calls \ {c} : pc'[d] = pc[d]
        /\ call'[c] = cl /\ \A d \in Calls \ {c} : call'[d] = call[d]
    BY DEF TypeInv
  <1> SUFFICES ASSUME OnlyInstalls
               PROVE  /\ \A n \in Nodes : ListsInstalled(data'[n], installed')
                      /\ \A d \in Calls : CallLists(pc'[d], call'[d], installed')
                      /\ \A d \in Requests : pc'[d] = "idle"
    BY DEF InstallsInv, OnlyInstalls
  <1>2. /\ c \in Installs
        /\ \A e \in Entries : installed[e] # Unset => installed'[e] # Unset
        /\ \A n \in Nodes : ListsInstalled(data'[n], installed')
        /\ CallLists(step, cl, installed')
    BY DEF KeepsInstalls
  <1>3. ASSUME NEW d \in Calls \ {c}
        PROVE  CallLists(pc'[d], call'[d], installed')
    <2>1. CallLists(pc[d], call[d], installed) /\ call[d].entry \in Entries
      BY DEF InstallsInv, Call
    <2> QED
      BY <1>1, <1>2, <2>1 DEF CallLists, ListsInstalled
  <1>4. \A d \in Requests : pc'[d] = "idle"
    BY <1>1, <1>2, FilesAssumption DEF InstallsInv, Calls
  <1> QED
    BY <1>1, <1>2, <1>3, <1>4

\* A step of a call.
LEMMA CallStep ==
    ASSUME FilesInvariant, NEW c \in Calls, NEW step \in Steps, NEW cl \in Call,
           pc' = [pc EXCEPT ![c] = step], call' = [call EXCEPT ![c] = cl], StepOK(c, step, cl),
           NamesOK(names'), data' \in [Nodes -> Contents \cup {Cut}],
           installed' \in [Entries -> Values \cup {Unset}],
           dequeued' \in [Installs -> 0..MaxDequeues], scene' = scene,
           calls' \in 0..MaxCalls, breaks' \in 0..MaxBreaks,
           KeepsInstalls(c, step, cl), Proceeds(c, step, cl)
    PROVE  FilesInvariant'
  <1>1. MixedInv' /\ ChangesInv' /\ InstallsInv' /\ mixed' \in BOOLEAN /\ due' \in Owed
    <2>1. TypeInv /\ MixedInv /\ ChangesInv /\ InstallsInv /\ call \in [Calls -> Call]
      BY DEF FilesInvariant, TypeInv
    <2> QED
      BY <2>1, MixedKept, ChangesKept, InstallsKept
  <1>2. TypeInv'
    <2>1. /\ pc \in [Calls -> Steps] /\ call \in [Calls -> Call] /\ scene \in Scenes
          /\ \A d \in Calls : StepOK(d, pc[d], call[d])
      BY DEF FilesInvariant, TypeInv
    <2>2. pc' \in [Calls -> Steps] /\ call' \in [Calls -> Call]
      BY <2>1
    <2>3. \A d \in Calls : StepOK(d, pc'[d], call'[d])
      BY <2>1
    <2> QED
      BY <1>1, <2>1, <2>2, <2>3 DEF TypeInv
  <1> QED
    BY <1>1, <1>2 DEF FilesInvariant

-----------------------------------------------------------------------------
(* The file system. *)

LEMMA PathsCount ==
    IsFiniteSet(Paths) /\ Cardinality(Paths) = 4
  <1>1. IsFiniteSet({}) /\ Cardinality({}) = 0
    BY FS_EmptySet
  <1>2. IsFiniteSet({"file"}) /\ Cardinality({"file"}) = 1
    BY FS_Singleton
  <1>3. IsFiniteSet({"file"} \cup {"temp"}) /\ Cardinality({"file"} \cup {"temp"}) = 2
    BY <1>2, FS_AddElement
  <1>4. /\ IsFiniteSet({"file", "temp"} \cup {"aside"})
        /\ Cardinality({"file", "temp"} \cup {"aside"}) = 3
    <2>1. {"file"} \cup {"temp"} = {"file", "temp"} /\ "aside" \notin {"file", "temp"}
      OBVIOUS
    <2> QED
      BY <1>3, <2>1, FS_AddElement
  <1>5. /\ IsFiniteSet({"file", "temp", "aside"} \cup {"asideTemp"})
        /\ Cardinality({"file", "temp", "aside"} \cup {"asideTemp"}) = 4
    <2>1. {"file", "temp"} \cup {"aside"} = {"file", "temp", "aside"}
          /\ "asideTemp" \notin {"file", "temp", "aside"}
      OBVIOUS
    <2> QED
      BY <1>4, <2>1, FS_AddElement
  <1>6. Paths = {"file", "temp", "aside"} \cup {"asideTemp"}
    BY DEF Paths
  <1> QED
    BY <1>5, <1>6

\* There is a node for a new file.
LEMMA NodeLeft ==
    ASSUME TypeInv, NEW path \in Paths, names[path] = None
    PROVE  Free # {}
  <1> DEFINE rest == Paths \ {path}
             held == [d \in Calls |-> call[d].node]
             named == [p \in rest |-> names[p]]
             U == Range(named) \cup Range(held)
  <1>1. IsFiniteSet(rest) /\ Cardinality(rest) = 3
    BY PathsCount, FS_RemoveElement
  <1>2. IsFiniteSet(Range(named)) /\ Cardinality(Range(named)) <= 3
    <2>1. named \in Surjection(rest, Range(named))
      BY DEF Surjection, Range
    <2> HIDE DEF named, rest
    <2> QED
      BY <1>1, <2>1, FS_Surjection
  <1>3. IsFiniteSet(Range(held)) /\ Cardinality(Range(held)) <= Cardinality(Calls)
    <2>1. held \in Surjection(Calls, Range(held))
      BY DEF Surjection, Range
    <2> HIDE DEF held
    <2> QED
      BY <2>1, FilesAssumption, FS_Surjection
  <1>4. IsFiniteSet(U) /\ Cardinality(U) <= 3 + Cardinality(Calls)
    <2> DEFINE A == Range(named)
               B == Range(held)
    <2>1. IsFiniteSet(A \cup B) /\ Cardinality(A \cup B) = Cardinality(A) + Cardinality(B) - Cardinality(A \cap B)
      BY <1>2, <1>3, FS_Union
    <2>2. IsFiniteSet(A \cap B)
      BY <1>2, FS_Subset
    <2>3. Cardinality(A) \in Nat /\ Cardinality(B) \in Nat /\ Cardinality(A \cap B) \in Nat
          /\ Cardinality(Calls) \in Nat
      BY <1>2, <1>3, <2>2, FilesAssumption, FS_CardinalityType
    <2> HIDE DEF A, B
    <2>4. IsFiniteSet(A \cup B) /\ Cardinality(A \cup B) <= 3 + Cardinality(Calls)
      BY <1>2, <1>3, <2>1, <2>3 DEF A, B
    <2> QED
      BY <2>4 DEF A, B
  <1>5. ASSUME Free = {}
        PROVE  Nodes \subseteq U
    <2> SUFFICES ASSUME NEW n \in Nodes
                 PROVE  n \in U
      OBVIOUS
    <2>1. n \in Range(names) \/ n \in Open
      BY <1>5 DEF Free
    <2>2. CASE n \in Range(names)
      <3>1. PICK p \in Paths : n = names[p]
        BY <2>2 DEF Range, TypeInv, NamesOK
      <3>2. p \in rest
        BY <3>1, FilesAssumption
      <3>3. named[p] = n /\ DOMAIN named = rest
        BY <3>1, <3>2
      <3> QED
        BY <3>2, <3>3 DEF Range
    <2>3. CASE n \in Open
      <3>1. PICK d \in Calls : n = call[d].node
        BY <2>3 DEF Open
      <3>2. held[d] = n /\ DOMAIN held = Calls
        BY <3>1
      <3> QED
        BY <3>2 DEF Range
    <2> QED
      BY <2>1, <2>2, <2>3
  <1> HIDE DEF U
  <1>6. Cardinality(U) \in Nat /\ Cardinality(Nodes) \in Nat /\ Cardinality(Calls) \in Nat
    BY <1>4, FilesAssumption, FS_CardinalityType
  <1>7. Nodes \subseteq U => Cardinality(Nodes) <= Cardinality(U)
    BY <1>4, FS_Subset
  <1> QED
    BY <1>4, <1>5, <1>6, <1>7, FilesAssumption

\* Opening a file to write it: its node has no other name, and is empty.
LEMMA TruncateDoes ==
    ASSUME TypeInv, NEW c \in Calls, NEW path \in Paths, Truncate(c, path)
    PROVE  \E n \in Nodes :
              /\ call' = [call EXCEPT ![c] = [call[c] EXCEPT !.node = n]]
              /\ n # None /\ NamesOK(names') /\ names'[path] = n
              /\ data' \in [Nodes -> Contents \cup {Cut}] /\ data'[n] = Cut
              /\ \A m \in Nodes : data'[m] \in {Cut, data[m]}
              /\ \A p \in Paths \ {path} : /\ names'[p] = names[p]
                                           /\ ReadIn(names', data', p) = ReadIn(names, data, p)
  <1> DEFINE n == IF Exists(path) THEN names[path] ELSE CHOOSE m \in Free : TRUE
  <1>1. /\ names' = [names EXCEPT ![path] = n] /\ data' = [data EXCEPT ![n] = Cut]
        /\ call' = [call EXCEPT ![c].node = n]
    BY DEF Truncate
  <1>2. /\ names \in [Paths -> Nodes \cup {None}] /\ data \in [Nodes -> Contents \cup {Cut}]
        /\ \A p, q \in Paths : (p # q /\ names[p] # None) => names[p] # names[q]
    BY DEF TypeInv, NamesOK
  <1>3. n \in Nodes /\ \A p \in Paths \ {path} : names[p] # n
    <2>1. CASE Exists(path)
      BY <1>2, <2>1 DEF Exists
    <2>2. CASE ~Exists(path)
      <3>1. n \in Free
        BY <2>2, NodeLeft DEF Exists
      <3>2. \A p \in Paths : names[p] \in Range(names)
        BY <1>2 DEF Range
      <3> QED
        BY <3>1, <3>2 DEF Free
    <2> QED
      BY <2>1, <2>2
  <1> HIDE DEF n
  <1>4. n # None
    BY <1>3, FilesAssumption
  <1>5. /\ names'[path] = n /\ \A p \in Paths \ {path} : names'[p] = names[p]
        /\ data'[n] = Cut /\ \A m \in Nodes \ {n} : data'[m] = data[m]
        /\ names' \in [Paths -> Nodes \cup {None}] /\ data' \in [Nodes -> Contents \cup {Cut}]
    BY <1>1, <1>2, <1>3
  <1>6. NamesOK(names')
    BY <1>2, <1>3, <1>5 DEF NamesOK
  <1>7. \A p \in Paths \ {path} : ReadIn(names', data', p) = ReadIn(names, data, p)
    BY <1>2, <1>3, <1>5 DEF ReadIn
  <1>8. call' = [call EXCEPT ![c] = [call[c] EXCEPT !.node = n]]
    BY <1>1
  <1> QED
    BY <1>3, <1>4, <1>5, <1>6, <1>7, <1>8

\* Writing to an open file: an empty file with a name has the contents then.
LEMMA PutDoes ==
    ASSUME TypeInv, NEW c \in Calls, call[c].node \in Nodes, NEW contents \in Contents,
           Put(c, contents)
    PROVE  /\ data' \in [Nodes -> Contents \cup {Cut}]
           /\ \A m \in Nodes : data'[m] = data[m] \/ (m = call[c].node /\ data'[m] \in {Cut, contents})
           /\ \A p \in Paths : names[p] = call[c].node /\ data[call[c].node] = Cut =>
                 data'[call[c].node] = contents
  <1> DEFINE n == call[c].node
  <1>1. data \in [Nodes -> Contents \cup {Cut}] /\ names \in [Paths -> Nodes \cup {None}]
    BY DEF TypeInv, NamesOK
  <1>2. CASE n \in Range(names)
    <2>1. PICK bytes \in {contents} \cup ({Cut} \ {data[n]}) :
             data' = [data EXCEPT ![n] = IF @ = Cut THEN contents ELSE bytes]
      BY <1>2 DEF Put
    <2>2. /\ data'[n] = (IF data[n] = Cut THEN contents ELSE bytes)
          /\ \A m \in Nodes \ {n} : data'[m] = data[m]
          /\ bytes \in {contents, Cut}
      BY <1>1, <2>1
    <2> QED
      BY <1>1, <2>1, <2>2
  <1>3. CASE n \notin Range(names)
    <2>1. data' = data
      BY <1>3 DEF Put
    <2>2. \A p \in Paths : names[p] # n
      BY <1>1, <1>3 DEF Range
    <2> QED
      BY <1>1, <2>1, <2>2
  <1> QED
    BY <1>2, <1>3

\* Taking a name away, or giving its file another.
LEMMA KeepDoes ==
    ASSUME TypeInv, NamesOK(names'), Keep
    PROVE  /\ data' \in [Nodes -> Contents \cup {Cut}]
           /\ \A m \in Nodes : data'[m] \in {Cut, data[m]}
           /\ \A p \in Paths : names'[p] # None => data'[names'[p]] = data[names'[p]]
  <1>1. data \in [Nodes -> Contents \cup {Cut}] /\ names' \in [Paths -> Nodes \cup {None}]
    BY DEF TypeInv, NamesOK
  <1>2. data' = [n \in Nodes |-> IF n \in Range(names') THEN data[n] ELSE Cut]
    BY DEF Keep
  <1>3. \A p \in Paths : names'[p] \in Range(names')
    BY <1>1 DEF Range
  <1> QED
    BY <1>1, <1>2, <1>3

-----------------------------------------------------------------------------
(* Calls that end, and calls of the web where only installs change the file. *)

BoundsOK ==
    /\ dequeued' \in [Installs -> 0..MaxDequeues] /\ scene' = scene
    /\ calls' \in 0..MaxCalls /\ breaks' \in 0..MaxBreaks

LEMMA BoundsStay ==
    ASSUME TypeInv
    PROVE  /\ UNCHANGED <<dequeued, bounds>> => BoundsOK
           /\ UNCHANGED <<dequeued, scene, breaks>> /\ Counted => BoundsOK
  <1>1. calls \in 0..MaxCalls /\ MaxCalls \in Nat
    BY FilesAssumption DEF TypeInv
  <1>2. Counted => calls' \in 0..MaxCalls
    BY <1>1 DEF Counted
  <1> QED
    BY <1>2 DEF BoundsOK, bounds, TypeInv

LEMMA CallType ==
    ASSUME TypeInv, NEW c \in Calls
    PROVE  /\ call[c] \in Call /\ pc[c] \in Steps /\ StepOK(c, pc[c], call[c])
           /\ call \in [Calls -> Call] /\ pc \in [Calls -> Steps]
           /\ c \in Requests \/ c \in Installs
  BY DEF TypeInv, Calls

LEMMA NoWebWhileInstalls ==
    ASSUME FilesInvariant, NEW c \in Calls
    PROVE  /\ pc[c] \in WebSteps => c \in Requests /\ ~OnlyInstalls
           /\ pc[c] # "idle" /\ call[c].kind \in WebKinds => c \in Requests /\ ~OnlyInstalls
           /\ scene.kinds \cap WebKinds # {} => ~OnlyInstalls
  <1>1. StepOK(c, pc[c], call[c])
    BY CallType DEF FilesInvariant
  <1>2. ~OnlyInstalls \/ \A d \in Requests : pc[d] = "idle"
    BY DEF FilesInvariant, InstallsInv
  <1>3. pc[c] \in WebSteps => c \in Requests /\ pc[c] # "idle"
    BY <1>1 DEF StepOK, WebSteps
  <1>4. call[c].kind \in WebKinds => c \in Requests
    BY <1>1 DEF StepOK
  <1>5. WebKinds \cap PackageKinds = {}
    BY DEF WebKinds, PackageKinds
  <1> QED
    BY <1>2, <1>3, <1>4, <1>5 DEF OnlyInstalls

\* The file while nobody else was at work.
LEMMA AloneHolds ==
    ASSUME FilesInvariant, NEW c \in Calls, pc[c] \notin Resting, ~mixed
    PROVE  AloneOK(pc[c], call[c], names, data, due)
  BY DEF FilesInvariant, ChangesInv

\* What a call leaves in its message when it is put back.
Requeued(cl) == [cl EXCEPT !.node = None, !.base = None, !.listed = FALSE]

LEMMA RequeuedType ==
    ASSUME NEW cl \in Call
    PROVE  /\ Requeued(cl) \in Call /\ Requeued(cl).node = None /\ Requeued(cl).base = None
           /\ Requeued(cl).kind = cl.kind
  BY DEF Requeued, Call

LEMMA BlankLists ==
    ASSUME NEW inst, NEW bytes \in {None, Cut}
    PROVE  ListsInstalled(bytes, inst)
  BY DEF ListsInstalled, Parsed, Blank

\* A call ends: it answers, refuses, breaks or is put back.
LEMMA EndStep ==
    ASSUME FilesInvariant, NEW c \in Calls, pc[c] \notin Resting, BoundsOK,
           NEW owed \in Owed, ~mixed => Fits(owed, ReadIn(names', data', "file")),
           \/ Answer(c, owed)
           \/ /\ c \in Installs /\ Finish(c, "queued", owed)
              /\ call' = [call EXCEPT ![c] = Requeued(call[c])],
           NamesOK(names'), data' \in [Nodes -> Contents \cup {Cut}],
           installed' \in [Entries -> Values \cup {Unset}],
           OnlyInstalls => /\ c \in Installs
                           /\ \A e \in Entries : installed[e] # Unset => installed'[e] # Unset
                           /\ \A n \in Nodes : ListsInstalled(data'[n], installed')
    PROVE  FilesInvariant'
  <1>1. PICK step \in {"idle", "queued"}, cl \in {NoCall, Requeued(call[c])} :
           /\ step = "idle" <=> cl = NoCall
           /\ step = "queued" => c \in Installs
           /\ Finish(c, step, owed) /\ call' = [call EXCEPT ![c] = cl]
    <2>1. CASE Answer(c, owed)
      BY <2>1 DEF Answer
    <2>2. CASE ~Answer(c, owed)
      <3>1. Requeued(call[c]) # NoCall
        <4>1. call[c].kind # "none"
          BY CallType DEF FilesInvariant, StepOK, Resting
        <4> QED
          BY <4>1, CallType, RequeuedType, NoCallType DEF FilesInvariant
      <3> QED
        BY <2>2, <3>1
    <2> QED
      BY <2>1, <2>2
  <1>2. /\ call[c] \in Call /\ pc[c] \in Steps /\ StepOK(c, pc[c], call[c])
    BY CallType DEF FilesInvariant
  <1>3. /\ cl \in Call /\ cl.node = None /\ cl.base = None
        /\ cl.kind = "none" \/ (cl.kind = call[c].kind /\ step = "queued")
    BY <1>1, <1>2, RequeuedType, NoCallType
  <1>4. StepOK(c, step, cl)
    <2>1. call[c].kind # "none"
      BY <1>2 DEF StepOK, Resting
    <2>2. "none" \notin WebKinds /\ "none" \notin PackageKinds /\ "idle" \notin WebSteps \cup PackageSteps
          /\ "queued" \notin WebSteps
      BY DEF WebKinds, PackageKinds, WebSteps, PackageSteps
    <2>3. step # "idle" => cl.kind # "none"
      BY <1>1, <1>2, <2>1, RequeuedType
    <2>4. /\ cl.kind \in WebKinds => c \in Requests
          /\ cl.kind \in PackageKinds => c \in Installs
      BY <1>2, <1>3, <2>2 DEF StepOK
    <2> QED
      BY <1>1, <1>3, <2>2, <2>3, <2>4 DEF StepOK
  <1>5. step \in Steps /\ step \in Resting /\ pc' = [pc EXCEPT ![c] = step]
    BY <1>1 DEF Steps, Resting, Finish
  <1>6. KeepsInstalls(c, step, cl)
    <2>1. ListsInstalled(cl.base, installed') /\ step \notin {"append", "merge", "write"}
      BY <1>1, <1>3, BlankLists
    <2> QED
      BY <2>1 DEF KeepsInstalls, CallLists
  <1>7. Ends(c, step)
    BY <1>1, <1>5 DEF Ends, Finish, AllAnything
  <1> QED
    BY <1>1, <1>3, <1>4, <1>5, <1>6, <1>7, CallStep DEF BoundsOK, Proceeds

\* A call ends and leaves the file as it was.
LEMMA LeaveStep ==
    ASSUME FilesInvariant, NEW c \in Calls, pc[c] \notin Resting, pc[c] # "write", BoundsOK,
           \/ Refuse(c)
           \/ /\ c \in Installs /\ Finish(c, "queued", due)
              /\ call' = [call EXCEPT ![c] = Requeued(call[c])],
           NamesOK(names'), data' \in [Nodes -> Contents \cup {Cut}],
           \A m \in Nodes : data'[m] \in {Cut, data[m]},
           ReadIn(names', data', "file") = ReadIn(names, data, "file"),
           UNCHANGED installed
    PROVE  FilesInvariant'
  <1>1. due \in Owed /\ installed \in [Entries -> Values \cup {Unset}]
    BY DEF FilesInvariant, TypeInv
  <1>2. ~mixed => Fits(due, ReadIn(names', data', "file"))
    BY AloneHolds DEF AloneOK
  <1>3. ASSUME OnlyInstalls
        PROVE  /\ c \in Installs
               /\ \A n \in Nodes : ListsInstalled(data'[n], installed')
    <2>1. pc[c] # "idle"
      BY DEF Resting
    <2>2. c \in Installs
      BY <1>3, <2>1, CallType DEF FilesInvariant, InstallsInv
    <2>3. \A n \in Nodes : ListsInstalled(data[n], installed)
      BY <1>3 DEF FilesInvariant, InstallsInv
    <2> QED
      BY <2>2, <2>3, BlankLists
  <1> QED
    BY <1>1, <1>2, <1>3, EndStep DEF Refuse

\* The same, when no file changes at all.
LEMMA LeaveQuietly ==
    ASSUME FilesInvariant, NEW c \in Calls, pc[c] \notin Resting, pc[c] # "write", BoundsOK,
           \/ Refuse(c)
           \/ /\ c \in Installs /\ Finish(c, "queued", due)
              /\ call' = [call EXCEPT ![c] = Requeued(call[c])],
           UNCHANGED fileVars
    PROVE  FilesInvariant'
  <1>1. names' = names /\ data' = data /\ installed' = installed
    BY DEF fileVars
  <1>2. NamesOK(names) /\ data \in [Nodes -> Contents \cup {Cut}]
    BY DEF FilesInvariant, TypeInv
  <1> QED
    BY <1>1, <1>2, LeaveStep

\* A request goes on, and no file changes.
LEMMA WebGoes ==
    ASSUME FilesInvariant, NEW c \in Calls, ~OnlyInstalls, NEW step \in Steps, NEW cl \in Call,
           BoundsOK, UNCHANGED fileVars, StepOK(c, step, cl), Proceeds(c, step, cl),
           pc' = [pc EXCEPT ![c] = step], call' = [call EXCEPT ![c] = cl]
    PROVE  FilesInvariant'
  <1>1. names' = names /\ data' = data /\ installed' = installed
    BY DEF fileVars
  <1>2. NamesOK(names') /\ data' \in [Nodes -> Contents \cup {Cut}]
        /\ installed' \in [Entries -> Values \cup {Unset}]
    BY <1>1 DEF FilesInvariant, TypeInv
  <1>3. KeepsInstalls(c, step, cl)
    BY DEF KeepsInstalls
  <1> QED
    BY <1>2, <1>3, CallStep DEF BoundsOK

-----------------------------------------------------------------------------
(* Requests that come and look. *)

\* A new request for kind.
NewCall(cl, kind) ==
    cl \in Call /\ cl.kind = kind /\ cl.node = None /\ cl.base = None /\ cl.path = "file"

LEMMA NewCallType ==
    ASSUME NEW kind \in Kinds, NEW e \in Entries, NEW v \in Values \cup {Unset}
    PROVE  /\ NewCall([NoCall EXCEPT !.kind = kind, !.entry = e, !.value = v], kind)
           /\ NewCall([NoCall EXCEPT !.kind = kind], kind)
  BY NoCallType DEF Call, NewCall

\* The request c for kind arrives at step.
LEMMA ArriveStep ==
    ASSUME FilesInvariant, NEW c \in Calls, NEW kind \in WebKinds, NEW step \in WebSteps,
           Arrive(c, kind, step) \/ ArriveFor(c, kind, step),
           step \in {"open", "find", "rename", "move"},
           step = "open" => kind \in {"overwrite", "create"}
    PROVE  FilesInvariant'
  <1>1. /\ c \in Requests /\ pc[c] = "idle" /\ kind \in scene.kinds /\ Begin(c, step) /\ BoundsOK
        /\ UNCHANGED <<names, data, installed, due>>
    BY BoundsStay DEF Arrive, ArriveFor, fileVars, FilesInvariant
  <1>2. kind \in Kinds
    BY DEF WebKinds, Kinds
  <1>3. PICK cl : call' = [call EXCEPT ![c] = cl] /\ NewCall(cl, kind)
    <2>1. CASE Arrive(c, kind, step)
      <3>1. PICK e \in Entries, v \in Values :
               call' = [call EXCEPT ![c] = [NoCall EXCEPT !.kind = kind, !.entry = e, !.value = v]]
        BY <2>1 DEF Arrive
      <3> QED
        BY <3>1, <1>2, NewCallType
    <2>2. CASE ArriveFor(c, kind, step)
      <3>1. call' = [call EXCEPT ![c] = [NoCall EXCEPT !.kind = kind]]
        BY <2>2 DEF ArriveFor
      <3>2. PICK e \in Entries : TRUE
        BY FilesAssumption
      <3>3. NewCall([NoCall EXCEPT !.kind = kind], kind)
        BY <3>2, <1>2, NewCallType
      <3> QED
        BY <3>1, <3>3
    <2> QED
      BY <2>1, <2>2
  <1>4. /\ ~OnlyInstalls /\ step \in Steps /\ step \notin Resting /\ pc[c] \in Resting
        /\ pc' = [pc EXCEPT ![c] = step]
    BY <1>1, NoWebWhileInstalls DEF WebSteps, Steps, Resting, Begin
  <1>5. StepOK(c, step, cl)
    <2>1. kind \notin PackageKinds /\ kind # "none" /\ step \notin PackageSteps
          /\ kind \in WebKinds
      BY DEF WebKinds, PackageKinds, WebSteps, PackageSteps
    <2> QED
      BY <1>1, <1>3, <2>1 DEF StepOK, NewCall
  <1>6. AloneOK(step, cl, names, data, due) <=> Fits(due, ReadIn(names, data, "file"))
    BY <1>3 DEF AloneOK, NewCall
  <1>7. Begins(c, step, cl)
    BY <1>1, <1>4, <1>6 DEF Begins, Begin
  <1> QED
    BY <1>1, <1>3, <1>4, <1>5, <1>7, WebGoes DEF Proceeds, fileVars, NewCall

LEMMA ViewStep ==
    ASSUME FilesInvariant, NEW c \in Calls, View(c)
    PROVE  FilesInvariant'
  <1>1. /\ c \in Requests /\ pc[c] = "idle" /\ "save" \in scene.kinds /\ Exists("file") /\ BoundsOK
        /\ pc' = [pc EXCEPT ![c] = "viewing"] /\ UNCHANGED <<names, data, installed, due, mixed>>
    BY BoundsStay DEF View, fileVars, history, FilesInvariant
  <1>2. PICK e \in Entries, v \in Values :
           call' = [call EXCEPT ![c] = [NoCall EXCEPT !.kind = "save", !.entry = e, !.value = v,
                                                      !.base = Read("file")]]
    BY DEF View
  <1> DEFINE cl == [NoCall EXCEPT !.kind = "save", !.entry = e, !.value = v, !.base = Read("file")]
  <1>3. Read("file") \in Contents \cup {Cut, None}
    <2>1. names["file"] \in Nodes
      BY <1>1 DEF FilesInvariant, TypeInv, NamesOK, Exists, Paths
    <2> QED
      BY <1>1, <2>1 DEF FilesInvariant, TypeInv, Read
  <1>4. cl \in Call /\ cl.kind = "save" /\ cl.node = None
    <2>1. "save" \in Kinds
      BY DEF Kinds
    <2> HIDE DEF Read
    <2> QED
      BY <1>3, <2>1, NoCallType DEF Call
  <1>5. call' = [call EXCEPT ![c] = cl]
    BY <1>2
  <1> HIDE DEF cl
  <1>6. /\ ~OnlyInstalls /\ "viewing" \in Steps /\ "viewing" \in Resting
        /\ pc[c] \in Resting
    BY <1>1, NoWebWhileInstalls DEF WebKinds, Steps, Resting
  <1>7. StepOK(c, "viewing", cl)
    BY <1>1, <1>4 DEF StepOK, WebKinds, PackageKinds, WebSteps, PackageSteps
  <1>8. Rests(c, "viewing")
    BY <1>1, <1>6 DEF Rests
  <1> QED
    BY <1>1, <1>4, <1>5, <1>6, <1>7, <1>8, WebGoes DEF Proceeds, fileVars

\* A request that goes on from step to step without a change of its own.
LEMMA SameCall ==
    ASSUME TypeInv, NEW c \in Calls, call' = call
    PROVE  call' = [call EXCEPT ![c] = call[c]]
  BY DEF TypeInv

LEMMA SaveStep ==
    ASSUME FilesInvariant, NEW c \in Calls, Save(c)
    PROVE  FilesInvariant'
  <1>1. /\ pc[c] = "viewing" /\ Begin(c, "exists") /\ BoundsOK /\ call' = call
        /\ UNCHANGED fileVars /\ UNCHANGED <<names, data, due>>
    BY BoundsStay DEF Save, fileVars, FilesInvariant
  <1>2. /\ ~OnlyInstalls /\ c \in Requests /\ "exists" \in Steps /\ call[c] \in Call
        /\ StepOK(c, "viewing", call[c])
        /\ call' = [call EXCEPT ![c] = call[c]] /\ pc' = [pc EXCEPT ![c] = "exists"]
    BY <1>1, NoWebWhileInstalls, CallType, SameCall DEF WebSteps, Steps, Begin, FilesInvariant
  <1>3. StepOK(c, "exists", call[c])
    BY <1>2 DEF StepOK, WebSteps, PackageSteps
  <1>4. Begins(c, "exists", call[c])
    <2>1. Fits(due, ReadIn(names, data, "file")) => AloneOK("exists", call[c], names', data', due)
      BY <1>1 DEF AloneOK
    <2> QED
      BY <1>1, <2>1 DEF Begins, Begin, Resting
  <1> QED
    BY <1>1, <1>2, <1>3, <1>4, WebGoes DEF Proceeds

\* The request looks whether the file is there.
LEMMA CheckExistsStep ==
    ASSUME FilesInvariant, NEW c \in Calls, CheckExists(c)
    PROVE  FilesInvariant'
  <1>1. /\ pc[c] = "exists" /\ BoundsOK /\ UNCHANGED fileVars /\ UNCHANGED <<names, data>>
        /\ pc[c] \notin Resting
    BY BoundsStay DEF CheckExists, fileVars, FilesInvariant, Resting
  <1>2. CASE Refuse(c)
    BY <1>1, <1>2, LeaveQuietly
  <1>3. CASE Exists("file") /\ Goto(c, "compare") /\ UNCHANGED <<call, due>>
    <2>1. /\ ~OnlyInstalls /\ c \in Requests /\ "compare" \in Steps /\ call[c] \in Call
          /\ StepOK(c, "exists", call[c])
          /\ call' = [call EXCEPT ![c] = call[c]] /\ pc' = [pc EXCEPT ![c] = "compare"]
      BY <1>1, <1>3, NoWebWhileInstalls, CallType, SameCall
      DEF WebSteps, Steps, Goto, FilesInvariant
    <2>2. StepOK(c, "compare", call[c])
      BY <2>1 DEF StepOK, WebSteps, PackageSteps
    <2>3. ~mixed => AloneOK("compare", call[c], names', data', due)
      BY <1>1, <1>3, AloneHolds DEF AloneOK, Exists
    <2>4. Goes(c, "compare", call[c])
      BY <1>1, <1>3, <2>3 DEF Goes, Goto, Resting
    <2> QED
      BY <1>1, <2>1, <2>2, <2>4, WebGoes DEF Proceeds
  <1> QED
    BY <1>2, <1>3 DEF CheckExists

LEMMA CompareStep ==
    ASSUME FilesInvariant, NEW c \in Calls, Compare(c)
    PROVE  FilesInvariant'
  <1>1. /\ pc[c] = "compare" /\ BoundsOK /\ UNCHANGED fileVars /\ UNCHANGED <<names, data>>
        /\ pc[c] \notin Resting
    BY BoundsStay DEF Compare, fileVars, FilesInvariant, Resting
  <1>2. CASE Refuse(c)
    BY <1>1, <1>2, LeaveQuietly
  <1>3. CASE Read("file") \in {None, call[c].base} /\ Goto(c, "open") /\ UNCHANGED <<call, due>>
    <2>1. /\ ~OnlyInstalls /\ c \in Requests /\ "open" \in Steps /\ call[c] \in Call
          /\ StepOK(c, "compare", call[c])
          /\ call' = [call EXCEPT ![c] = call[c]] /\ pc' = [pc EXCEPT ![c] = "open"]
      BY <1>1, <1>3, NoWebWhileInstalls, CallType, SameCall
      DEF WebSteps, Steps, Goto, FilesInvariant
    <2>2. StepOK(c, "open", call[c])
      BY <2>1 DEF StepOK, WebSteps, PackageSteps
    <2>3. ASSUME ~mixed
          PROVE  AloneOK("open", call[c], names', data', due)
      <3>1. AloneOK("compare", call[c], names, data, due)
        BY <1>1, <2>3, AloneHolds
      <3>2. names["file"] \in Nodes
        BY <3>1 DEF AloneOK, FilesInvariant, TypeInv, NamesOK, Paths
      <3>3. ReadIn(names, data, "file") # None /\ Read("file") = ReadIn(names, data, "file")
        <4>1. data[names["file"]] \in Contents \cup {Cut}
          BY <3>2 DEF FilesInvariant, TypeInv
        <4> QED
          BY <3>1, <3>2, <4>1, FilesAssumption DEF ReadIn, Read, Exists, AloneOK
      <3>4. Fits(due, ReadIn(names, data, "file")) /\ call[c].base = ReadIn(names, data, "file")
        BY <1>3, <3>1, <3>3 DEF AloneOK
      <3> QED
        BY <1>1, <3>4 DEF AloneOK
    <2>4. Goes(c, "open", call[c])
      BY <1>1, <1>3, <2>3 DEF Goes, Goto, Resting
    <2> QED
      BY <1>1, <2>1, <2>2, <2>4, WebGoes DEF Proceeds
  <1> QED
    BY <1>2, <1>3 DEF Compare

\* What a path holds, and a read of it.
LEMMA ReadType ==
    ASSUME FilesInvariant, NEW path \in Paths
    PROVE  /\ Read(path) = ReadIn(names, data, path) /\ Read(path) \in Contents \cup {Cut, None}
           /\ OnlyInstalls => ListsInstalled(Read(path), installed)
  <1>1. Read(path) = ReadIn(names, data, path)
    BY DEF Read, ReadIn, Exists
  <1>2. CASE names[path] = None
    BY <1>1, <1>2, BlankLists DEF ReadIn
  <1>3. CASE names[path] # None
    <2>1. names[path] \in Nodes /\ ReadIn(names, data, path) = data[names[path]]
      BY <1>3 DEF FilesInvariant, TypeInv, NamesOK, ReadIn
    <2>2. data[names[path]] \in Contents \cup {Cut}
      BY <2>1 DEF FilesInvariant, TypeInv
    <2>3. OnlyInstalls => ListsInstalled(data[names[path]], installed)
      BY <2>1 DEF FilesInvariant, InstallsInv
    <2> QED
      BY <1>1, <2>1, <2>2, <2>3
  <1> QED
    BY <1>2, <1>3

LEMMA FindStep ==
    ASSUME FilesInvariant, NEW c \in Calls, Find(c)
    PROVE  FilesInvariant'
  <1>1. /\ pc[c] = "find" /\ BoundsOK /\ UNCHANGED fileVars /\ UNCHANGED <<names, data>>
        /\ pc[c] \notin Resting
    BY BoundsStay DEF Find, fileVars, FilesInvariant, Resting
  <1>2. CASE Refuse(c)
    BY <1>1, <1>2, LeaveQuietly
  <1>3. ASSUME NEW p \in Found, call' = [call EXCEPT ![c].path = p], Goto(c, "load"), UNCHANGED due
        PROVE  FilesInvariant'
    <2> DEFINE cl == [call[c] EXCEPT !.path = p]
    <2>1. /\ ~OnlyInstalls /\ c \in Requests /\ "load" \in Steps /\ call[c] \in Call
          /\ StepOK(c, "find", call[c]) /\ pc' = [pc EXCEPT ![c] = "load"]
      BY <1>1, <1>3, NoWebWhileInstalls, CallType DEF WebSteps, Steps, Goto, FilesInvariant
    <2>2. p \in {"file", "aside"}
      BY DEF Found
    <2>3. cl \in Call /\ cl.kind = call[c].kind /\ cl.node = call[c].node /\ cl.path = p
      BY <2>1, <2>2 DEF Call, Paths
    <2>4. call' = [call EXCEPT ![c] = cl]
      BY <1>3
    <2> HIDE DEF cl
    <2>5. StepOK(c, "load", cl)
      BY <2>1, <2>2, <2>3 DEF StepOK, WebSteps, PackageSteps
    <2>6. ~mixed => AloneOK("load", cl, names', data', due)
      BY <1>1, AloneHolds DEF AloneOK
    <2>7. Goes(c, "load", cl)
      BY <1>1, <1>3, <2>6 DEF Goes, Goto, Resting
    <2> QED
      BY <1>1, <2>1, <2>3, <2>4, <2>5, <2>7, WebGoes DEF Proceeds
  <1> QED
    BY <1>2, <1>3 DEF Find

LEMMA LoadStep ==
    ASSUME FilesInvariant, NEW c \in Calls, Load(c)
    PROVE  FilesInvariant'
  <1>1. /\ pc[c] = "load" /\ BoundsOK /\ UNCHANGED fileVars /\ UNCHANGED <<names, data>>
        /\ pc[c] \notin Resting
    BY BoundsStay DEF Load, fileVars, FilesInvariant, Resting
  <1>2. CASE Refuse(c)
    BY <1>1, <1>2, LeaveQuietly
  <1>3. CASE call' = [call EXCEPT ![c].base = Read(call[c].path)] /\ Goto(c, "openTemp") /\ UNCHANGED due
    <2> DEFINE cl == [call[c] EXCEPT !.base = Read(call[c].path)]
    <2>1. /\ ~OnlyInstalls /\ c \in Requests /\ "openTemp" \in Steps /\ call[c] \in Call
          /\ StepOK(c, "load", call[c]) /\ pc' = [pc EXCEPT ![c] = "openTemp"]
      BY <1>1, <1>3, NoWebWhileInstalls, CallType DEF WebSteps, Steps, Goto, FilesInvariant
    <2>2. call[c].path \in {"file", "aside"} /\ call[c].path \in Paths
      BY <2>1 DEF StepOK, Paths
    <2>3. /\ cl \in Call /\ cl.kind = call[c].kind /\ cl.node = call[c].node
          /\ cl.path = call[c].path /\ cl.base = Read(call[c].path)
      BY <2>1, <2>2, ReadType DEF Call
    <2>4. call' = [call EXCEPT ![c] = cl]
      BY <1>3
    <2> HIDE DEF cl
    <2>5. StepOK(c, "openTemp", cl)
      BY <2>1, <2>2, <2>3 DEF StepOK, WebSteps, PackageSteps
    <2>6. ~mixed => AloneOK("openTemp", cl, names', data', due)
      BY <1>1, <2>2, <2>3, AloneHolds, ReadType DEF AloneOK
    <2>7. Goes(c, "openTemp", cl)
      BY <1>1, <1>3, <2>6 DEF Goes, Goto, Resting
    <2> QED
      BY <1>1, <2>1, <2>3, <2>4, <2>5, <2>7, WebGoes DEF Proceeds
  <1> QED
    BY <1>2, <1>3 DEF Load

-----------------------------------------------------------------------------
(* Requests that write. *)

\* What a call owes is what it writes.
LEMMA OwingFits ==
    ASSUME FilesInvariant, NEW c \in Calls
    PROVE  /\ Changed(c) = ChangedBy(call[c]) /\ Changed(c) \in Contents
           /\ Owing(c) \in Owed
           /\ Fits(due, call[c].base) => Fits(Owing(c), Changed(c))
  <1> DEFINE cl == call[c]
  <1>1. cl \in Call /\ due \in Owed
    BY CallType DEF FilesInvariant, TypeInv
  <1>2. Changed(c) = ChangedBy(cl)
    BY DEF Changed, ChangedBy
  <1>3. /\ cl.entry \in Entries /\ cl.value \in Values \cup {Unset}
        /\ cl.base \in Contents \cup {Cut, None}
    BY <1>1 DEF Call
  <1> HIDE DEF cl
  <1>4. Owing(c) \in Owed
    <2>1. \A e \in Entries : due[e] \in Values \cup {Unset, Gone, Anything}
      BY <1>1 DEF Owed
    <2> QED
      BY <1>3, <2>1 DEF Owing, Owed, cl
  <1>5. ASSUME Fits(due, cl.base)
        PROVE  Fits(Owing(c), ChangedBy(cl))
    <2>1. ChangedBy(cl) \notin {None, Cut}
      BY <1>1, ChangedType, FilesAssumption
    <2>2. ASSUME NEW e \in Entries
          PROVE  Owing(c)[e] = Anything \/ ChangedBy(cl)[e] = Owing(c)[e]
      <3>1. CASE e = cl.entry
        BY <1>1, <3>1, ChangedType DEF Owing, cl
      <3>2. CASE e # cl.entry
        <4>1. /\ Owing(c)[e] = (IF due[e] = Gone THEN Unset ELSE due[e])
              /\ ChangedBy(cl)[e] = Parsed(cl.base)[e]
          BY <1>1, <3>2, ChangedType DEF Owing, cl
        <4>2. \/ due[e] = Anything
              \/ due[e] = Gone /\ cl.base = None
              \/ cl.base \notin {None, Cut} /\ cl.base[e] = due[e]
          BY <1>5 DEF Fits
        <4>3. Gone # Anything
          BY DEF Gone, Anything
        <4>4. CASE due[e] = Gone /\ cl.base = None
          <5>1. Parsed(cl.base)[e] = Unset
            BY <1>3, <4>4, ParsedType
          <5> QED
            BY <4>1, <4>4, <5>1
        <4>5. CASE cl.base \notin {None, Cut} /\ cl.base[e] = due[e]
          <5>1. Parsed(cl.base) = cl.base /\ cl.base[e] \in Values \cup {Unset}
            BY <1>3, <4>5, ParsedType DEF Contents
          <5>2. due[e] # Gone
            BY <4>5, <5>1, FilesAssumption DEF Gone, Unset
          <5> QED
            BY <4>1, <4>5, <5>1, <5>2
        <4> QED
          BY <4>1, <4>2, <4>3, <4>4, <4>5
      <3> QED
        BY <3>1, <3>2
    <2> QED
      BY <2>1, <2>2 DEF Fits
  <1>6. ChangedBy(cl) \in Contents
    BY <1>1, ChangedType
  <1> QED
    BY <1>2, <1>4, <1>5, <1>6 DEF cl

LEMMA WholeTextFits ==
    ASSUME FilesInvariant, NEW c \in Calls
    PROVE  WholeText(c) \in Contents /\ WholeText(c) \in Owed /\ Fits(WholeText(c), WholeText(c))
  <1>1. call[c].value \in Values \cup {Unset}
    BY CallType DEF FilesInvariant, Call
  <1>2. WholeText(c) \in Contents /\ WholeText(c) \in Owed
    BY <1>1 DEF WholeText, Contents, Owed
  <1> QED
    BY <1>2, FilesAssumption DEF Fits

\* The node a writer holds.
LEMMA NodeHeld ==
    ASSUME FilesInvariant, NEW c \in Calls, pc[c] \in {"write", "writeTemp"}
    PROVE  call[c].node \in Nodes
  BY CallType DEF FilesInvariant, StepOK, Call

LEMMA WithNode ==
    ASSUME NEW cl \in Call, NEW n \in Nodes \cup {None}
    PROVE  LET cl2 == [cl EXCEPT !.node = n]
           IN  /\ cl2 \in Call /\ cl2.node = n /\ cl2.kind = cl.kind /\ cl2.path = cl.path
               /\ cl2.base = cl.base /\ cl2.entry = cl.entry /\ cl2.value = cl.value
  BY DEF Call

LEMMA OpenStep ==
    ASSUME FilesInvariant, NEW c \in Calls, OpenFile(c) \/ OpenForm(c)
    PROVE  FilesInvariant'
  <1>1. /\ pc[c] = "open" /\ Truncate(c, "file") /\ Goto(c, "write") /\ BoundsOK
        /\ installed' = installed /\ due' = due /\ pc[c] \notin Resting /\ TypeInv
    BY BoundsStay DEF OpenFile, OpenForm, FilesInvariant, Resting
  <1>2. /\ ~OnlyInstalls /\ c \in Requests /\ "write" \in Steps /\ call[c] \in Call
        /\ StepOK(c, "open", call[c]) /\ pc' = [pc EXCEPT ![c] = "write"] /\ "file" \in Paths
    BY <1>1, NoWebWhileInstalls, CallType DEF WebSteps, Steps, Goto, Paths
  <1>3. PICK n \in Nodes :
           /\ call' = [call EXCEPT ![c] = [call[c] EXCEPT !.node = n]]
           /\ n # None /\ NamesOK(names') /\ names'["file"] = n
           /\ data' \in [Nodes -> Contents \cup {Cut}] /\ data'[n] = Cut
    BY <1>1, <1>2, TruncateDoes
  <1> DEFINE cl == [call[c] EXCEPT !.node = n]
  <1>4. /\ cl \in Call /\ cl.node = n /\ cl.kind = call[c].kind /\ cl.path = call[c].path
        /\ cl.base = call[c].base
    BY <1>2, WithNode
  <1>5. call' = [call EXCEPT ![c] = cl]
    BY <1>3
  <1> HIDE DEF cl
  <1>6. StepOK(c, "write", cl)
    BY <1>2, <1>3, <1>4 DEF StepOK, WebSteps, PackageSteps
  <1>7. ~mixed => AloneOK("write", cl, names', data', due)
    <2>1. cl.kind # "install"
      BY <1>2, <1>4 DEF StepOK
    <2> QED
      BY <1>1, <1>3, <1>4, <2>1, AloneHolds DEF AloneOK
  <1>8. Goes(c, "write", cl)
    BY <1>1, <1>7 DEF Goes, Goto, Resting
  <1>9. KeepsInstalls(c, "write", cl) /\ installed' \in [Entries -> Values \cup {Unset}]
    BY <1>1, <1>2 DEF KeepsInstalls, TypeInv
  <1> QED
    BY <1>1, <1>2, <1>3, <1>4, <1>5, <1>6, <1>8, <1>9, CallStep DEF Proceeds, BoundsOK

\* A writer that owes what it writes, and ends.
LEMMA WriteStep ==
    ASSUME FilesInvariant, NEW c \in Calls, pc[c] = "write", NEW contents \in Contents,
           Put(c, contents), NEW owed \in Owed, Answer(c, owed), BoundsOK,
           ~mixed => Fits(owed, contents), UNCHANGED <<names, installed>>,
           OnlyInstalls => c \in Installs /\ ListsInstalled(contents, installed)
    PROVE  FilesInvariant'
  <1>1. call[c].node \in Nodes /\ TypeInv /\ pc[c] \notin Resting
    BY NodeHeld DEF FilesInvariant, Resting
  <1>2. /\ data' \in [Nodes -> Contents \cup {Cut}]
        /\ \A m \in Nodes : data'[m] = data[m] \/ (m = call[c].node /\ data'[m] \in {Cut, contents})
        /\ \A p \in Paths : names[p] = call[c].node /\ data[call[c].node] = Cut =>
              data'[call[c].node] = contents
    BY <1>1, PutDoes
  <1>3. ~mixed => Fits(owed, ReadIn(names', data', "file"))
    <2>1. "file" \in Paths /\ call[c].node # None
      BY <1>1, FilesAssumption DEF Paths
    <2> QED
      BY <1>1, <1>2, <2>1, AloneHolds DEF AloneOK, ReadIn
  <1>4. ASSUME OnlyInstalls, NEW n \in Nodes
        PROVE  ListsInstalled(data'[n], installed')
    <2>1. ListsInstalled(data[n], installed)
      BY <1>4 DEF FilesInvariant, InstallsInv
    <2> QED
      BY <1>2, <1>4, <2>1, BlankLists
  <1>5. NamesOK(names') /\ installed' \in [Entries -> Values \cup {Unset}]
    BY <1>1 DEF TypeInv
  <1> QED
    BY <1>1, <1>2, <1>3, <1>4, <1>5, EndStep

LEMMA WriteWebStep ==
    ASSUME FilesInvariant, NEW c \in Calls, WriteFile(c) \/ WriteForm(c)
    PROVE  FilesInvariant'
  <1>1. /\ pc[c] = "write" /\ call[c].kind \in {"save", "overwrite", "create"} /\ BoundsOK
        /\ UNCHANGED <<names, installed>> /\ pc[c] \notin Resting /\ TypeInv
    BY BoundsStay DEF WriteFile, WriteForm, FilesInvariant, Resting
  <1>2. ~OnlyInstalls
    BY <1>1, NoWebWhileInstalls DEF WebKinds
  <1>3. CASE call[c].kind = "save"
    <2>1. Put(c, Changed(c)) /\ Answer(c, Owing(c))
      BY <1>3 DEF WriteFile, WriteForm, Text
    <2>2. ~mixed => Fits(due, call[c].base)
      BY <1>1, <1>3, AloneHolds DEF AloneOK
    <2> QED
      BY <1>1, <1>2, <2>1, <2>2, OwingFits, WriteStep
  <1>4. CASE call[c].kind # "save"
    <2>1. Put(c, WholeText(c)) /\ Answer(c, WholeText(c))
      BY <1>4 DEF WriteFile, WriteForm, Text
    <2> QED
      BY <1>1, <1>2, <2>1, WholeTextFits, WriteStep
  <1> QED
    BY <1>3, <1>4

LEMMA OpenTempStep ==
    ASSUME FilesInvariant, NEW c \in Calls, OpenTemp(c)
    PROVE  FilesInvariant'
  <1> DEFINE temp == TempOf(call[c].path)
  <1>1. /\ pc[c] = "openTemp" /\ Truncate(c, temp) /\ Goto(c, "writeTemp") /\ BoundsOK
        /\ installed' = installed /\ due' = due /\ pc[c] \notin Resting /\ TypeInv
    BY BoundsStay DEF OpenTemp, FilesInvariant, Resting
  <1>2. /\ ~OnlyInstalls /\ c \in Requests /\ "writeTemp" \in Steps /\ call[c] \in Call
        /\ StepOK(c, "openTemp", call[c]) /\ pc' = [pc EXCEPT ![c] = "writeTemp"]
    BY <1>1, NoWebWhileInstalls, CallType DEF WebSteps, Steps, Goto
  <1>3. temp \in Paths /\ temp # "file" /\ "file" \in Paths
    BY DEF TempOf, Paths
  <1> HIDE DEF temp
  <1>4. PICK n \in Nodes :
           /\ call' = [call EXCEPT ![c] = [call[c] EXCEPT !.node = n]]
           /\ n # None /\ NamesOK(names') /\ names'[temp] = n
           /\ data' \in [Nodes -> Contents \cup {Cut}] /\ data'[n] = Cut
           /\ ReadIn(names', data', "file") = ReadIn(names, data, "file")
    BY <1>1, <1>3, TruncateDoes
  <1> DEFINE cl == [call[c] EXCEPT !.node = n]
  <1>5. /\ cl \in Call /\ cl.node = n /\ cl.kind = call[c].kind /\ cl.path = call[c].path
        /\ cl.base = call[c].base
    BY <1>2, WithNode
  <1>6. call' = [call EXCEPT ![c] = cl]
    BY <1>4
  <1> HIDE DEF cl
  <1>7. StepOK(c, "writeTemp", cl)
    BY <1>2, <1>4, <1>5 DEF StepOK, WebSteps, PackageSteps
  <1>8. ~mixed => AloneOK("writeTemp", cl, names', data', due)
    BY <1>1, <1>4, <1>5, AloneHolds DEF AloneOK, temp
  <1>9. Goes(c, "writeTemp", cl)
    BY <1>1, <1>8 DEF Goes, Goto, Resting
  <1>10. KeepsInstalls(c, "writeTemp", cl) /\ installed' \in [Entries -> Values \cup {Unset}]
    BY <1>1, <1>2 DEF KeepsInstalls, TypeInv
  <1> QED
    BY <1>1, <1>2, <1>4, <1>5, <1>6, <1>7, <1>9, <1>10, CallStep DEF Proceeds, BoundsOK

LEMMA WriteTempStep ==
    ASSUME FilesInvariant, NEW c \in Calls, WriteTemp(c)
    PROVE  FilesInvariant'
  <1> DEFINE temp == TempOf(call[c].path)
             n == call[c].node
             cl == [call[c] EXCEPT !.node = None]
  <1>1. /\ pc[c] = "writeTemp" /\ Put(c, Changed(c)) /\ Goto(c, "replace") /\ BoundsOK
        /\ UNCHANGED <<names, installed, due>> /\ pc[c] \notin Resting /\ TypeInv
        /\ call' = [call EXCEPT ![c] = cl]
    BY BoundsStay DEF WriteTemp, FilesInvariant, Resting
  <1>2. /\ ~OnlyInstalls /\ c \in Requests /\ "replace" \in Steps /\ call[c] \in Call
        /\ StepOK(c, "writeTemp", call[c]) /\ pc' = [pc EXCEPT ![c] = "replace"]
    BY <1>1, NoWebWhileInstalls, CallType DEF WebSteps, Steps, Goto
  <1>3. temp \in Paths /\ temp # "file" /\ "file" \in Paths
    BY DEF TempOf, Paths
  <1>4. n \in Nodes /\ n # None
    BY <1>1, NodeHeld, FilesAssumption
  <1>5. /\ cl \in Call /\ cl.node = None /\ cl.kind = call[c].kind /\ cl.path = call[c].path
        /\ ChangedBy(cl) = ChangedBy(call[c]) /\ cl.base = call[c].base
    BY <1>2, WithNode DEF ChangedBy
  <1>6. Changed(c) \in Contents /\ Changed(c) = ChangedBy(cl)
    BY <1>5, OwingFits
  <1>7. /\ data' \in [Nodes -> Contents \cup {Cut}]
        /\ \A m \in Nodes : data'[m] = data[m] \/ (m = n /\ data'[m] \in {Cut, Changed(c)})
        /\ \A p \in Paths : names[p] = n /\ data[n] = Cut => data'[n] = Changed(c)
    BY <1>1, <1>4, <1>6, PutDoes
  <1> HIDE DEF cl
  <1>8. StepOK(c, "replace", cl)
    BY <1>2, <1>5 DEF StepOK, WebSteps, PackageSteps
  <1>9. ASSUME ~mixed
        PROVE  AloneOK("replace", cl, names', data', due)
    <2>1. /\ names[temp] = n /\ data[n] = Cut
          /\ cl.path = "file" => Fits(due, cl.base)
          /\ Fits(due, ReadIn(names, data, "file"))
      BY <1>1, <1>5, <1>9, AloneHolds DEF AloneOK
    <2>2. ReadIn(names, data', "file") = ReadIn(names, data, "file")
      <3>1. names["file"] # None => names["file"] # n /\ names["file"] \in Nodes
        BY <1>1, <1>3, <2>1 DEF TypeInv, NamesOK
      <3> QED
        BY <1>7, <3>1 DEF ReadIn
    <2>3. data'[n] = ChangedBy(cl)
      BY <1>3, <1>6, <1>7, <2>1
    <2> QED
      BY <1>1, <1>4, <1>5, <2>1, <2>2, <2>3 DEF AloneOK
  <1>10. Goes(c, "replace", cl)
    BY <1>1, <1>9 DEF Goes, Goto, Resting
  <1>11. KeepsInstalls(c, "replace", cl) /\ installed' \in [Entries -> Values \cup {Unset}]
         /\ NamesOK(names')
    BY <1>1, <1>2 DEF KeepsInstalls, TypeInv
  <1> QED
    BY <1>1, <1>2, <1>5, <1>7, <1>8, <1>10, <1>11, CallStep DEF Proceeds, BoundsOK

-----------------------------------------------------------------------------
(* Requests that move files. *)

LEMMA NothingFits ==
    Nothing \in Owed /\ Fits(Nothing, None)
  BY DEF Nothing, Owed, Fits

\* A file is renamed over another name.
LEMMA RenameDoes ==
    ASSUME TypeInv, NEW from \in Paths, NEW to \in Paths \ {from}, names[from] # None,
           names' = [names EXCEPT ![to] = names[from], ![from] = None]
    PROVE  /\ NamesOK(names') /\ names'[to] = names[from] /\ names'[from] = None
           /\ \A p \in Paths \ {from, to} : names'[p] = names[p]
  <1>1. /\ names \in [Paths -> Nodes \cup {None}]
        /\ \A p, q \in Paths : (p # q /\ names[p] # None) => names[p] # names[q]
    BY DEF TypeInv, NamesOK
  <1>2. /\ names' \in [Paths -> Nodes \cup {None}] /\ names'[to] = names[from]
        /\ names'[from] = None /\ \A p \in Paths \ {from, to} : names'[p] = names[p]
    BY <1>1
  <1>3. \A p, q \in Paths : (p # q /\ names'[p] # None) => names'[p] # names'[q]
    BY <1>1, <1>2
  <1> QED
    BY <1>2, <1>3 DEF NamesOK

\* What a path still reads after names have changed.
LEMMA KeptReads ==
    ASSUME TypeInv, NamesOK(names'), Keep, NEW p \in Paths, NEW q \in Paths, names'[p] = names[q]
    PROVE  ReadIn(names', data', p) = ReadIn(names, data, q)
  BY KeepDoes DEF ReadIn

\* A step that moves names keeps every node what it is or cuts it.
LEMMA KeepLists ==
    ASSUME FilesInvariant, NamesOK(names'), Keep, OnlyInstalls, UNCHANGED installed
    PROVE  \A n \in Nodes : ListsInstalled(data'[n], installed')
  <1>1. \A n \in Nodes : ListsInstalled(data[n], installed)
    BY DEF FilesInvariant, InstallsInv
  <1>2. \A n \in Nodes : data'[n] \in {Cut, data[n]}
    BY KeepDoes DEF FilesInvariant
  <1> QED
    BY <1>1, <1>2, BlankLists

LEMMA NamesStay ==
    ASSUME FilesInvariant, names' = names, Keep
    PROVE  /\ NamesOK(names') /\ data' \in [Nodes -> Contents \cup {Cut}]
           /\ \A m \in Nodes : data'[m] \in {Cut, data[m]}
           /\ ReadIn(names', data', "file") = ReadIn(names, data, "file")
  <1>1. TypeInv /\ NamesOK(names') /\ "file" \in Paths
    BY DEF FilesInvariant, TypeInv, Paths
  <1> QED
    BY <1>1, KeepDoes, KeptReads

LEMMA ReplaceStep ==
    ASSUME FilesInvariant, NEW c \in Calls, Replace(c)
    PROVE  FilesInvariant'
  <1> DEFINE path == call[c].path
             temp == TempOf(path)
  <1>1. /\ pc[c] = "replace" /\ pc[c] \notin Resting /\ pc[c] # "write" /\ Keep /\ BoundsOK
        /\ UNCHANGED installed /\ TypeInv
    BY BoundsStay DEF Replace, FilesInvariant, Resting
  <1>2. /\ ~OnlyInstalls /\ path \in {"file", "aside"} /\ due \in Owed
        /\ installed' \in [Entries -> Values \cup {Unset}]
    BY <1>1, NoWebWhileInstalls, CallType DEF WebSteps, StepOK, TypeInv
  <1>3. temp \in Paths /\ temp # path /\ path \in Paths /\ temp # "file" /\ "file" \in Paths
    BY <1>2 DEF TempOf, Paths
  <1>4. \/ /\ Exists(temp) /\ names' = [names EXCEPT ![path] = names[temp], ![temp] = None]
           /\ Answer(c, IF path = "file" THEN Owing(c) ELSE due)
        \/ Refuse(c) /\ names' = names
    BY DEF Replace
  <1> HIDE DEF temp, path
  <1>5. CASE Refuse(c) /\ names' = names
    BY <1>1, <1>5, NamesStay, LeaveStep
  <1>6. CASE /\ Exists(temp) /\ names' = [names EXCEPT ![path] = names[temp], ![temp] = None]
             /\ Answer(c, IF path = "file" THEN Owing(c) ELSE due)
    <2>1. /\ NamesOK(names') /\ names'[path] = names[temp] /\ names[temp] # None
          /\ \A p \in Paths \ {temp, path} : names'[p] = names[p]
      BY <1>1, <1>3, <1>6, RenameDoes DEF Exists
    <2>2. data' \in [Nodes -> Contents \cup {Cut}]
      BY <1>1, <2>1, KeepDoes
    <2>3. CASE path = "file"
      <3>1. ASSUME ~mixed
            PROVE  Fits(Owing(c), ReadIn(names', data', "file"))
        <4>1. /\ Fits(due, call[c].base)
              /\ data[names[temp]] = ChangedBy(call[c])
          BY <1>1, <2>3, <3>1, AloneHolds DEF AloneOK, path, temp
        <4>2. ReadIn(names', data', "file") = data[names[temp]]
          BY <1>1, <1>3, <2>1, <2>3, KeptReads DEF ReadIn
        <4> QED
          BY <4>1, <4>2, OwingFits
      <3>2. Owing(c) \in Owed
        BY OwingFits
      <3> QED
        BY <1>1, <1>2, <1>6, <2>1, <2>2, <2>3, <3>1, <3>2, EndStep
    <2>4. CASE path # "file"
      <3>1. ReadIn(names', data', "file") = ReadIn(names, data, "file")
        BY <1>1, <1>3, <2>1, <2>4, KeptReads
      <3>2. ~mixed => Fits(due, ReadIn(names', data', "file"))
        BY <1>1, <3>1, AloneHolds DEF AloneOK
      <3> QED
        BY <1>1, <1>2, <1>6, <2>1, <2>2, <2>4, <3>2, EndStep
    <2> QED
      BY <2>3, <2>4
  <1> QED
    BY <1>4, <1>5, <1>6

\* The file's name goes, to another path.
LEMMA GoneStep ==
    ASSUME FilesInvariant, NEW c \in Calls, pc[c] \in {"rename", "move"}, BoundsOK,
           names["file"] # None,
           names' = [names EXCEPT !["aside"] = names["file"], !["file"] = None],
           Answer(c, Nothing), Keep, UNCHANGED installed
    PROVE  FilesInvariant'
  <1>1. "file" \in Paths /\ "aside" \in Paths \ {"file"} /\ TypeInv /\ pc[c] \notin Resting
    BY DEF Paths, FilesInvariant, Resting
  <1>2. NamesOK(names') /\ names'["file"] = None
    BY <1>1, RenameDoes
  <1>3. data' \in [Nodes -> Contents \cup {Cut}] /\ ReadIn(names', data', "file") = None
    BY <1>1, <1>2, KeepDoes DEF ReadIn
  <1>4. ~OnlyInstalls /\ installed' \in [Entries -> Values \cup {Unset}]
    BY <1>1, NoWebWhileInstalls DEF WebSteps, TypeInv
  <1> QED
    BY <1>1, <1>2, <1>3, <1>4, NothingFits, EndStep

LEMMA RenameToStep ==
    ASSUME FilesInvariant, NEW c \in Calls, RenameTo(c)
    PROVE  FilesInvariant'
  <1>1. /\ pc[c] = "rename" /\ pc[c] \notin Resting /\ pc[c] # "write" /\ Keep /\ BoundsOK
        /\ UNCHANGED installed
    BY BoundsStay DEF RenameTo, FilesInvariant, Resting
  <1>2. CASE Refuse(c) /\ names' = names
    BY <1>1, <1>2, NamesStay, LeaveStep
  <1>3. CASE ~(Refuse(c) /\ names' = names)
    BY <1>1, <1>3, GoneStep DEF RenameTo, Exists
  <1> QED
    BY <1>2, <1>3

LEMMA MoveStep ==
    ASSUME FilesInvariant, NEW c \in Calls, Move(c)
    PROVE  FilesInvariant'
  <1>1. /\ pc[c] = "move" /\ pc[c] \notin Resting /\ pc[c] # "write" /\ Keep /\ BoundsOK
        /\ UNCHANGED installed /\ NamesOK(names)
    BY BoundsStay DEF Move, FilesInvariant, TypeInv, Resting
  <1>2. CASE Refuse(c) /\ names' = names
    BY <1>1, <1>2, NamesStay, LeaveStep
  <1>3. ASSUME NEW p \in Found,
               names' = [q \in Paths |-> IF q = "aside" THEN names[p]
                                         ELSE IF q = p THEN None ELSE names[q]],
               Answer(c, IF p = "file" THEN Nothing ELSE due)
        PROVE  FilesInvariant'
    <2>1. p \in {"file", "aside"} /\ names[p] # None
      BY DEF Found, Loads, Read, Exists
    <2>2. names \in [Paths -> Nodes \cup {None}] /\ {"file", "aside"} \subseteq Paths
      BY <1>1 DEF NamesOK, Paths
    <2>3. CASE p = "file"
      <3>1. names' = [names EXCEPT !["aside"] = names["file"], !["file"] = None]
        BY <1>3, <2>2, <2>3
      <3> QED
        BY <1>1, <1>3, <2>1, <2>3, <3>1, GoneStep
    <2>4. CASE p = "aside"
      <3>1. names' = names
        BY <1>3, <2>2, <2>4
      <3> QED
        BY <1>1, <1>3, <2>4, <3>1, NamesStay, LeaveStep DEF Refuse
    <2> QED
      BY <2>1, <2>3, <2>4
  <1> QED
    BY <1>2, <1>3 DEF Move

\* A deletion in one step: whoever is at work has been overlapped by it.
LEMMA DeleteStep ==
    ASSUME FilesInvariant, NEW c \in Calls, Delete(c)
    PROVE  FilesInvariant'
  <1>1. /\ pc[c] = "idle" /\ "delete" \in scene.kinds /\ Counted /\ Keep /\ due' = Nothing
        /\ names' = [names EXCEPT !["file"] = None]
        /\ UNCHANGED <<installed, pc, call, dequeued, scene, breaks>>
    BY DEF Delete, Unlink, callVars
  <1>2. mixed' \in BOOLEAN /\ (mixed' <=> Others(c) # {})
    BY DEF Delete
  <1>3. BoundsOK /\ TypeInv
    BY <1>1, BoundsStay DEF FilesInvariant
  <1>4. NamesOK(names') /\ names'["file"] = None
    <2>1. /\ names \in [Paths -> Nodes \cup {None}] /\ "file" \in Paths
          /\ \A p, q \in Paths : (p # q /\ names[p] # None) => names[p] # names[q]
      BY <1>3 DEF TypeInv, NamesOK, Paths
    <2>2. /\ names' \in [Paths -> Nodes \cup {None}] /\ names'["file"] = None
          /\ \A p \in Paths \ {"file"} : names'[p] = names[p]
      BY <1>1, <2>1
    <2> QED
      BY <2>1, <2>2 DEF NamesOK
  <1>5. data' \in [Nodes -> Contents \cup {Cut}] /\ ReadIn(names', data', "file") = None
    BY <1>1, <1>3, <1>4, KeepDoes DEF ReadIn
  <1>6. TypeInv'
    BY <1>1, <1>2, <1>3, <1>4, <1>5, NothingFits DEF TypeInv, BoundsOK
  <1>7. ~OnlyInstalls'
    <2>1. ~OnlyInstalls
      BY <1>1 DEF OnlyInstalls, PackageKinds
    <2> QED
      BY <1>1, <2>1 DEF OnlyInstalls
  <1>8. Others(c) # {} <=> \E d \in Calls : pc[d] \notin Resting
    BY <1>1 DEF Others, Resting
  <1>9. MixedInv' /\ ChangesInv'
    BY <1>1, <1>2, <1>5, <1>8, NothingFits DEF MixedInv, ChangesInv
  <1> QED
    BY <1>6, <1>7, <1>9 DEF FilesInvariant, InstallsInv

-----------------------------------------------------------------------------
(* Packages. *)

\* A step of an install that leaves the files alone.
LEMMA InstallGoes ==
    ASSUME FilesInvariant, NEW c \in Installs, NEW step \in Steps, NEW cl \in Call,
           BoundsOK, UNCHANGED <<names, data>>, StepOK(c, step, cl), Proceeds(c, step, cl),
           installed' \in [Entries -> Values \cup {Unset}],
           \A e \in Entries : installed[e] # Unset => installed'[e] # Unset,
           OnlyInstalls => CallLists(step, cl, installed'),
           pc' = [pc EXCEPT ![c] = step], call' = [call EXCEPT ![c] = cl]
    PROVE  FilesInvariant'
  <1>1. NamesOK(names') /\ data' \in [Nodes -> Contents \cup {Cut}] /\ c \in Calls
    BY DEF FilesInvariant, TypeInv, Calls
  <1>2. KeepsInstalls(c, step, cl)
    <2>1. OnlyInstalls => \A n \in Nodes : ListsInstalled(data[n], installed)
      BY DEF FilesInvariant, InstallsInv
    <2> QED
      BY <2>1 DEF KeepsInstalls, ListsInstalled
  <1> QED
    BY <1>1, <1>2, CallStep DEF BoundsOK

\* What a call of an install lists.
LEMMA CallListsHold ==
    ASSUME FilesInvariant, NEW c \in Calls, OnlyInstalls
    PROVE  CallLists(pc[c], call[c], installed)
  BY DEF FilesInvariant, InstallsInv

LEMMA EnqueueStep ==
    ASSUME FilesInvariant, NEW c \in Calls, Enqueue(c)
    PROVE  FilesInvariant'
  <1>1. /\ c \in Installs /\ pc[c] = "idle" /\ Counted /\ pc' = [pc EXCEPT ![c] = "queued"]
        /\ dequeued' = [dequeued EXCEPT ![c] = 0]
        /\ UNCHANGED <<names, data, installed, scene, breaks, due, mixed>>
    BY DEF Enqueue, fileVars, history
  <1>2. BoundsOK
    <2>1. /\ calls \in 0..MaxCalls /\ MaxCalls \in Nat /\ MaxDequeues \in Nat
          /\ dequeued \in [Installs -> 0..MaxDequeues] /\ breaks \in 0..MaxBreaks
      BY FilesAssumption DEF FilesInvariant, TypeInv
    <2>2. 0 \in 0..MaxDequeues /\ calls' \in 0..MaxCalls
      BY <1>1, <2>1 DEF Counted
    <2> QED
      BY <1>1, <2>1, <2>2 DEF BoundsOK
  <1>3. PICK kind \in PackageKinds, cl \in Call : call' = [call EXCEPT ![c] = cl] /\ NewCall(cl, kind)
    <2>1. PICK kind \in PackageKinds \cap scene.kinds, e \in Entries, v \in Values :
             call' = [call EXCEPT ![c] = [NoCall EXCEPT !.kind = kind, !.entry = e, !.value = v]]
      BY DEF Enqueue, PackageKinds
    <2>2. kind \in Kinds
      BY DEF PackageKinds, Kinds
    <2>3. NewCall([NoCall EXCEPT !.kind = kind, !.entry = e, !.value = v], kind)
      BY <2>2, NewCallType
    <2>4. [NoCall EXCEPT !.kind = kind, !.entry = e, !.value = v] \in Call
      BY <2>3 DEF NewCall
    <2> QED
      BY <2>1, <2>3, <2>4
  <1>4. /\ "queued" \in Steps /\ "queued" \in Resting /\ pc[c] \in Resting /\ kind # "none"
        /\ kind \notin WebKinds /\ "queued" \notin WebSteps
    BY <1>1 DEF Steps, Resting, PackageKinds, WebKinds, WebSteps
  <1>5. StepOK(c, "queued", cl)
    BY <1>1, <1>3, <1>4 DEF StepOK, NewCall
  <1>6. Rests(c, "queued")
    BY <1>1, <1>4 DEF Rests
  <1>7. CallLists("queued", cl, installed')
    BY <1>3, BlankLists DEF CallLists, NewCall
  <1>8. installed' \in [Entries -> Values \cup {Unset}]
    BY <1>1 DEF FilesInvariant, TypeInv
  <1> QED
    BY <1>1, <1>2, <1>3, <1>4, <1>5, <1>6, <1>7, <1>8, InstallGoes DEF Proceeds, NewCall

LEMMA TakeStep ==
    ASSUME FilesInvariant, NEW c \in Calls, Take(c), dequeued[c] < MaxDequeues
    PROVE  FilesInvariant'
  <1>1. /\ c \in Installs /\ pc[c] = "queued" /\ Begin(c, "list") /\ call' = call
        /\ dequeued' = [dequeued EXCEPT ![c] = @ + 1]
        /\ UNCHANGED <<names, data, installed, scene, calls, breaks, due>>
    BY DEF Take, fileVars, bounds
  <1>2. BoundsOK
    <2>1. /\ MaxDequeues \in Nat /\ dequeued \in [Installs -> 0..MaxDequeues]
          /\ calls \in 0..MaxCalls /\ breaks \in 0..MaxBreaks
      BY FilesAssumption DEF FilesInvariant, TypeInv
    <2>2. dequeued[c] + 1 \in 0..MaxDequeues
      BY <1>1, <2>1
    <2> QED
      BY <1>1, <2>1, <2>2 DEF BoundsOK
  <1>3. /\ "list" \in Steps /\ call[c] \in Call /\ StepOK(c, "queued", call[c])
        /\ call' = [call EXCEPT ![c] = call[c]] /\ pc' = [pc EXCEPT ![c] = "list"]
    BY <1>1, CallType, SameCall DEF Steps, Begin, FilesInvariant
  <1>4. StepOK(c, "list", call[c])
    BY <1>3 DEF StepOK, WebSteps, PackageSteps
  <1>5. Begins(c, "list", call[c])
    <2>1. Fits(due, ReadIn(names, data, "file")) => AloneOK("list", call[c], names', data', due)
      BY <1>1 DEF AloneOK
    <2> QED
      BY <1>1, <2>1 DEF Begins, Begin, Resting
  <1>6. OnlyInstalls => CallLists("list", call[c], installed')
    BY <1>1, CallListsHold DEF CallLists
  <1>7. installed' \in [Entries -> Values \cup {Unset}]
    BY <1>1 DEF FilesInvariant, TypeInv
  <1> QED
    BY <1>1, <1>2, <1>3, <1>4, <1>5, <1>6, <1>7, InstallGoes DEF Proceeds

LEMMA ListInstalledStep ==
    ASSUME FilesInvariant, NEW c \in Calls, ListInstalled(c)
    PROVE  FilesInvariant'
  <1>1. /\ pc[c] = "list" /\ call[c].kind = "install" /\ BoundsOK /\ UNCHANGED fileVars
        /\ UNCHANGED <<names, data, installed>> /\ pc[c] \notin Resting /\ pc[c] # "write"
    BY BoundsStay DEF ListInstalled, fileVars, FilesInvariant, Resting
  <1>2. CASE Acknowledge(c, due)
    BY <1>1, <1>2, LeaveQuietly DEF Acknowledge, Refuse
  <1>3. ASSUME NEW listed \in BOOLEAN, call' = [call EXCEPT ![c].listed = listed],
               Goto(c, "copy"), due' = due
        PROVE  FilesInvariant'
    <2> DEFINE cl == [call[c] EXCEPT !.listed = listed]
    <2>1. /\ call[c] \in Call /\ StepOK(c, "list", call[c]) /\ "copy" \in Steps
          /\ pc' = [pc EXCEPT ![c] = "copy"]
      BY <1>1, <1>3, CallType DEF FilesInvariant, Steps, Goto
    <2>2. /\ cl \in Call /\ cl.kind = call[c].kind /\ cl.node = call[c].node
          /\ cl.base = call[c].base /\ cl.entry = call[c].entry
      BY <2>1 DEF Call
    <2>3. call' = [call EXCEPT ![c] = cl]
      BY <1>3
    <2> HIDE DEF cl
    <2>4. StepOK(c, "copy", cl) /\ c \in Installs
      BY <1>1, <2>1, <2>2 DEF StepOK, WebSteps, PackageSteps
    <2>5. ~mixed => AloneOK("copy", cl, names', data', due)
      BY <1>1, AloneHolds DEF AloneOK
    <2>6. Goes(c, "copy", cl)
      BY <1>1, <1>3, <2>5 DEF Goes, Goto, Resting
    <2>7. OnlyInstalls => CallLists("copy", cl, installed')
      BY <1>1, <2>2, CallListsHold DEF CallLists
    <2>8. installed' \in [Entries -> Values \cup {Unset}]
      BY <1>1 DEF FilesInvariant, TypeInv
    <2> QED
      BY <1>1, <2>1, <2>2, <2>3, <2>4, <2>6, <2>7, <2>8, InstallGoes DEF Proceeds
  <1> QED
    BY <1>2, <1>3 DEF ListInstalled

LEMMA FetchedType ==
    ASSUME NEW v \in Values
    PROVE  Fetched(v) \in Values /\ Fetched(v) # Unset
  BY FilesAssumption DEF Fetched

\* A pip that copies what it fetched takes nothing away.
LEMMA CopyPackageStep ==
    ASSUME FilesInvariant, NEW c \in Calls, CopyPackage(c), call[c].value \in Values
    PROVE  FilesInvariant'
  <1>1. /\ pc[c] = "copy" /\ call[c].kind = "install" /\ BoundsOK
        /\ UNCHANGED <<names, data>> /\ pc[c] \notin Resting /\ pc[c] # "write"
    BY BoundsStay DEF CopyPackage, FilesInvariant, Resting
  <1>2. /\ call[c] \in Call /\ StepOK(c, "copy", call[c]) /\ call[c].entry \in Entries
        /\ due \in Owed /\ NamesOK(names') /\ data' \in [Nodes -> Contents \cup {Cut}]
    BY <1>1, CallType DEF FilesInvariant, Call, TypeInv
  <1>3. /\ installed' \in [Entries -> Values \cup {Unset}] /\ installed'[call[c].entry] # Unset
        /\ \A e \in Entries : installed[e] # Unset => installed'[e] # Unset
    <2>1. /\ installed' = [installed EXCEPT ![call[c].entry] = Fetched(call[c].value)]
          /\ installed \in [Entries -> Values \cup {Unset}]
      BY DEF CopyPackage, FilesInvariant, TypeInv
    <2> QED
      BY <1>2, <2>1, FetchedType
  <1>4. c \in Installs
    BY <1>1, <1>2 DEF StepOK, PackageSteps
  <1>5. CASE Goto(c, "append") /\ UNCHANGED <<call, due>>
    <2>1. /\ "append" \in Steps /\ pc' = [pc EXCEPT ![c] = "append"]
          /\ call' = [call EXCEPT ![c] = call[c]]
      BY <1>5, SameCall DEF FilesInvariant, Steps, Goto
    <2>2. StepOK(c, "append", call[c])
      BY <1>1, <1>2, <1>4 DEF StepOK, WebSteps, PackageSteps
    <2>3. ~mixed => AloneOK("append", call[c], names', data', due)
      BY <1>1, AloneHolds DEF AloneOK
    <2>4. Goes(c, "append", call[c])
      BY <1>1, <1>5, <2>3 DEF Goes, Goto, Resting
    <2>5. OnlyInstalls => CallLists("append", call[c], installed')
      BY <1>3, CallListsHold DEF CallLists, ListsInstalled
    <2> QED
      BY <1>1, <1>2, <1>3, <1>4, <2>1, <2>2, <2>4, <2>5, InstallGoes DEF Proceeds
  <1>6. CASE Acknowledge(c, due)
    <2>1. ~mixed => Fits(due, ReadIn(names', data', "file"))
      BY <1>1, AloneHolds DEF AloneOK
    <2>2. OnlyInstalls => \A n \in Nodes : ListsInstalled(data'[n], installed')
      BY <1>1, <1>3 DEF FilesInvariant, InstallsInv, ListsInstalled
    <2> QED
      BY <1>1, <1>2, <1>3, <1>4, <1>6, <2>1, <2>2, EndStep DEF Acknowledge
  <1> QED
    BY <1>5, <1>6 DEF CopyPackage

LEMMA ReadRequirementsStep ==
    ASSUME FilesInvariant, NEW c \in Calls, ReadRequirements(c)
    PROVE  FilesInvariant'
  <1>1. /\ pc[c] = "list" /\ call[c].kind = "installAll" /\ BoundsOK /\ UNCHANGED fileVars
        /\ UNCHANGED <<names, data, installed>> /\ pc[c] \notin Resting /\ pc[c] # "write"
    BY BoundsStay DEF ReadRequirements, fileVars, FilesInvariant, Resting
  <1>2. /\ call[c] \in Call /\ StepOK(c, "list", call[c]) /\ c \in Installs
    BY <1>1, CallType DEF FilesInvariant, StepOK, PackageSteps
  <1>3. CASE PutBack(c)
    <2>1. \/ Refuse(c)
          \/ /\ Finish(c, "queued", due)
             /\ call' = [call EXCEPT ![c] = Requeued(call[c])]
      BY <1>3 DEF PutBack, Refuse, Answer, Requeued
    <2> QED
      BY <1>1, <1>2, <2>1, LeaveQuietly
  <1>4. CASE call' = [call EXCEPT ![c].base = Read("file")] /\ Goto(c, "copy") /\ UNCHANGED due
    <2> DEFINE cl == [call[c] EXCEPT !.base = Read("file")]
    <2>1. "copy" \in Steps /\ pc' = [pc EXCEPT ![c] = "copy"] /\ "file" \in Paths
      BY <1>4 DEF Steps, Goto, Paths
    <2>2. /\ cl \in Call /\ cl.kind = call[c].kind /\ cl.node = call[c].node
          /\ cl.base = Read("file") /\ cl.entry = call[c].entry
      BY <1>2, <2>1, ReadType DEF Call
    <2>3. call' = [call EXCEPT ![c] = cl]
      BY <1>4
    <2> HIDE DEF cl
    <2>4. StepOK(c, "copy", cl)
      BY <1>1, <1>2, <2>2 DEF StepOK, WebSteps, PackageSteps
    <2>5. ~mixed => AloneOK("copy", cl, names', data', due)
      BY <1>1, AloneHolds DEF AloneOK
    <2>6. Goes(c, "copy", cl)
      BY <1>1, <1>4, <2>5 DEF Goes, Goto, Resting
    <2>7. OnlyInstalls => CallLists("copy", cl, installed')
      BY <1>1, <2>1, <2>2, ReadType DEF CallLists
    <2>8. installed' \in [Entries -> Values \cup {Unset}]
      BY <1>1 DEF FilesInvariant, TypeInv
    <2> QED
      BY <1>1, <1>2, <2>1, <2>2, <2>3, <2>4, <2>6, <2>7, <2>8, InstallGoes DEF Proceeds
  <1> QED
    BY <1>3, <1>4 DEF ReadRequirements

LEMMA CopyAllStep ==
    ASSUME FilesInvariant, NEW c \in Calls, CopyAll(c)
    PROVE  FilesInvariant'
  <1>1. /\ pc[c] = "copy" /\ Acknowledge(c, due) /\ BoundsOK
        /\ UNCHANGED <<names, data>> /\ pc[c] \notin Resting
    BY BoundsStay DEF CopyAll, FilesInvariant, Resting
  <1>2. /\ call[c] \in Call /\ StepOK(c, "copy", call[c]) /\ c \in Installs /\ due \in Owed
        /\ NamesOK(names') /\ data' \in [Nodes -> Contents \cup {Cut}]
    BY <1>1, CallType DEF FilesInvariant, TypeInv, StepOK, PackageSteps
  <1>3. /\ installed' \in [Entries -> Values \cup {Unset}]
        /\ \A e \in Entries : installed[e] # Unset => installed'[e] # Unset
    <2> DEFINE listed == Parsed(call[c].base)
    <2>1. /\ installed' = [e \in Entries |-> IF listed[e] = Unset THEN installed[e]
                                             ELSE Fetched(listed[e])]
          /\ installed \in [Entries -> Values \cup {Unset}]
      BY DEF CopyAll, FilesInvariant, TypeInv
    <2>2. listed \in [Entries -> Values \cup {Unset}]
      BY <1>2, ParsedType DEF Call, Contents
    <2> HIDE DEF listed
    <2> QED
      BY <2>1, <2>2, FetchedType
  <1>4. ~mixed => Fits(due, ReadIn(names', data', "file"))
    BY <1>1, AloneHolds DEF AloneOK
  <1>5. OnlyInstalls => \A n \in Nodes : ListsInstalled(data'[n], installed')
    BY <1>1, <1>3 DEF FilesInvariant, InstallsInv, ListsInstalled
  <1> QED
    BY <1>1, <1>2, <1>3, <1>4, <1>5, EndStep DEF Acknowledge

LEMMA ReadListStep ==
    ASSUME FilesInvariant, NEW c \in Calls, ReadList(c)
    PROVE  FilesInvariant'
  <1> DEFINE cl == [call[c] EXCEPT !.base = Read("file")]
  <1>1. /\ pc[c] = "append" /\ BoundsOK /\ UNCHANGED <<names, data, installed, due, mixed>>
        /\ pc[c] \notin Resting /\ "merge" \in Steps /\ pc' = [pc EXCEPT ![c] = "merge"]
        /\ call' = [call EXCEPT ![c] = cl] /\ "file" \in Paths
    BY BoundsStay DEF ReadList, Goto, fileVars, FilesInvariant, Resting, Steps, Paths
  <1>2. /\ call[c] \in Call /\ StepOK(c, "append", call[c]) /\ c \in Installs
        /\ installed' \in [Entries -> Values \cup {Unset}]
    BY <1>1, CallType DEF FilesInvariant, StepOK, PackageSteps, TypeInv
  <1>3. /\ cl \in Call /\ cl.kind = call[c].kind /\ cl.node = call[c].node
        /\ cl.base = Read("file") /\ cl.entry = call[c].entry
    BY <1>1, <1>2, ReadType DEF Call
  <1> HIDE DEF cl
  <1>4. StepOK(c, "merge", cl)
    BY <1>2, <1>3 DEF StepOK, WebSteps, PackageSteps
  <1>5. ~mixed => AloneOK("merge", cl, names', data', due)
    BY <1>1, <1>3, AloneHolds, ReadType DEF AloneOK
  <1>6. Goes(c, "merge", cl)
    BY <1>1, <1>5 DEF Goes, Resting
  <1>7. OnlyInstalls => CallLists("merge", cl, installed')
    BY <1>1, <1>3, ReadType, CallListsHold DEF CallLists
  <1> QED
    BY <1>1, <1>2, <1>3, <1>4, <1>6, <1>7, InstallGoes DEF Proceeds

LEMMA OpenListStep ==
    ASSUME FilesInvariant, NEW c \in Calls, OpenList(c)
    PROVE  FilesInvariant'
  <1>1. /\ pc[c] = "merge" /\ Truncate(c, "file") /\ Goto(c, "write") /\ BoundsOK
        /\ installed' = installed /\ due' = due /\ pc[c] \notin Resting /\ TypeInv
    BY BoundsStay DEF OpenList, FilesInvariant, Resting
  <1>2. /\ c \in Installs /\ "write" \in Steps /\ call[c] \in Call /\ call[c].kind = "install"
        /\ StepOK(c, "merge", call[c]) /\ pc' = [pc EXCEPT ![c] = "write"] /\ "file" \in Paths
        /\ installed' \in [Entries -> Values \cup {Unset}]
    BY <1>1, CallType DEF StepOK, PackageSteps, Steps, Goto, Paths, TypeInv
  <1>3. PICK n \in Nodes :
           /\ call' = [call EXCEPT ![c] = [call[c] EXCEPT !.node = n]]
           /\ n # None /\ NamesOK(names') /\ names'["file"] = n
           /\ data' \in [Nodes -> Contents \cup {Cut}] /\ data'[n] = Cut
           /\ \A m \in Nodes : data'[m] \in {Cut, data[m]}
    BY <1>1, <1>2, TruncateDoes
  <1> DEFINE cl == [call[c] EXCEPT !.node = n]
  <1>4. /\ cl \in Call /\ cl.node = n /\ cl.kind = call[c].kind /\ cl.entry = call[c].entry
        /\ cl.base = call[c].base
    BY <1>2, WithNode
  <1>5. call' = [call EXCEPT ![c] = cl]
    BY <1>3
  <1> HIDE DEF cl
  <1>6. StepOK(c, "write", cl)
    BY <1>2, <1>3, <1>4 DEF StepOK, WebSteps, PackageSteps
  <1>7. ~mixed => AloneOK("write", cl, names', data', due)
    BY <1>1, <1>2, <1>3, <1>4, AloneHolds DEF AloneOK
  <1>8. Goes(c, "write", cl)
    BY <1>1, <1>7 DEF Goes, Goto, Resting
  <1>9. KeepsInstalls(c, "write", cl)
    <2>1. ASSUME OnlyInstalls
          PROVE  /\ \A m \in Nodes : ListsInstalled(data'[m], installed')
                 /\ CallLists("write", cl, installed')
      <3>1. \A m \in Nodes : ListsInstalled(data[m], installed)
        BY <2>1 DEF FilesInvariant, InstallsInv
      <3>2. \A m \in Nodes : ListsInstalled(data'[m], installed')
        BY <1>1, <1>3, <3>1, BlankLists
      <3>3. CallLists("write", cl, installed')
        BY <1>1, <1>4, <2>1, CallListsHold DEF CallLists
      <3> QED
        BY <3>2, <3>3
    <2> QED
      BY <1>1, <1>2, <2>1 DEF KeepsInstalls
  <1> QED
    BY <1>1, <1>2, <1>3, <1>4, <1>5, <1>6, <1>8, <1>9, CallStep DEF Proceeds, BoundsOK

LEMMA WriteListStep ==
    ASSUME FilesInvariant, NEW c \in Calls, WriteList(c)
    PROVE  FilesInvariant'
  <1>1. /\ pc[c] = "write" /\ c \in Installs /\ Put(c, Changed(c)) /\ Answer(c, Owing(c))
        /\ UNCHANGED <<names, installed>> /\ BoundsOK /\ pc[c] \notin Resting
    BY BoundsStay DEF WriteList, Acknowledge, FilesInvariant, Resting
  <1>2. call[c] \in Call /\ StepOK(c, "write", call[c])
    BY <1>1, CallType DEF FilesInvariant
  <1>3. call[c].kind = "install"
    BY <1>1, <1>2, FilesAssumption DEF StepOK, WebKinds
  <1>4. ~mixed => Fits(due, call[c].base)
    BY <1>1, <1>3, AloneHolds DEF AloneOK
  <1>5. OnlyInstalls => ListsInstalled(Changed(c), installed)
    <2>1. ASSUME OnlyInstalls, NEW e \in Entries
          PROVE  ChangedBy(call[c])[e] # Unset => installed[e] # Unset
      BY <1>1, <1>2, <2>1, CallListsHold, ChangedType DEF CallLists, ListsInstalled
    <2>2. Parsed(ChangedBy(call[c])) = ChangedBy(call[c])
      BY <1>2, ChangedType, FilesAssumption DEF Parsed
    <2>3. Changed(c) = ChangedBy(call[c])
      BY OwingFits
    <2> QED
      BY <2>1, <2>2, <2>3 DEF ListsInstalled
  <1> QED
    BY <1>1, <1>4, <1>5, OwingFits, WriteStep

-----------------------------------------------------------------------------
(* Deaths. *)

LEMMA BreakStep ==
    ASSUME FilesInvariant, NEW c \in Calls, Break(c)
    PROVE  FilesInvariant'
  <1> DEFINE owed == IF pc[c] = "write" THEN AllAnything ELSE due
  <1>1. /\ pc[c] \notin Resting /\ Keep /\ installed' = installed /\ TypeInv
        /\ breaks < MaxBreaks /\ breaks' = breaks + 1 /\ UNCHANGED <<dequeued, scene, calls>>
    BY DEF Break, FilesInvariant
  <1>2. BoundsOK
    <2>1. /\ breaks \in 0..MaxBreaks /\ MaxBreaks \in Nat
          /\ dequeued \in [Installs -> 0..MaxDequeues] /\ calls \in 0..MaxCalls
      BY <1>1, FilesAssumption DEF TypeInv
    <2> QED
      BY <1>1, <2>1 DEF BoundsOK
  <1>3. \/ Answer(c, owed)
        \/ c \in Installs /\ Finish(c, "queued", owed) /\ call' = [call EXCEPT ![c] = Requeued(call[c])]
    BY DEF Break, Answer, Requeued, AllAnything
  <1>4. owed \in Owed
    BY <1>1, AnythingFits DEF TypeInv
  <1>5. NamesOK(names') /\ names'["file"] = names["file"]
    <2>1. /\ names \in [Paths -> Nodes \cup {None}]
          /\ \A p, q \in Paths : (p # q /\ names[p] # None) => names[p] # names[q]
      BY <1>1 DEF TypeInv, NamesOK
    <2>2. CASE names' = names
      BY <2>1, <2>2 DEF NamesOK
    <2>3. CASE names' # names
      <3>1. names' = [names EXCEPT ![TempOf(call[c].path)] = None]
        BY <2>3 DEF Break, Unlink
      <3>2. TempOf(call[c].path) \in Paths \ {"file"}
        BY DEF TempOf, Paths
      <3>3. /\ names' \in [Paths -> Nodes \cup {None}] /\ names'["file"] = names["file"]
            /\ \A p \in Paths : names'[p] \in {names[p], None}
        BY <2>1, <3>1, <3>2 DEF Paths
      <3> QED
        BY <2>1, <3>3 DEF NamesOK
    <2> QED
      BY <2>2, <2>3
  <1>6. /\ data' \in [Nodes -> Contents \cup {Cut}]
        /\ ReadIn(names', data', "file") = ReadIn(names, data, "file")
    <2>1. "file" \in Paths
      BY DEF Paths
    <2> QED
      BY <1>1, <1>5, <2>1, KeepDoes, KeptReads
  <1>7. ~mixed => Fits(owed, ReadIn(names', data', "file"))
    BY <1>1, <1>6, AnythingFits, AloneHolds DEF AloneOK
  <1>8. OnlyInstalls => c \in Installs /\ \A n \in Nodes : ListsInstalled(data'[n], installed')
    <2>1. pc[c] # "idle"
      BY <1>1 DEF Resting
    <2>2. OnlyInstalls => c \in Installs
      BY <2>1, <1>1, CallType DEF FilesInvariant, InstallsInv
    <2> QED
      BY <1>1, <1>5, <2>2, KeepLists
  <1>9. installed' \in [Entries -> Values \cup {Unset}]
    BY <1>1 DEF TypeInv
  <1> HIDE DEF owed
  <1> QED
    BY <1>1, <1>2, <1>3, <1>4, <1>5, <1>6, <1>7, <1>8, <1>9, EndStep

-----------------------------------------------------------------------------
(* Messages: one that waits has deliveries left, and what it asks for stays what it was. *)

MessagesInv ==
    \A i \in Installs : /\ pc[i] = "queued" => dequeued[i] < MaxDequeues
                        /\ call[i].kind = "install" => call[i].value \in Values

\* A step of c that puts no message back.
Quiet(c) ==
    /\ dequeued' = dequeued
    /\ \A d \in Calls \ {c} : pc'[d] = pc[d] /\ call'[d] = call[d]
    /\ \/ c \in Requests
       \/ /\ pc'[c] # "queued"
          /\ call'[c].kind = "none" \/ (call'[c].kind = call[c].kind /\ call'[c].value = call[c].value)

LEMMA QuietKept ==
    ASSUME TypeInv, MessagesInv, NEW c \in Calls, Quiet(c)
    PROVE  MessagesInv'
  <1> SUFFICES ASSUME NEW i \in Installs
               PROVE  /\ pc'[i] = "queued" => dequeued'[i] < MaxDequeues
                      /\ call'[i].kind = "install" => call'[i].value \in Values
    BY DEF MessagesInv
  <1>1. i \in Calls /\ i \notin Requests
    BY FilesAssumption DEF Calls
  <1> QED
    BY <1>1 DEF Quiet, MessagesInv

LEMMA FinishQuiet ==
    ASSUME TypeInv, NEW c \in Calls, NEW owed, Answer(c, owed), dequeued' = dequeued
    PROVE  Quiet(c)
  BY NoCallType DEF Quiet, TypeInv, Answer, Finish

LEMMA WebQuiet ==
    ASSUME FilesInvariant, NEW c \in Calls,
           \/ View(c) \/ Save(c) \/ CheckExists(c) \/ Compare(c) \/ Overwrite(c)
           \/ OpenFile(c) \/ WriteFile(c) \/ Delete(c) \/ Rename(c) \/ RenameTo(c)
           \/ Create(c) \/ OpenForm(c) \/ WriteForm(c) \/ Update(c) \/ Find(c) \/ Load(c)
           \/ OpenTemp(c) \/ WriteTemp(c) \/ Replace(c) \/ Archive(c) \/ Move(c)
    PROVE  Quiet(c)
  <1>1. TypeInv /\ pc \in [Calls -> Steps] /\ call \in [Calls -> Call]
    BY DEF FilesInvariant, TypeInv
  <1>2. CASE View(c)
    BY <1>1, <1>2 DEF View, Quiet
  <1>3. CASE Overwrite(c) \/ Rename(c) \/ Create(c) \/ Update(c) \/ Archive(c)
    BY <1>1, <1>3 DEF Overwrite, Rename, Create, Update, Archive, Arrive, ArriveFor, Begin, Quiet
  <1>4. CASE Delete(c)
    BY <1>1, <1>4 DEF Delete, callVars, Quiet
  <1>5. CASE ~(View(c) \/ Overwrite(c) \/ Rename(c) \/ Create(c) \/ Update(c) \/ Archive(c) \/ Delete(c))
    <2>1. c \in Requests
      <3>1. \/ pc[c] \in WebSteps
            \/ pc[c] = "write" /\ call[c].kind \in WebKinds
        BY <1>5 DEF Save, CheckExists, Compare, OpenFile, WriteFile, RenameTo, OpenForm, WriteForm,
                    Find, Load, OpenTemp, WriteTemp, Replace, Move, WebSteps, WebKinds
      <3> QED
        BY <3>1, NoWebWhileInstalls
    <2>2. CASE Save(c) \/ CheckExists(c) \/ Compare(c)
      BY <1>1, <2>1, <2>2 DEF Save, CheckExists, Compare, Begin, Goto, Refuse, Answer, Finish, bounds, Quiet
    <2>3. CASE OpenFile(c) \/ OpenForm(c) \/ OpenTemp(c)
      BY <1>1, <2>1, <2>3 DEF OpenFile, OpenForm, OpenTemp, Truncate, Goto, Quiet
    <2>4. CASE WriteFile(c) \/ WriteForm(c) \/ WriteTemp(c)
      BY <1>1, <2>1, <2>4 DEF WriteFile, WriteForm, WriteTemp, Goto, Answer, Finish, Quiet
    <2>5. CASE Find(c) \/ Load(c)
      BY <1>1, <2>1, <2>5 DEF Find, Load, Goto, Refuse, Answer, Finish, Quiet
    <2>6. CASE Replace(c) \/ RenameTo(c) \/ Move(c)
      BY <1>1, <2>1, <2>6 DEF Replace, RenameTo, Move, Refuse, Answer, Finish, Quiet
    <2> QED
      BY <1>5, <2>2, <2>3, <2>4, <2>5, <2>6
  <1> QED
    BY <1>2, <1>3, <1>4, <1>5

LEMMA PackagesQuiet ==
    ASSUME FilesInvariant, NEW c \in Calls,
           \/ ListInstalled(c) \/ CopyPackage(c) \/ CopyAll(c) \/ ReadList(c)
           \/ OpenList(c) \/ WriteList(c)
    PROVE  Quiet(c)
  <1>1. TypeInv /\ pc \in [Calls -> Steps] /\ call \in [Calls -> Call]
    BY DEF FilesInvariant, TypeInv
  <1>2. \A owed : Acknowledge(c, owed) /\ dequeued' = dequeued => Quiet(c)
    BY <1>1, FinishQuiet DEF Acknowledge
  <1>3. CASE ListInstalled(c)
    <2>1. pc[c] = "list" /\ dequeued' = dequeued
      BY <1>3 DEF ListInstalled
    <2>2. ASSUME NEW listed, call' = [call EXCEPT ![c].listed = listed], Goto(c, "copy")
          PROVE  Quiet(c)
      BY <1>1, <2>1, <2>2 DEF Goto, Quiet, Call
    <2> QED
      BY <1>2, <1>3, <2>1, <2>2 DEF ListInstalled
  <1>4. CASE CopyPackage(c)
    BY <1>1, <1>2, <1>4 DEF CopyPackage, Goto, Quiet
  <1>5. CASE CopyAll(c) \/ WriteList(c)
    BY <1>2, <1>5 DEF CopyAll, WriteList
  <1>6. CASE ReadList(c) \/ OpenList(c)
    BY <1>1, <1>6 DEF ReadList, OpenList, Truncate, Goto, Quiet, Call
  <1> QED
    BY <1>3, <1>4, <1>5, <1>6

LEMMA MessagesKept ==
    ASSUME FilesInvariant, MessagesInv, NEW c \in Calls,
           \/ Quiet(c) \/ Enqueue(c) \/ Take(c) \/ ReadRequirements(c) \/ Break(c)
    PROVE  MessagesInv'
  <1>1. /\ TypeInv /\ pc \in [Calls -> Steps] /\ call \in [Calls -> Call]
        /\ dequeued \in [Installs -> 0..MaxDequeues] /\ MaxDequeues \in Nat \ {0}
    BY FilesAssumption DEF FilesInvariant, TypeInv
  <1> SUFFICES ASSUME ~Quiet(c), NEW i \in Installs
               PROVE  /\ pc'[i] = "queued" => dequeued'[i] < MaxDequeues
                      /\ call'[i].kind = "install" => call'[i].value \in Values
    BY <1>1, QuietKept DEF MessagesInv
  <1>2. i \in Calls /\ \A d \in Calls : d \in Requests => d # i
    BY FilesAssumption DEF Calls
  <1>3. /\ pc[i] = "queued" => dequeued[i] < MaxDequeues
        /\ call[i].kind = "install" => call[i].value \in Values
    BY DEF MessagesInv
  <1>4. CASE Enqueue(c)
    <2>1. PICK kind \in {"install", "installAll"} \cap scene.kinds, e \in Entries, v \in Values :
             call' = [call EXCEPT ![c] = [NoCall EXCEPT !.kind = kind, !.entry = e, !.value = v]]
      BY <1>4 DEF Enqueue
    <2>2. call'[c].value = v
      BY <1>1, <2>1, NoCallType DEF Call
    <2>3. /\ c \in Installs /\ pc' = [pc EXCEPT ![c] = "queued"]
          /\ dequeued' = [dequeued EXCEPT ![c] = 0]
      BY <1>4 DEF Enqueue
    <2> QED
      BY <1>1, <1>2, <1>3, <2>1, <2>2, <2>3
  <1>5. CASE Take(c)
    <2>1. /\ c \in Installs /\ pc' = [pc EXCEPT ![c] = "list"] /\ call' = call
          /\ dequeued' = [dequeued EXCEPT ![c] = @ + 1]
      BY <1>5 DEF Take, Begin
    <2> QED
      BY <1>1, <1>2, <1>3, <2>1
  <1>6. CASE ReadRequirements(c) \/ Break(c)
    <2>1. dequeued' = dequeued
      BY <1>6 DEF ReadRequirements, Break
    <2>2. CASE i = c
      <3>1. \/ Quiet(c)
            \/ /\ dequeued[c] < MaxDequeues
               /\ call' = [call EXCEPT ![c] = Requeued(call[c])]
        <4>1. CASE ReadRequirements(c) /\ ~PutBack(c)
          BY <1>1, <4>1 DEF ReadRequirements, Goto, Quiet, Call
        <4>2. ASSUME NEW owed, Finish(c, "idle", owed), call' = [call EXCEPT ![c] = NoCall]
              PROVE  Quiet(c)
          BY <1>1, <2>1, <4>2, FinishQuiet DEF Answer
        <4> QED
          BY <1>6, <2>2, <4>1, <4>2 DEF ReadRequirements, PutBack, Break, Requeued
      <3>2. /\ dequeued[c] < MaxDequeues
            /\ call' = [call EXCEPT ![c] = Requeued(call[c])]
        BY <3>1
      <3>3. call'[c].kind = call[c].kind /\ call'[c].value = call[c].value
        BY <1>1, <3>2 DEF Requeued, Call
      <3> QED
        BY <1>3, <2>1, <2>2, <3>2, <3>3
    <2>3. CASE i # c
      <3>1. pc'[i] = pc[i]
        BY <1>1, <1>2, <1>6, <2>3 DEF ReadRequirements, PutBack, Break, Finish, Goto
      <3>2. call'[i] = call[i]
        BY <1>1, <1>2, <1>6, <2>3 DEF ReadRequirements, PutBack, Break
      <3> QED
        BY <1>3, <2>1, <3>1, <3>2
    <2> QED
      BY <2>2, <2>3
  <1> QED
    BY <1>4, <1>5, <1>6

-----------------------------------------------------------------------------
(* What always holds. *)

\* The invariant holds to begin with.
LEMMA FilesBegin ==
    ASSUME FilesInit
    PROVE  FilesInvariant /\ MessagesInv
  <1>1. /\ installed = [e \in Entries |-> Unset] /\ pc = [c \in Calls |-> "idle"]
        /\ call = [c \in Calls |-> NoCall] /\ dequeued = [i \in Installs |-> 0]
        /\ calls = 0 /\ breaks = 0 /\ mixed = FALSE /\ scene \in Scenes
        /\ due = IF scene.origin = None THEN [e \in Entries |-> Gone] ELSE scene.origin
    BY DEF FilesInit
  <1>2. PICK n \in Nodes :
           /\ names = [p \in Paths |-> IF p = "file" /\ scene.origin # None THEN n ELSE None]
           /\ data = [m \in Nodes |-> IF m = n /\ scene.origin # None THEN scene.origin ELSE Cut]
    BY DEF FilesInit
  <1>3. scene.origin \in Contents \cup {None} /\ MaxDequeues \in Nat /\ MaxCalls \in Nat
        /\ MaxBreaks \in Nat
    BY <1>1, FilesAssumption
  <1>4. NamesOK(names) /\ data \in [Nodes -> Contents \cup {Cut}] /\ "file" \in Paths
    BY <1>2, <1>3, FilesAssumption DEF NamesOK, Paths
  <1>5. due \in Owed /\ Fits(due, ReadIn(names, data, "file"))
    <2>1. CASE scene.origin = None
      <3>1. due = Nothing /\ ReadIn(names, data, "file") = None
        BY <1>1, <1>2, <1>4, <2>1 DEF Nothing, ReadIn
      <3> QED
        BY <3>1, NothingFits
    <2>2. CASE scene.origin # None
      <3>1. due = scene.origin /\ ReadIn(names, data, "file") = scene.origin
        BY <1>1, <1>2, <1>4, <2>2, FilesAssumption DEF ReadIn
      <3>2. due \in Owed /\ due \notin {None, Cut}
        BY <1>3, <2>2, <3>1, FilesAssumption DEF Contents, Owed
      <3> QED
        BY <3>1, <3>2 DEF Fits
    <2> QED
      BY <2>1, <2>2
  <1>6. \A c \in Calls : StepOK(c, pc[c], call[c])
    BY <1>1, NoCallType DEF StepOK, WebKinds, PackageKinds, WebSteps, PackageSteps
  <1>7. TypeInv
    <2>1. pc \in [Calls -> Steps] /\ call \in [Calls -> Call]
      BY <1>1, NoCallType DEF Steps
    <2>2. /\ dequeued \in [Installs -> 0..MaxDequeues] /\ calls \in 0..MaxCalls
          /\ breaks \in 0..MaxBreaks
      BY <1>1, <1>3
    <2>3. mixed \in BOOLEAN /\ installed \in [Entries -> Values \cup {Unset}]
      BY <1>1
    <2> QED
      BY <1>1, <1>4, <1>5, <1>6, <2>1, <2>2, <2>3 DEF TypeInv
  <1>8. MixedInv /\ ChangesInv
    <2>1. ~mixed /\ \A c \in Calls : pc[c] \in Resting
      BY <1>1 DEF Resting
    <2> QED
      BY <1>5, <2>1 DEF MixedInv, ChangesInv
  <1>9. InstallsInv
    <2>1. ASSUME OnlyInstalls, NEW m \in Nodes
          PROVE  ListsInstalled(data[m], installed)
      <3>1. data[m] \in {None, Cut, Blank}
        BY <1>2, <2>1 DEF OnlyInstalls
      <3>2. ListsInstalled(Blank, installed)
        BY DEF ListsInstalled, Parsed, Blank
      <3> QED
        BY <3>1, <3>2, BlankLists
    <2>2. \A c \in Calls : CallLists(pc[c], call[c], installed)
      BY <1>1, NoCallType, BlankLists DEF CallLists
    <2>3. \A c \in Requests : pc[c] = "idle"
      BY <1>1 DEF Calls
    <2> QED
      BY <2>1, <2>2, <2>3 DEF InstallsInv
  <1>10. MessagesInv
    BY <1>1, <1>3, NoCallType, FilesAssumption DEF MessagesInv, Calls
  <1> QED
    BY <1>7, <1>8, <1>9, <1>10 DEF FilesInvariant

\* Every step keeps the invariant.
LEMMA FilesKeep ==
    ASSUME FilesInvariant, MessagesInv, [FilesNext]_filesVars
    PROVE  (FilesInvariant /\ MessagesInv)'
  <1>1. CASE UNCHANGED filesVars
    <2>1. UNCHANGED <<names, data, installed, pc, call, dequeued, scene, calls, breaks, due, mixed>>
      BY <1>1 DEF filesVars, fileVars, callVars, bounds, history
    <2>2. TypeInv'
      BY <2>1 DEF FilesInvariant, TypeInv
    <2>3. InstallsInv' /\ MixedInv' /\ ChangesInv' /\ MessagesInv'
      BY <2>1 DEF FilesInvariant, InstallsInv, OnlyInstalls, MixedInv, ChangesInv, MessagesInv
    <2> QED
      BY <2>2, <2>3 DEF FilesInvariant
  <1>2. ASSUME NEW c \in Calls,
               \/ View(c) \/ Save(c) \/ CheckExists(c) \/ Compare(c) \/ Overwrite(c)
               \/ OpenFile(c) \/ WriteFile(c) \/ Delete(c) \/ Rename(c) \/ RenameTo(c)
               \/ Create(c) \/ OpenForm(c) \/ WriteForm(c) \/ Update(c) \/ Find(c) \/ Load(c)
               \/ OpenTemp(c) \/ WriteTemp(c) \/ Replace(c) \/ Archive(c) \/ Move(c)
        PROVE  (FilesInvariant /\ MessagesInv)'
    <2>1. MessagesInv'
      BY <1>2, WebQuiet, MessagesKept
    <2>2. CASE Overwrite(c) \/ Rename(c) \/ Create(c) \/ Update(c) \/ Archive(c)
      <3>1. {"overwrite", "rename", "create", "update", "archive"} \subseteq WebKinds
            /\ {"open", "rename", "find", "move"} \subseteq WebSteps
        BY DEF WebKinds, WebSteps
      <3>2. CASE Overwrite(c)
        BY <3>1, <3>2, ArriveStep, <2>1 DEF Overwrite
      <3>3. CASE Rename(c)
        BY <3>1, <3>3, ArriveStep, <2>1 DEF Rename
      <3>4. CASE Create(c)
        BY <3>1, <3>4, ArriveStep, <2>1 DEF Create
      <3>5. CASE Update(c)
        BY <3>1, <3>5, ArriveStep, <2>1 DEF Update
      <3>6. CASE Archive(c)
        BY <3>1, <3>6, ArriveStep, <2>1 DEF Archive
      <3> QED
        BY <2>2, <3>2, <3>3, <3>4, <3>5, <3>6
    <2>3. CASE \/ View(c) \/ Save(c) \/ CheckExists(c) \/ Compare(c)
               \/ OpenFile(c) \/ OpenForm(c) \/ WriteFile(c) \/ WriteForm(c)
      BY <2>1, <2>3, ViewStep, SaveStep, CheckExistsStep, CompareStep, OpenStep, WriteWebStep
    <2>4. CASE \/ Find(c) \/ Load(c) \/ OpenTemp(c) \/ WriteTemp(c) \/ Replace(c)
      BY <2>1, <2>4, FindStep, LoadStep, OpenTempStep, WriteTempStep, ReplaceStep
    <2>5. CASE \/ Delete(c) \/ RenameTo(c) \/ Move(c)
      BY <2>1, <2>5, DeleteStep, RenameToStep, MoveStep
    <2> QED
      BY <1>2, <2>2, <2>3, <2>4, <2>5
  <1>3. ASSUME NEW c \in Calls,
               \/ Enqueue(c) \/ Take(c) \/ ListInstalled(c) \/ CopyPackage(c)
               \/ ReadRequirements(c) \/ CopyAll(c) \/ ReadList(c) \/ OpenList(c) \/ WriteList(c)
               \/ Break(c)
        PROVE  (FilesInvariant /\ MessagesInv)'
    <2>1. MessagesInv'
      BY <1>3, PackagesQuiet, MessagesKept
    <2>2. CASE Enqueue(c) \/ ReadRequirements(c) \/ Break(c)
      BY <2>1, <2>2, EnqueueStep, ReadRequirementsStep, BreakStep
    <2>3. CASE Take(c)
      <3>1. dequeued[c] < MaxDequeues
        BY <2>3 DEF Take, MessagesInv
      <3> QED
        BY <2>1, <2>3, <3>1, TakeStep
    <2>4. CASE CopyPackage(c)
      <3>1. pc[c] = "copy" /\ call[c].kind = "install"
        BY <2>4 DEF CopyPackage
      <3>2. call[c].value \in Values
        <4>1. StepOK(c, pc[c], call[c])
          BY CallType DEF FilesInvariant
        <4> QED
          BY <3>1, <4>1 DEF StepOK, PackageSteps, MessagesInv
      <3> QED
        BY <2>1, <2>4, <3>2, CopyPackageStep
    <2>5. CASE ListInstalled(c) \/ CopyAll(c) \/ ReadList(c) \/ OpenList(c) \/ WriteList(c)
      BY <2>1, <2>5, ListInstalledStep, CopyAllStep, ReadListStep, OpenListStep, WriteListStep
    <2> QED
      BY <1>3, <2>2, <2>3, <2>4, <2>5
  <1> QED
    BY <1>1, <1>2, <1>3 DEF FilesNext

\* The invariant of the files and of whoever writes them.
THEOREM FilesInvariantAlways == FilesSpec => [](FilesInvariant /\ MessagesInv)
  <1>1. FilesInit => FilesInvariant /\ MessagesInv
    BY FilesBegin
  <1>2. FilesInvariant /\ MessagesInv /\ [FilesNext]_filesVars => (FilesInvariant /\ MessagesInv)'
    BY FilesKeep
  <1> QED
    BY <1>1, <1>2, PTL DEF FilesSpec

\* No name or node is lost, and, whichever of the installs failed, died or overlapped, a package
\* that requirements.txt lists is installed (package_worker.py, package_manager.py).
THEOREM FilesInvAlways == FilesSpec => []FilesInv
  <1>1. FilesInvariant => FilesTypeOK
    <2> SUFFICES ASSUME FilesInvariant
                 PROVE  FilesTypeOK
      OBVIOUS
    <2>1. TypeInv
      BY DEF FilesInvariant
    <2>2. \A c \in Calls : pc[c] \in {"write", "writeTemp"} <=> call[c].node # None
      BY <2>1 DEF TypeInv, StepOK
    <2> QED
      BY <2>1, <2>2 DEF TypeInv, FilesTypeOK, NamesOK, Owed
  <1>2. FilesInvariant => ListedIsInstalled
    <2> SUFFICES ASSUME FilesInvariant, OnlyInstalls, NEW e \in Entries,
                        Parsed(Read("file"))[e] # Unset
                 PROVE  installed[e] # Unset
      BY DEF ListedIsInstalled, OnlyInstalls, PackageKinds
    <2>1. "file" \in Paths
      BY DEF Paths
    <2> QED
      BY <2>1, ReadType DEF ListsInstalled
  <1>3. FilesInvariant => FilesInv
    BY <1>1, <1>2 DEF FilesInv
  <1> QED
    BY <1>3, FilesInvariantAlways, PTL

\* With nobody at work the file has every change since its writers last overlapped: an etag, the
\* temporary file of a form and the order of an install's steps lose nothing to a call that came
\* and went in between, nor to one that died before it opened the file.
THEOREM ChangesStayAlways == FilesSpec => []ChangesStay
  <1>1. FilesInvariant => ChangesStay
    <2> SUFFICES ASSUME FilesInvariant, \A c \in Calls : pc[c] \in Resting, NEW e \in Entries
                 PROVE  \/ due[e] = Anything
                        \/ due[e] = Gone /\ ~Exists("file")
                        \/ Exists("file") /\ Read("file") # Cut /\ Read("file")[e] = due[e]
      BY DEF ChangesStay
    <2>1. ~mixed
      BY DEF FilesInvariant, MixedInv
    <2>2. Fits(due, Read("file"))
      <3>1. "file" \in Paths
        BY DEF Paths
      <3> QED
        BY <2>1, <3>1, ReadType DEF FilesInvariant, ChangesInv
    <2>3. Exists("file") => Read("file") # None
      <3>1. Exists("file") => names["file"] \in Nodes /\ Read("file") = data[names["file"]]
        BY DEF FilesInvariant, TypeInv, NamesOK, Exists, Read, Paths
      <3>2. \A n \in Nodes : data[n] # None
        BY FilesAssumption DEF FilesInvariant, TypeInv
      <3> QED
        BY <3>1, <3>2
    <2>4. ~Exists("file") => Read("file") = None
      BY DEF Read
    <2> QED
      BY <2>2, <2>3, <2>4 DEF Fits
  <1> QED
    BY <1>1, FilesInvariantAlways, PTL

-----------------------------------------------------------------------------
(* The git repository of the workspace, in four parts:                       *)
(*   - the graph: what a commit descends from, Reach, is the least set that   *)
(*     has the commit and the parents of its members, and a new commit        *)
(*     changes nobody's;                                                      *)
(*   - WellFormed, whatever overlaps or breaks off;                           *)
(*   - CalmInv, while requests do not overlap;                               *)
(*   - OrderInv, while requests neither overlap nor break off half way.       *)

\* The commits of a graph are older than their children, and its parents are its own.
Rooted(g) == \A n \in DOMAIN g : \A i \in DOMAIN g[n].parents : g[n].parents[i] \in 1..(n - 1)

\* The sets of commits up to c that have c and the parents of their members, and what all have.
Whole(g, c) == {S \in SUBSET (1..c) :
                   c \in S /\ \A m \in S : \A i \in DOMAIN g[m].parents : g[m].parents[i] \in S}
Line(g, c) == {n \in 1..c : \A S \in Whole(g, c) : n \in S}

\* A set of numbers that is not empty has a least one.
LEMMA LeastNumber ==
    ASSUME NEW S \in SUBSET Nat, S # {}
    PROVE  \E x \in S : \A y \in S : x <= y
<1>1. PICK x \in S : \A y \in S : ~(<<y, x>> \in OpToRel(<, Nat))
    BY NatLessThanWellFounded, WFMin, Zenon
<1>2. ASSUME NEW y \in S PROVE x <= y
    <2>1. ~(<<y, x>> \in OpToRel(<, Nat))
        BY <1>1, Zenon
    <2>2. ~(y < x)
        <3> SUFFICES ASSUME y < x PROVE FALSE
            OBVIOUS
        <3>1. <<y, x>> \in OpToRel(<, Nat)
            BY Zenon DEF OpToRel
        <3> QED BY <2>1, <3>1, Zenon
    <2> QED BY <2>2
<1> QED BY <1>2

\* A commit is in its own line, and the whole past of what is in it is too.
LEMMA LineSelf ==
    ASSUME NEW g, NEW c \in Nat \ {0}
    PROVE  c \in Line(g, c)
BY DEF Line, Whole

\* The line of a commit has the lines of its members.
LEMMA LineUp ==
    ASSUME NEW g, NEW k \in Nat, DOMAIN g = 1..k, Rooted(g), NEW c \in 1..k,
           NEW b \in Line(g, c), NEW a \in Line(g, b)
    PROVE  a \in Line(g, c)
<1>1. b \in 1..c /\ a \in 1..b /\ a \in 1..c
    BY DEF Line
<1>2. ASSUME NEW S \in Whole(g, c) PROVE a \in S
    <2>1. S \subseteq 1..c /\ b \in S
        BY <1>2 DEF Line, Whole
    <2>2. S \cap (1..b) \in Whole(g, b)
        <3>1. b \in S \cap (1..b)
            BY <1>1, <2>1
        <3>2. ASSUME NEW m \in S \cap (1..b), NEW i \in DOMAIN g[m].parents
              PROVE  g[m].parents[i] \in S \cap (1..b)
            <4>1. g[m].parents[i] \in S
                BY <1>2 DEF Whole
            <4>2. m \in 1..k
                BY <1>1
            <4>3. g[m].parents[i] \in 1..(m - 1)
                BY <4>2 DEF Rooted
            <4> QED BY <4>1, <4>2, <4>3, <1>1
        <3> QED BY <3>1, <3>2 DEF Whole
    <2> QED BY <2>2 DEF Line
<1> QED BY <1>1, <1>2 DEF Line

\* ... and its parents.
LEMMA LineParents ==
    ASSUME NEW g, NEW k \in Nat, DOMAIN g = 1..k, Rooted(g), NEW c \in 1..k,
           NEW i \in DOMAIN g[c].parents
    PROVE  g[c].parents[i] \in Line(g, c)
<1>1. g[c].parents[i] \in 1..(c - 1)
    BY DEF Rooted
<1>2. g[c].parents[i] \in 1..c
    BY <1>1
<1>3. ASSUME NEW S \in Whole(g, c) PROVE g[c].parents[i] \in S
    BY <1>3 DEF Whole
<1> QED BY <1>2, <1>3 DEF Line

\* What a commit descends from is the commit and what its parents descend from.
LEMMA LineSplits ==
    ASSUME NEW g, NEW k \in Nat, DOMAIN g = 1..k, Rooted(g), NEW c \in 1..k
    PROVE  Line(g, c) = {c} \cup UNION {Line(g, g[c].parents[i]) : i \in DOMAIN g[c].parents}
<1> DEFINE S == {c} \cup UNION {Line(g, g[c].parents[i]) : i \in DOMAIN g[c].parents}
<1>1. ASSUME NEW i \in DOMAIN g[c].parents
      PROVE  /\ g[c].parents[i] \in 1..(c - 1) /\ g[c].parents[i] \in 1..k
             /\ g[c].parents[i] \in Line(g, c)
    BY LineParents DEF Rooted
<1>2. S \subseteq Line(g, c)
    <2>1. ASSUME NEW i \in DOMAIN g[c].parents, NEW n \in Line(g, g[c].parents[i])
          PROVE  n \in Line(g, c)
        BY <1>1, LineUp
    <2> QED BY <2>1, LineSelf
<1>3. S \in Whole(g, c)
    <2>1. S \subseteq 1..c
        BY <1>2 DEF Line
    <2>2. ASSUME NEW m \in S, NEW j \in DOMAIN g[m].parents
          PROVE  g[m].parents[j] \in S
        <3>1. CASE m = c
            <4>1. g[c].parents[j] \in Line(g, g[c].parents[j])
                BY <1>1, <2>2, <3>1, LineSelf
            <4> QED BY <4>1, <2>2, <3>1
        <3>2. CASE m # c
            <4>1. PICK i \in DOMAIN g[c].parents : m \in Line(g, g[c].parents[i])
                BY <3>2, <2>2
            <4>2. m \in 1..k
                BY <4>1, <1>1 DEF Line
            <4>3. g[m].parents[j] \in Line(g, m)
                BY <4>2, <2>2, LineParents
            <4>4. g[m].parents[j] \in Line(g, g[c].parents[i])
                BY <4>1, <4>3, <1>1, LineUp
            <4> QED BY <4>4
        <3> QED BY <3>1, <3>2
    <2> QED BY <2>1, <2>2 DEF Whole
<1>4. Line(g, c) \subseteq S
    BY <1>3 DEF Line
<1> QED BY <1>2, <1>4

\* The recursive definition finds the line.
LEMMA ReachIsLine ==
    ASSUME NEW g, Len(g) \in Nat, DOMAIN g = 1..Len(g), Rooted(g), NEW c \in 0..Len(g)
    PROVE  Reach(g, c) = Line(g, c)
<1> DEFINE Next(f) == [n \in 0..Len(g) |->
                          IF n = 0 THEN {}
                          ELSE {n} \cup UNION {f[g[n].parents[i]] : i \in DOMAIN g[n].parents}]
           reach == CHOOSE f : f = Next(f)
           lines == [n \in 0..Len(g) |-> Line(g, n)]
<1>a. ASSUME NEW f, NEW n \in 1..Len(g)
      PROVE  Next(f)[n] = {n} \cup UNION {f[g[n].parents[i]] : i \in DOMAIN g[n].parents}
    <2>1. n \in 0..Len(g) /\ n # 0
        OBVIOUS
    <2> QED BY <2>1
<1>b. ASSUME NEW f PROVE Next(f)[0] = {}
    <2>1. 0 \in 0..Len(g)
        OBVIOUS
    <2> QED BY <2>1
<1>1. ASSUME NEW n \in 1..Len(g), NEW i \in DOMAIN g[n].parents
      PROVE  g[n].parents[i] \in 1..(n - 1) /\ g[n].parents[i] \in 0..Len(g)
    BY DEF Rooted
<1>2. lines = Next(lines)
    <2>1. Line(g, 0) = {}
        BY DEF Line
    <2>2. ASSUME NEW n \in 1..Len(g)
          PROVE  lines[n] = {n} \cup UNION {lines[g[n].parents[i]] : i \in DOMAIN g[n].parents}
        <3>1. \A i \in DOMAIN g[n].parents : lines[g[n].parents[i]] = Line(g, g[n].parents[i])
            BY <1>1
        <3>2. lines[n] = Line(g, n)
            OBVIOUS
        <3> HIDE DEF lines
        <3> QED BY <3>1, <3>2, LineSplits
    <2>3. lines[0] = {}
        BY <2>1
    <2>5. DOMAIN lines = 0..Len(g) /\ lines = [n \in 0..Len(g) |-> lines[n]]
        OBVIOUS
    <2>6. DOMAIN Next(lines) = 0..Len(g) /\ Next(lines) = [n \in 0..Len(g) |-> Next(lines)[n]]
        OBVIOUS
    <2> HIDE DEF lines, Next
    <2>4. \A n \in 0..Len(g) : lines[n] = Next(lines)[n]
        <3>1. \A n \in 0..Len(g) : n = 0 \/ n \in 1..Len(g)
            OBVIOUS
        <3> QED BY <2>2, <2>3, <1>a, <1>b, <3>1
    <2> QED BY <2>4, <2>5, <2>6
<1>3. reach = Next(reach)
    <2> HIDE DEF Next, lines
    <2> QED BY <1>2
<1>4. Reach(g, c) = reach[c]
    BY Zenon DEF Reach
<1> HIDE DEF reach, Next, lines
<1>5. ASSUME NEW n \in 1..Len(g)
      PROVE  reach[n] = {n} \cup UNION {reach[g[n].parents[i]] : i \in DOMAIN g[n].parents}
    BY <1>3, <1>a
<1>6. reach[0] = {}
    BY <1>3, <1>b
<1> DEFINE Wrong == {n \in 0..Len(g) : reach[n] # Line(g, n)}
<1>7. Wrong = {}
    <2> SUFFICES ASSUME Wrong # {} PROVE FALSE
        OBVIOUS
    <2>1. Wrong \in SUBSET Nat
        OBVIOUS
    <2>2. PICK x \in Wrong : \A y \in Wrong : x <= y
        BY <2>1, LeastNumber
    <2>3. x # 0
        BY <1>6 DEF Line
    <2>4. x \in 1..Len(g)
        BY <2>3
    <2>5. ASSUME NEW i \in DOMAIN g[x].parents
          PROVE  reach[g[x].parents[i]] = Line(g, g[x].parents[i])
        <3>1. g[x].parents[i] \in 1..(x - 1) /\ g[x].parents[i] \in 0..Len(g)
            BY <1>1, <2>4
        <3>2. ~(x <= g[x].parents[i])
            BY <3>1, <2>4
        <3> QED BY <3>1, <3>2, <2>2
    <2>6. reach[x] = {x} \cup UNION {Line(g, g[x].parents[i]) : i \in DOMAIN g[x].parents}
        BY <1>5, <2>4, <2>5
    <2>7. Line(g, x) = {x} \cup UNION {Line(g, g[x].parents[i]) : i \in DOMAIN g[x].parents}
        BY <2>4, LineSplits
    <2> QED BY <2>6, <2>7, <2>2
<1> QED BY <1>4, <1>7

\* What a commit descends from, without the recursion.
LEMMA ReachFacts ==
    ASSUME NEW g \in Seq(Commit), Rooted(g)
    PROVE  /\ Reach(g, NoCommit) = {}
           /\ \A c \in 0..Len(g) : Reach(g, c) \subseteq 1..c /\ Reach(g, c) \subseteq DOMAIN g
           /\ \A c \in DOMAIN g : c \in Reach(g, c)
           /\ \A c \in 0..Len(g) : \A b \in Reach(g, c) : Reach(g, b) \subseteq Reach(g, c)
           /\ \A c \in DOMAIN g : \A i \in DOMAIN g[c].parents :
                 /\ g[c].parents[i] \in 1..(c - 1) /\ g[c].parents[i] \in DOMAIN g
                 /\ g[c].parents[i] \in Reach(g, c)
<1>1. Len(g) \in Nat /\ DOMAIN g = 1..Len(g)
    OBVIOUS
<1>2. \A c \in 0..Len(g) : Reach(g, c) = Line(g, c)
    BY <1>1, ReachIsLine
<1>3. Line(g, NoCommit) = {} /\ \A c \in 0..Len(g) : Line(g, c) \subseteq 1..c
    BY <1>1 DEF Line, NoCommit
<1>4. Reach(g, NoCommit) = {}
    BY <1>1, <1>2, <1>3 DEF NoCommit
<1>5. \A c \in 0..Len(g) : Reach(g, c) \subseteq 1..c /\ Reach(g, c) \subseteq DOMAIN g
    BY <1>1, <1>2, <1>3
<1>6. \A c \in DOMAIN g : c \in Reach(g, c)
    BY <1>1, <1>2, LineSelf
<1>7. ASSUME NEW c \in 0..Len(g), NEW b \in Reach(g, c) PROVE Reach(g, b) \subseteq Reach(g, c)
    <2>1. c \in 1..Len(g) /\ b \in 1..Len(g) /\ b \in Line(g, c)
        BY <1>1, <1>2, <1>5
    <2>2. Line(g, b) \subseteq Line(g, c)
        BY <1>1, <2>1, LineUp
    <2> QED BY <1>1, <1>2, <2>1, <2>2
<1>8. ASSUME NEW c \in DOMAIN g, NEW i \in DOMAIN g[c].parents
      PROVE  /\ g[c].parents[i] \in 1..(c - 1) /\ g[c].parents[i] \in DOMAIN g
             /\ g[c].parents[i] \in Reach(g, c)
    <2>1. g[c].parents[i] \in 1..(c - 1)
        BY DEF Rooted
    <2>2. g[c].parents[i] \in Line(g, c)
        BY <1>1, LineParents
    <2> QED BY <1>1, <1>2, <2>1, <2>2
<1> QED BY <1>4, <1>5, <1>6, <1>7, <1>8

\* The graph h is g and one more commit, whose parents are in g.
Adds(g, h, x) ==
    /\ g \in Seq(Commit) /\ Rooted(g) /\ x \in Commit
    /\ \A i \in DOMAIN x.parents : x.parents[i] \in DOMAIN g
    /\ h \in Seq(Commit) /\ Len(h) = Len(g) + 1 /\ h[Len(g) + 1] = x
    /\ \A c \in DOMAIN g : h[c] = g[c]
Pasts(g, x) == UNION {Reach(g, x.parents[i]) : i \in DOMAIN x.parents}

\* A new commit descends from its parents and what they descend from, and changes no other.
LEMMA Grown ==
    ASSUME NEW g, NEW h, NEW x, Adds(g, h, x)
    PROVE  /\ DOMAIN h = DOMAIN g \cup {Len(g) + 1}
           /\ Rooted(h)
           /\ \A c \in 0..Len(g) : Reach(h, c) = Reach(g, c)
           /\ Reach(h, Len(g) + 1) = {Len(g) + 1} \cup Pasts(g, x)
<1> USE DEF Adds
<1>1. /\ Len(g) \in Nat /\ DOMAIN g = 1..Len(g)
      /\ DOMAIN h = 1..(Len(g) + 1)
    OBVIOUS
<1>2. DOMAIN h = DOMAIN g \cup {Len(g) + 1}
    BY <1>1
<1>3. Rooted(h)
    <2> SUFFICES ASSUME NEW n \in DOMAIN h, NEW i \in DOMAIN h[n].parents
                 PROVE  h[n].parents[i] \in 1..(n - 1)
        BY DEF Rooted
    <2>1. CASE n \in DOMAIN g
        <3>1. h[n] = g[n]
            BY <2>1, <1>1
        <3>2. g[n].parents[i] \in 1..(n - 1)
            BY <2>1, <3>1 DEF Rooted
        <3> QED BY <3>1, <3>2
    <2>2. CASE n = Len(g) + 1
        <3>1. h[n] = x
            BY <2>2, <1>1
        <3>2. x.parents[i] \in DOMAIN g
            BY <3>1
        <3> QED BY <2>2, <3>1, <3>2, <1>1
    <2> QED BY <2>1, <2>2, <1>2
<1>4. \A c \in 0..Len(g) : Reach(g, c) = Line(g, c)
    BY <1>1, ReachIsLine
<1>5. \A c \in 0..(Len(g) + 1) : Reach(h, c) = Line(h, c)
    <2>1. Len(h) \in Nat /\ DOMAIN h = 1..Len(h) /\ 0..Len(h) = 0..(Len(g) + 1)
        BY <1>1
    <2> QED BY <2>1, <1>3, ReachIsLine
<1>6. ASSUME NEW c \in 0..Len(g) PROVE Line(h, c) = Line(g, c)
    <2>1. \A m \in 1..c : h[m] = g[m]
        BY <1>1
    <2>2. ASSUME NEW S \in SUBSET (1..c) PROVE S \in Whole(h, c) <=> S \in Whole(g, c)
        <3>1. \A m \in S : h[m] = g[m]
            BY <2>1
        <3> QED BY <3>1 DEF Whole
    <2>3. Whole(h, c) \subseteq SUBSET (1..c) /\ Whole(g, c) \subseteq SUBSET (1..c)
        BY Zenon DEF Whole
    <2>4. \A n : (\A S \in Whole(h, c) : n \in S) <=> (\A S \in Whole(g, c) : n \in S)
        BY <2>2, <2>3, Zenon
    <2> QED BY <2>4, Zenon DEF Line
<1>7. \A c \in 0..Len(g) : Reach(h, c) = Reach(g, c)
    BY <1>1, <1>4, <1>5, <1>6
<1>8. Line(h, Len(g) + 1) = {Len(g) + 1} \cup UNION {Line(h, x.parents[i]) : i \in DOMAIN x.parents}
    <2> DEFINE k == Len(g) + 1
    <2>1. k \in Nat /\ DOMAIN h = 1..k /\ k \in 1..k /\ h[k] = x
        BY <1>1
    <2> HIDE DEF k
    <2>2. Line(h, k) = {k} \cup UNION {Line(h, h[k].parents[i]) : i \in DOMAIN h[k].parents}
        BY <1>3, <2>1, LineSplits
    <2>3. Line(h, k) = {k} \cup UNION {Line(h, x.parents[i]) : i \in DOMAIN x.parents}
        BY <2>1, <2>2
    <2> QED BY <2>3 DEF k
<1>9. ASSUME NEW i \in DOMAIN x.parents
      PROVE  Line(h, x.parents[i]) = Reach(g, x.parents[i])
    <2>1. x.parents[i] \in 0..Len(g)
        BY <1>1
    <2> QED BY <2>1, <1>4, <1>6
<1>10. Reach(h, Len(g) + 1) =
                 {Len(g) + 1} \cup UNION {Reach(g, x.parents[i]) : i \in DOMAIN x.parents}
    <2>1. Len(g) + 1 \in 0..(Len(g) + 1)
        BY <1>1
    <2> QED BY <2>1, <1>5, <1>8, <1>9
<1> HIDE DEF Adds
<1> QED BY <1>1, <1>2, <1>3, <1>7, <1>10 DEF Pasts

-----------------------------------------------------------------------------
GraphOK ==
    /\ graph \in Seq(Commit) /\ Len(graph) \in 1..MaxCommits
    /\ Rooted(graph)
    /\ github \in DOMAIN graph

\* What counts as pushed is on GitHub, unless a push noted what it did not send; what is merged is.
HeadsOK ==
    /\ local \in {NoCommit} \cup DOMAIN graph
    /\ tracking \in {NoCommit} \cup DOMAIN graph
    /\ ~retracted => tracking \in {NoCommit} \cup Ancestors(github)
    /\ mergeHead \in {NoCommit} \cup Ancestors(github)
    /\ local = NoCommit <=> tracking = NoCommit
    /\ local = NoCommit => mergeHead = NoCommit

FilesOK ==
    /\ index \in [Files -> Lines \cup {Absent, Marked, Unmerged}]
    /\ work \in Tree

\* A pull has read what GitHub had and where its branch parted from here; a push has read a
\* commit of the branch, and what it notes GitHub took.
Pulls == {"applying", "recording", "checkout", "marking", "heading"}
JobOK(p) ==
    /\ at[p] \notin {"idle", "initializing", "saving"} => local # NoCommit
    /\ at[p] \in Pulls => job[p].remote \in Ancestors(github) /\ job[p].local \in DOMAIN graph
    /\ at[p] \in Pulls => job[p].base \in {NoCommit} \cup Ancestors(job[p].remote)
    /\ at[p] \in {"sending", "noting"} => job[p].local \in DOMAIN graph
    /\ (at[p] = "noting" /\ ~retracted) => job[p].local \in Ancestors(github)
JobsOK == \A p \in Processes : JobOK(p)

\* A worker that is busy holds a message.
Busy == {w \in Workers : at[w] # "idle"}
ProcessOK ==
    /\ at \in [Processes -> Points] /\ job \in [Processes -> Job]
    /\ queue \in 0..Cardinality(GitRequests)
    /\ Cardinality(Busy) <= queue

RestOK ==
    /\ config \in Config
    /\ duties \in Duties /\ saves \in 0..MaxSaves /\ failures \in 0..MaxFailures
    /\ touched \subseteq Files /\ skipped \subseteq Files
    /\ overlapped \in BOOLEAN /\ broken \in BOOLEAN /\ retracted \in BOOLEAN

WellFormed == GraphOK /\ HeadsOK /\ FilesOK /\ JobsOK /\ ProcessOK /\ RestOK

\* The graph grows, and so does what GitHub has; the directory stays a repository.
Forward ==
    /\ GraphOK'
    /\ DOMAIN graph \subseteq DOMAIN graph' /\ Len(graph) <= Len(graph')
    /\ \A c \in DOMAIN graph : graph'[c] = graph[c]
    /\ \A c \in 0..Len(graph) : Reach(graph', c) = Reach(graph, c)
    /\ Reach(graph, github) \subseteq Reach(graph', github')
    /\ local # NoCommit => local' # NoCommit

\* The same of the graph, whose commits are numbers.
LEMMA GraphFacts ==
    ASSUME GraphOK
    PROVE  /\ Reach(graph, NoCommit) = {}
           /\ DOMAIN graph = 1..Len(graph) /\ Len(graph) \in Nat
           /\ DOMAIN graph \subseteq 1..MaxCommits /\ github \in DOMAIN graph
           /\ \A c \in 0..Len(graph) : Reach(graph, c) \subseteq 1..c /\ Reach(graph, c) \subseteq DOMAIN graph
           /\ \A c \in DOMAIN graph : c \in 0..Len(graph) /\ c # NoCommit /\ c \in Reach(graph, c)
           /\ \A c \in 0..Len(graph) : \A b \in Reach(graph, c) : Reach(graph, b) \subseteq Reach(graph, c)
           /\ \A c \in DOMAIN graph : \A i \in DOMAIN graph[c].parents :
                 /\ graph[c].parents[i] \in 1..(c - 1) /\ graph[c].parents[i] \in DOMAIN graph
                 /\ graph[c].parents[i] \in Reach(graph, c)
<1>1. DOMAIN graph = 1..Len(graph) /\ Len(graph) \in Nat
    BY DEF GraphOK
<1>3. DOMAIN graph \subseteq 1..MaxCommits /\ github \in DOMAIN graph
    BY <1>1, GitAssumption DEF GraphOK
<1>2. \A c \in DOMAIN graph : c \in 0..Len(graph) /\ c # NoCommit
    BY <1>1 DEF NoCommit
<1> QED BY <1>1, <1>2, <1>3, ReachFacts, Zenon DEF GraphOK

\* A sequence with one more element.
LEMMA Appended ==
    ASSUME NEW g \in Seq(Commit), NEW x \in Commit, NEW h, h = Append(g, x)
    PROVE  /\ h \in Seq(Commit) /\ Len(h) = Len(g) + 1
           /\ h[Len(g) + 1] = x /\ \A c \in DOMAIN g : h[c] = g[c]
OBVIOUS

\* A commit is made, and what the graph is then.
Makes(g, h, x) ==
    /\ g \in Seq(Commit) /\ Rooted(g) /\ Len(g) \in Nat /\ Len(g) < MaxCommits
    /\ x \in Commit /\ \A i \in DOMAIN x.parents : x.parents[i] \in DOMAIN g
    /\ h = Append(g, x)
Made(g, h, x) ==
    /\ h \in Seq(Commit) /\ Len(h) \in 1..MaxCommits
    /\ Len(h) = Len(g) + 1 /\ DOMAIN h = DOMAIN g \cup {Len(g) + 1}
    /\ Rooted(h)
    /\ h[Len(g) + 1] = x /\ \A c \in DOMAIN g : h[c] = g[c]
    /\ \A c \in 0..Len(g) : Reach(h, c) = Reach(g, c)
    /\ Reach(h, Len(g) + 1) = {Len(g) + 1} \cup Pasts(g, x)

\* A commit that is made keeps the graph in order.
LEMMA NewCommit ==
    ASSUME NEW g, NEW h, NEW x, Makes(g, h, x)
    PROVE  Made(g, h, x)
<1> USE DEF Makes
<1>1. /\ h \in Seq(Commit) /\ Len(h) = Len(g) + 1
      /\ h[Len(g) + 1] = x /\ \A c \in DOMAIN g : h[c] = g[c]
    BY Appended
<1>2. Len(h) \in 1..MaxCommits
    BY <1>1, GitAssumption
<1>3. Adds(g, h, x)
    BY <1>1 DEF Adds
<1>4. /\ DOMAIN h = DOMAIN g \cup {Len(g) + 1}
      /\ Rooted(h)
      /\ \A c \in 0..Len(g) : Reach(h, c) = Reach(g, c)
      /\ Reach(h, Len(g) + 1) = {Len(g) + 1} \cup Pasts(g, x)
    BY <1>3, Grown, Zenon
<1> QED BY <1>1, <1>2, <1>4, Zenon DEF Made

\* A commit made on GitHub descends from what GitHub has.
LEMMA UpstreamCommits ==
    ASSUME WellFormed, NEW tree \in Trees, UpstreamCommit(tree)
    PROVE  /\ graph' \in Seq(Commit) /\ Len(graph') \in 1..MaxCommits
           /\ Len(graph') = Len(graph) + 1 /\ DOMAIN graph' = DOMAIN graph \cup {Len(graph) + 1}
           /\ Rooted(graph')
           /\ graph'[Len(graph) + 1].tree = tree /\ \A c \in DOMAIN graph : graph'[c] = graph[c]
           /\ \A c \in 0..Len(graph) : Reach(graph', c) = Reach(graph, c)
           /\ Reach(graph', Len(graph) + 1) = {Len(graph) + 1} \cup Reach(graph, github)
<1> DEFINE x == [tree |-> tree, parents |-> <<github>>]
<1>1. tree \in Tree
    BY GitAssumption DEF Tree
<1>2. github \in 1..MaxCommits
    <2>1. GraphOK
        BY DEF WellFormed
    <2> QED BY <2>1, GraphFacts
<1>3. x \in Commit
    BY <1>1, <1>2 DEF Commit
<1>4. DOMAIN x.parents = {1} /\ x.parents[1] = github
    OBVIOUS
<1>5. /\ graph \in Seq(Commit) /\ Rooted(graph) /\ Len(graph) \in Nat /\ Len(graph) < MaxCommits
      /\ graph' = Append(graph, x) /\ github \in DOMAIN graph
    BY DEF WellFormed, GraphOK, UpstreamCommit
<1>6. x.tree = tree
    OBVIOUS
<1> HIDE DEF x
<1>7. \A i \in DOMAIN x.parents : x.parents[i] \in DOMAIN graph
    BY <1>4, <1>5
<1>8. Pasts(graph, x) = Reach(graph, github)
    BY <1>4 DEF Pasts
<1>9. Makes(graph, graph', x)
    BY <1>3, <1>5, <1>7, Zenon DEF Makes
<1>10. Made(graph, graph', x)
    BY <1>9, NewCommit, Zenon
<1> QED BY <1>6, <1>8, <1>10, Zenon DEF Made

\* A commit that does not raise.
Commits(p) ==
    /\ at[p] = "committing"
    /\ Conflicts = {} /\ Len(graph) < MaxCommits
    /\ graph' = Append(graph, [tree |-> index,
                               parents |-> IF mergeHead = NoCommit THEN <<local>>
                                           ELSE <<local, mergeHead>>])
    /\ local' = Len(graph) + 1
    /\ Continues(p, "cleaning", job[p])
    /\ UNCHANGED <<tracking, index, work, mergeHead, github, touched, skipped>>

\* A commit is made, or raises and leaves everything as it is.
LEMMA CommitKinds ==
    ASSUME NEW p \in Processes, CommitStaged(p)
    PROVE  \/ Commits(p)
           \/ /\ at[p] = "committing" /\ Ended(p)
              /\ UNCHANGED <<graph, local, tracking, index, work, mergeHead, github, touched, skipped>>
BY Zenon DEF CommitStaged, Commits

\* A commit made here descends from the branch, and from what is being merged.
LEMMA NewCommits ==
    ASSUME WellFormed, NEW p \in Processes, Commits(p)
    PROVE  /\ graph' \in Seq(Commit) /\ Len(graph') \in 1..MaxCommits
           /\ Len(graph') = Len(graph) + 1 /\ DOMAIN graph' = DOMAIN graph \cup {Len(graph) + 1}
           /\ Rooted(graph')
           /\ graph'[Len(graph) + 1].tree = index /\ \A c \in DOMAIN graph : graph'[c] = graph[c]
           /\ \A c \in 0..Len(graph) : Reach(graph', c) = Reach(graph, c)
           /\ Reach(graph', Len(graph) + 1) =
                 {Len(graph) + 1} \cup Reach(graph, local) \cup Reach(graph, mergeHead)
<1> DEFINE heads == IF mergeHead = NoCommit THEN <<local>> ELSE <<local, mergeHead>>
           x == [tree |-> index, parents |-> heads]
<1>1. /\ local \in DOMAIN graph /\ (mergeHead = NoCommit \/ mergeHead \in DOMAIN graph)
      /\ DOMAIN graph \subseteq 1..MaxCommits
    <2>1. GraphOK /\ HeadsOK /\ local # NoCommit
        BY DEF WellFormed, Commits, JobsOK, JobOK
    <2>2. github \in 0..Len(graph)
        BY <2>1, GraphFacts
    <2>3. Reach(graph, github) \subseteq DOMAIN graph
        BY <2>1, <2>2, GraphFacts
    <2>4. DOMAIN graph \subseteq 1..MaxCommits
        BY <2>1, GraphFacts
    <2> QED BY <2>1, <2>3, <2>4 DEF HeadsOK, Ancestors
<1>2. index \in Tree
    <2>1. /\ index \in [Files -> Lines \cup {Absent, Marked, Unmerged}]
          /\ \A f \in Files : index[f] # Unmerged
        BY DEF WellFormed, FilesOK, Commits, Conflicts
    <2> QED BY <2>1 DEF Tree
<1>3. heads \in Seq(1..MaxCommits)
    <2>1. CASE mergeHead = NoCommit
        BY <1>1, <2>1
    <2>2. CASE mergeHead # NoCommit
        BY <1>1, <2>2
    <2> QED BY <2>1, <2>2
<1>4. x \in Commit
    BY <1>2, <1>3 DEF Commit
<1>5. x.parents = heads /\ x.tree = index
    OBVIOUS
<1>6. /\ graph \in Seq(Commit) /\ Rooted(graph) /\ Len(graph) \in Nat /\ Len(graph) < MaxCommits
      /\ graph' = Append(graph, x)
    BY DEF WellFormed, GraphOK, Commits
<1>7. Reach(graph, NoCommit) = {}
    BY GraphFacts DEF WellFormed
<1>8. /\ \A i \in DOMAIN heads : heads[i] \in DOMAIN graph
      /\ UNION {Reach(graph, heads[i]) : i \in DOMAIN heads}
            = Reach(graph, local) \cup Reach(graph, mergeHead)
    <2>1. CASE mergeHead = NoCommit
        <3>1. DOMAIN heads = {1} /\ heads[1] = local
            BY <2>1
        <3> HIDE DEF heads, x
        <3> QED BY <1>1, <1>7, <2>1, <3>1
    <2>2. CASE mergeHead # NoCommit
        <3>1. DOMAIN heads = {1, 2} /\ heads[1] = local /\ heads[2] = mergeHead
            BY <2>2
        <3> HIDE DEF heads, x
        <3> QED BY <1>1, <2>2, <3>1
    <2> QED BY <2>1, <2>2
<1> HIDE DEF x, heads
<1>9. /\ \A i \in DOMAIN x.parents : x.parents[i] \in DOMAIN graph
      /\ Pasts(graph, x) = Reach(graph, local) \cup Reach(graph, mergeHead)
    BY <1>5, <1>8 DEF Pasts
<1>10. Makes(graph, graph', x)
    BY <1>4, <1>6, <1>9, Zenon DEF Makes
<1>11. Made(graph, graph', x)
    BY <1>10, NewCommit, Zenon
<1>12. Reach(graph', Len(graph) + 1)
          = {Len(graph) + 1} \cup Reach(graph, local) \cup Reach(graph, mergeHead)
    BY <1>9, <1>11 DEF Made
<1> QED BY <1>5, <1>11, <1>12, Zenon DEF Made

-----------------------------------------------------------------------------
(* The graph and the refs.                                                   *)

\* A ref names a commit.
LEMMA Refs ==
    ASSUME GraphOK, HeadsOK
    PROVE  /\ Ancestors(github) \subseteq DOMAIN graph
           /\ tracking \in {NoCommit} \cup DOMAIN graph
           /\ mergeHead \in {NoCommit} \cup DOMAIN graph
           /\ ~retracted => Reach(graph, tracking) \subseteq Reach(graph, github)
           /\ github \in 0..Len(graph) /\ local \in 0..Len(graph)
           /\ tracking \in 0..Len(graph) /\ mergeHead \in 0..Len(graph)
<1>1. github \in DOMAIN graph /\ DOMAIN graph \subseteq 0..Len(graph) /\ NoCommit \in 0..Len(graph)
    BY GraphFacts DEF NoCommit
<1>2. Reach(graph, github) \subseteq DOMAIN graph
    BY <1>1, GraphFacts
<1>3. ASSUME ~retracted PROVE Reach(graph, tracking) \subseteq Reach(graph, github)
    <2>1. CASE tracking = NoCommit
        BY <2>1, GraphFacts
    <2>2. CASE tracking \in Reach(graph, github)
        BY <1>1, <2>2, GraphFacts
    <2> QED BY <1>3, <2>1, <2>2 DEF HeadsOK, Ancestors
<1> QED BY <1>1, <1>2, <1>3 DEF HeadsOK, Ancestors

\* A commit that is not the first has a parent, and the first of them is a commit.
LEMMA FirstParent ==
    ASSUME GraphOK, NEW c \in DOMAIN graph, graph[c].parents # <<>>
    PROVE  /\ Head(graph[c].parents) \in DOMAIN graph
           /\ Head(graph[c].parents) \in Reach(graph, c)
<1>1. graph[c].parents \in Seq(1..MaxCommits)
    <2>1. graph[c] \in Commit
        BY DEF GraphOK
    <2> QED BY <2>1 DEF Commit
<1>2. ASSUME NEW s \in Seq(1..MaxCommits), s # <<>>
      PROVE  1 \in DOMAIN s /\ Head(s) = s[1]
    BY <1>2
<1>3. 1 \in DOMAIN graph[c].parents /\ Head(graph[c].parents) = graph[c].parents[1]
    BY <1>1, <1>2, Zenon
<1> QED BY <1>3, GraphFacts

\* A step that makes no commit.
LEMMA SameGraph ==
    ASSUME GraphOK, graph' = graph, github' \in DOMAIN graph,
           Reach(graph, github) \subseteq Reach(graph, github'),
           local # NoCommit => local' # NoCommit
    PROVE  Forward
BY DEF GraphOK, Forward

\* A step that makes one.
LEMMA GrownGraph ==
    ASSUME GraphOK, graph' \in Seq(Commit) /\ Len(graph') \in 1..MaxCommits,
           Len(graph') = Len(graph) + 1, DOMAIN graph' = DOMAIN graph \cup {Len(graph) + 1},
           Rooted(graph'),
           \A c \in DOMAIN graph : graph'[c] = graph[c],
           \A c \in 0..Len(graph) : Reach(graph', c) = Reach(graph, c),
           github' \in DOMAIN graph', Reach(graph, github) \subseteq Reach(graph', github'),
           local # NoCommit => local' # NoCommit
    PROVE  Forward
BY DEF GraphOK, Forward

KeepsRefs(p) ==
    \/ ValidateToken(p) \/ Disconnect(p) \/ Configure(p) \/ SaveConfig(p)
    \/ RequestSync(p) \/ StartPull(p) \/ Inspect(p) \/ StartPush(p) \/ SyncChecks(p)
    \/ ReadRefs(p) \/ RecordConflicts(p) \/ WriteMarkers(p) \/ StageAll(p)
    \/ (\E f \in Files : ResolveConflict(p, f)) \/ Checkout(p) \/ StageMerge(p)
    \/ CallFails(p) \/ Crash(p)

MovesRefs(p) ==
    \/ InitializeRepo(p) \/ Fetch(p) \/ ForgetMerge(p) \/ PullFetch(p) \/ FastForward(p)
    \/ AnnounceConflicts(p) \/ WriteMergeHead(p) \/ Send(p) \/ NotePush(p)
    \/ CommitStaged(p) \/ EndMerge(p)
    \/ DiscardUnpushed(p) \/ (\E c \in DOMAIN graph : DiscardCommit(p, c))

LEMMA KeptRefs ==
    ASSUME NEW p \in Processes, KeepsRefs(p)
    PROVE  UNCHANGED <<graph, github, local, tracking, mergeHead>>
BY DEF KeepsRefs, ValidateToken, Disconnect, Configure, SaveConfig, RequestSync, StartPull, Inspect,
       StartPush, SyncChecks, ReadRefs, RecordConflicts, WriteMarkers, StageAll, ResolveConflict,
       Checkout, StageMerge, CallFails, Crash, repoVars, Materialize

LEMMA StepKinds ==
    ASSUME NEW p \in Processes, Step(p)
    PROVE  KeepsRefs(p) \/ MovesRefs(p)
BY DEF Step, KeepsRefs, MovesRefs

\* A process begins, does its work without a word on the others, or dies.
LEMMA PathKinds ==
    ASSUME NEW p \in Processes, Step(p)
    PROVE  Meets(p) \/ UNCHANGED pathVars \/ Send(p) \/ Crash(p)
<1>1. CASE ValidateToken(p) \/ Disconnect(p) \/ Fetch(p) \/ RequestSync(p)
            \/ (\E f \in Files : ResolveConflict(p, f))
            \/ DiscardUnpushed(p) \/ (\E c \in DOMAIN graph : DiscardCommit(p, c))
    BY <1>1, Zenon DEF ValidateToken, Disconnect, Fetch, RequestSync, ResolveConflict,
           DiscardUnpushed, DiscardCommit, AtOnce
<1>2. CASE Configure(p) \/ StartPull(p) \/ StartPush(p) \/ StageAll(p)
    BY <1>2, Zenon DEF Configure, StartPull, StartPush, StageAll, BeginRequest
<1>3. CASE InitializeRepo(p) \/ SaveConfig(p) \/ Inspect(p) \/ ForgetMerge(p) \/ PullFetch(p)
            \/ FastForward(p) \/ Checkout(p) \/ AnnounceConflicts(p) \/ RecordConflicts(p)
            \/ WriteMarkers(p) \/ StageMerge(p) \/ WriteMergeHead(p)
    BY <1>3 DEF InitializeRepo, SaveConfig, Inspect, ForgetMerge, PullFetch, FastForward, Checkout,
           AnnounceConflicts, RecordConflicts, WriteMarkers, StageMerge, WriteMergeHead, pathVars
<1>4. CASE SyncChecks(p) \/ ReadRefs(p) \/ NotePush(p) \/ CommitStaged(p) \/ EndMerge(p)
            \/ CallFails(p)
    BY <1>4 DEF SyncChecks, ReadRefs, NotePush, CommitStaged, EndMerge, CallFails, pathVars
<1> QED BY <1>1, <1>2, <1>3, <1>4, Zenon DEF Step

\* What happened once is not forgotten.
LEMMA Histories ==
    ASSUME GitNext
    PROVE  /\ overlapped => overlapped'
           /\ broken => broken'
           /\ retracted => retracted'
<1>1. ASSUME NEW p \in Processes, Step(p)
      PROVE  /\ overlapped => overlapped'
             /\ broken => broken'
             /\ retracted => retracted'
    <2>1. CASE Meets(p)
        BY <2>1, Zenon DEF Meets
    <2>2. CASE UNCHANGED pathVars
        BY <2>2 DEF pathVars
    <2>3. CASE Send(p)
        <3>1. UNCHANGED <<overlapped, broken>>
            BY <2>3 DEF Send
        <3>2. retracted' = retracted \/ retracted' = (retracted \/ job[p].local \notin Ancestors(local))
            BY <2>3, Zenon DEF Send
        <3>3. retracted => retracted'
            BY <3>2, Zenon
        <3> QED BY <3>1, <3>3
    <2>4. CASE Crash(p)
        <3>1. UNCHANGED <<overlapped, retracted>>
            BY <2>4 DEF Crash
        <3>2. broken' = (broken \/ at[p] \in HalfWay)
            BY <2>4, Zenon DEF Crash
        <3> QED BY <3>1, <3>2
    <2> QED BY <1>1, <2>1, <2>2, <2>3, <2>4, PathKinds, Zenon
<1>2. ASSUME ~\E p \in Processes : Step(p) PROVE UNCHANGED pathVars
    BY <1>2, Zenon DEF GitNext, SaveFile, UpstreamCommit
<1> QED BY <1>1, <1>2 DEF pathVars

\* No step takes a commit from the graph or from GitHub.
LEMMA StepForward ==
    ASSUME WellFormed, GitNext
    PROVE  Forward
<1>1. GraphOK /\ HeadsOK /\ JobsOK
    BY DEF WellFormed
<1>2. /\ github \in DOMAIN graph /\ Len(graph) \in Nat
      /\ \A c \in DOMAIN graph : c # NoCommit
    BY <1>1, GraphFacts
<1>3. ASSUME NEW p \in Processes, Step(p) PROVE Forward
    <2>1. CASE KeepsRefs(p)
        <3>1. UNCHANGED <<graph, github, local>>
            BY <2>1, KeptRefs
        <3> QED BY <1>1, <1>2, <3>1, SameGraph
    <2>2. CASE InitializeRepo(p)
        <3>1. UNCHANGED <<graph, github>> /\ local' = github
            BY <2>2 DEF InitializeRepo
        <3> QED BY <1>1, <1>2, <3>1, SameGraph
    <2>3. CASE Fetch(p) \/ ForgetMerge(p) \/ PullFetch(p) \/ AnnounceConflicts(p)
                  \/ WriteMergeHead(p) \/ NotePush(p) \/ EndMerge(p)
        <3>1. UNCHANGED <<graph, github, local>>
            BY <2>3 DEF Fetch, ForgetMerge, PullFetch, AnnounceConflicts, WriteMergeHead, NotePush,
                        EndMerge
        <3> QED BY <1>1, <1>2, <3>1, SameGraph
    <2>4. CASE FastForward(p)
        <3>1. UNCHANGED <<graph, github>> /\ local' = job[p].remote /\ at[p] \in Pulls
            BY <2>4 DEF FastForward, Pulls
        <3>2. job[p].remote \in DOMAIN graph
            BY <3>1, <1>1, Refs DEF JobsOK, JobOK
        <3> QED BY <1>1, <1>2, <3>1, <3>2, SameGraph
    <2>5. CASE Send(p)
        <3>1. UNCHANGED <<graph, local>>
            BY <2>5 DEF Send, repoVars
        <3>2. CASE github' = github
            BY <3>1, <3>2, <1>1, <1>2, SameGraph
        <3>3. CASE github' # github
            <4>1. github' = local /\ github \in Reach(graph, local)
                BY <2>5, <3>3 DEF Send, Ancestors
            <4>2. local \in DOMAIN graph
                BY <4>1, <1>1, GraphFacts DEF HeadsOK
            <4>3. Reach(graph, github) \subseteq Reach(graph, github')
                BY <4>1, <4>2, <1>1, GraphFacts
            <4> QED BY <1>1, <1>2, <3>1, <4>1, <4>2, <4>3, SameGraph
        <3> QED BY <3>2, <3>3
    <2>6. CASE CommitStaged(p)
        <3>1. CASE Commits(p)
            <4>1. /\ graph' \in Seq(Commit) /\ Len(graph') \in 1..MaxCommits
                  /\ Len(graph') = Len(graph) + 1 /\ DOMAIN graph' = DOMAIN graph \cup {Len(graph) + 1}
                  /\ Rooted(graph')
                  /\ \A c \in DOMAIN graph : graph'[c] = graph[c]
                  /\ \A c \in 0..Len(graph) : Reach(graph', c) = Reach(graph, c)
                BY <3>1, NewCommits
            <4>2. github' = github /\ local' = Len(graph) + 1
                BY <3>1 DEF Commits
            <4>3. local' # NoCommit
                BY <4>2, <1>2 DEF NoCommit
            <4>4. github \in 0..Len(graph)
                BY <1>1, GraphFacts
            <4>5. github' \in DOMAIN graph' /\ Reach(graph, github) \subseteq Reach(graph', github')
                BY <4>1, <4>2, <4>4, <1>2
            <4> QED BY <1>1, <4>1, <4>3, <4>5, GrownGraph
        <3>2. CASE ~Commits(p)
            <4>1. UNCHANGED <<graph, github, local>>
                BY <2>6, <3>2, CommitKinds
            <4> QED BY <1>1, <1>2, <4>1, SameGraph
        <3> QED BY <3>1, <3>2
    <2>7. CASE DiscardUnpushed(p)
        <3>1. UNCHANGED <<graph, github>> /\ local' = tracking /\ local # NoCommit
            BY <2>7 DEF DiscardUnpushed, ResetTo, IsGitRepo
        <3>2. local' # NoCommit
            BY <3>1, <1>1 DEF HeadsOK
        <3> QED BY <1>1, <1>2, <3>1, <3>2, SameGraph
    <2>8. ASSUME NEW c \in DOMAIN graph, DiscardCommit(p, c) PROVE Forward
        <3>1. /\ UNCHANGED <<graph, github>> /\ local' = Head(graph[c].parents)
              /\ graph[c].parents # <<>>
            BY <2>8 DEF DiscardCommit, ResetTo
        <3>2. local' # NoCommit
            BY <3>1, <1>1, <1>2, FirstParent
        <3> QED BY <1>1, <1>2, <3>1, <3>2, SameGraph
    <2> QED BY <1>3, StepKinds, <2>1, <2>2, <2>3, <2>4, <2>5, <2>6, <2>7, <2>8 DEF MovesRefs
<1>4. ASSUME NEW f \in Files, NEW line \in Lines \cup {Absent}, SaveFile(f, line) PROVE Forward
    <2>1. UNCHANGED <<graph, github, local>>
        BY <1>4 DEF SaveFile
    <2> QED BY <1>1, <1>2, <2>1, SameGraph
<1>5. ASSUME NEW tree \in Trees, UpstreamCommit(tree) PROVE Forward
    <2>1. /\ graph' \in Seq(Commit) /\ Len(graph') \in 1..MaxCommits
          /\ Len(graph') = Len(graph) + 1 /\ DOMAIN graph' = DOMAIN graph \cup {Len(graph) + 1}
          /\ Rooted(graph')
          /\ \A c \in DOMAIN graph : graph'[c] = graph[c]
          /\ \A c \in 0..Len(graph) : Reach(graph', c) = Reach(graph, c)
          /\ Reach(graph', Len(graph) + 1) = {Len(graph) + 1} \cup Reach(graph, github)
        BY <1>5, UpstreamCommits
    <2>2. github' = Len(graph) + 1 /\ local' = local
        BY <1>5 DEF UpstreamCommit
    <2>3. github' \in DOMAIN graph' /\ Reach(graph, github) \subseteq Reach(graph', github')
        BY <2>1, <2>2
    <2> QED BY <1>1, <2>1, <2>2, <2>3, GrownGraph
<1> QED BY <1>3, <1>4, <1>5 DEF GitNext

-----------------------------------------------------------------------------
\* No commit of the graph is numbered as none.
LEMMA GraphPrimed ==
    ASSUME GraphOK'
    PROVE  \A c \in DOMAIN graph' : c # NoCommit
BY DEF GraphOK, NoCommit

\* The refs stay what they are, or move to commits of the graph.
LEMMA StepHeads ==
    ASSUME WellFormed, GitNext
    PROVE  HeadsOK'
<1>1. GraphOK /\ HeadsOK /\ JobsOK /\ FilesOK
    BY DEF WellFormed
<1>2. Forward /\ GraphOK'
    BY StepForward DEF Forward
<1>3. Reach(graph, github) \subseteq Reach(graph', github') /\ DOMAIN graph \subseteq DOMAIN graph'
      /\ (local # NoCommit => local' # NoCommit)
    BY <1>2 DEF Forward
<1>4. /\ github \in DOMAIN graph /\ github \in 0..Len(graph) /\ github \in Reach(graph, github)
      /\ github # NoCommit
      /\ \A c \in 0..Len(graph) : Reach(graph', c) = Reach(graph, c)
    BY <1>1, <1>2, GraphFacts DEF Forward
<1>5. Reach(graph, github) \subseteq DOMAIN graph /\ \A c \in DOMAIN graph : c # NoCommit
    BY <1>1, Refs, GraphFacts DEF Ancestors
<1>6. ASSUME local' # local => (local # NoCommit /\ local' \in DOMAIN graph'),
             tracking' # tracking =>
                 /\ local # NoCommit /\ tracking' \in DOMAIN graph'
                 /\ ~retracted' => tracking' \in Reach(graph, github),
             mergeHead' \notin {mergeHead, NoCommit} =>
                 (local # NoCommit /\ mergeHead' \in Reach(graph, github))
      PROVE  HeadsOK'
    <2>1. local' \in {NoCommit} \cup DOMAIN graph'
        BY <1>1, <1>3, <1>6 DEF HeadsOK
    <2>2. /\ tracking' \in {NoCommit} \cup DOMAIN graph'
          /\ ~retracted' => tracking' \in {NoCommit} \cup Reach(graph', github')
        BY <1>1, <1>3, <1>6, Histories DEF HeadsOK, Ancestors
    <2>3. mergeHead' \in {NoCommit} \cup Reach(graph', github')
        BY <1>1, <1>3, <1>6 DEF HeadsOK, Ancestors
    <2>4. local' = NoCommit <=> tracking' = NoCommit
        <3>1. \A c \in DOMAIN graph' : c # NoCommit
            BY <1>2, GraphPrimed
        <3> QED BY <1>1, <1>3, <1>5, <1>6, <3>1 DEF HeadsOK
    <2>5. local' = NoCommit => mergeHead' = NoCommit
        BY <1>1, <1>3, <1>5, <1>6 DEF HeadsOK
    <2> QED BY <2>1, <2>2, <2>3, <2>4, <2>5 DEF HeadsOK, Ancestors
<1>7. ASSUME NEW p \in Processes, Step(p) PROVE HeadsOK'
    <2>1. CASE KeepsRefs(p)
        <3>1. UNCHANGED <<local, tracking, mergeHead>>
            BY <2>1, KeptRefs
        <3> QED BY <1>6, <3>1
    <2>2. CASE InitializeRepo(p)
        <3>1. local' = github /\ tracking' = github /\ UNCHANGED <<graph, github, mergeHead>>
            BY <2>2 DEF InitializeRepo
        <3>2. local' # NoCommit /\ tracking' # NoCommit
            BY <3>1, <1>4
        <3>3. /\ local' \in DOMAIN graph' /\ tracking' \in DOMAIN graph'
              /\ tracking' \in Reach(graph', github')
            BY <3>1, <1>4
        <3>4. mergeHead' \in {NoCommit} \cup Reach(graph', github')
            BY <3>1, <1>1 DEF HeadsOK, Ancestors
        <3> QED BY <3>2, <3>3, <3>4 DEF HeadsOK, Ancestors
    <2>3. CASE Fetch(p)
        <3>1. tracking' = github /\ local # NoCommit /\ UNCHANGED <<local, mergeHead>>
            BY <2>3 DEF Fetch, IsGitRepo
        <3> QED BY <1>3, <1>4, <1>6, <3>1
    <2>4. CASE ForgetMerge(p) \/ EndMerge(p)
        <3>1. mergeHead' \in {mergeHead, NoCommit} /\ UNCHANGED <<local, tracking>>
            BY <2>4 DEF ForgetMerge, EndMerge
        <3> QED BY <1>6, <3>1
    <2>5. CASE PullFetch(p)
        <3>1. tracking' \in {tracking, github} /\ at[p] = "fetching" /\ UNCHANGED <<local, mergeHead>>
            BY <2>5 DEF PullFetch
        <3>2. local # NoCommit
            BY <3>1, <1>1 DEF JobsOK, JobOK
        <3> QED BY <1>3, <1>4, <1>6, <3>1, <3>2
    <2>6. CASE FastForward(p)
        <3>1. local' = job[p].remote /\ at[p] = "applying" /\ UNCHANGED <<graph, tracking, mergeHead>>
            BY <2>6 DEF FastForward
        <3>2. local # NoCommit /\ job[p].remote \in Reach(graph, github)
            BY <3>1, <1>1 DEF JobsOK, JobOK, Pulls, Ancestors
        <3> QED BY <1>3, <1>5, <1>6, <3>1, <3>2
    <2>7. CASE AnnounceConflicts(p) \/ WriteMergeHead(p)
        <3>1. /\ mergeHead' = job[p].remote /\ at[p] \in {"applying", "heading"}
              /\ UNCHANGED <<local, tracking>>
            BY <2>7 DEF AnnounceConflicts, WriteMergeHead
        <3>2. local # NoCommit /\ job[p].remote \in Reach(graph, github)
            BY <3>1, <1>1 DEF JobsOK, JobOK, Pulls, Ancestors
        <3> QED BY <1>6, <3>1, <3>2
    <2>8. CASE Send(p)
        <3>1. UNCHANGED <<local, tracking, mergeHead>>
            BY <2>8 DEF Send, repoVars
        <3> QED BY <1>6, <3>1
    <2>9. CASE NotePush(p)
        <3>1. tracking' = job[p].local /\ at[p] = "noting" /\ UNCHANGED <<local, mergeHead>>
            BY <2>9 DEF NotePush
        <3>2. /\ local # NoCommit /\ job[p].local \in DOMAIN graph
              /\ ~retracted => job[p].local \in Reach(graph, github)
            BY <3>1, <1>1 DEF JobsOK, JobOK, Ancestors
        <3> QED BY <1>3, <1>6, <3>1, <3>2, Histories
    <2>10. CASE CommitStaged(p)
        <3>1. CASE Commits(p)
            <4>1. /\ local' = Len(graph) + 1 /\ at[p] = "committing"
                  /\ UNCHANGED <<tracking, mergeHead>>
                BY <3>1 DEF Commits
            <4>2. DOMAIN graph' = DOMAIN graph \cup {Len(graph) + 1} /\ local # NoCommit
                BY <3>1, <4>1, <1>1, NewCommits DEF JobsOK, JobOK
            <4> QED BY <1>6, <4>1, <4>2
        <3>2. CASE ~Commits(p)
            <4>1. UNCHANGED <<local, tracking, mergeHead>>
                BY <2>10, <3>2, CommitKinds
            <4> QED BY <1>6, <4>1
        <3> QED BY <3>1, <3>2
    <2>11. CASE DiscardUnpushed(p)
        <3>1. local' = tracking /\ local # NoCommit /\ UNCHANGED <<tracking, mergeHead>>
            BY <2>11 DEF DiscardUnpushed, ResetTo, IsGitRepo
        <3>2. tracking \in DOMAIN graph
            BY <3>1, <1>1, Refs DEF HeadsOK
        <3> QED BY <1>3, <1>6, <3>1, <3>2
    <2>12. ASSUME NEW c \in DOMAIN graph, DiscardCommit(p, c) PROVE HeadsOK'
        <3>1. /\ local' = Head(graph[c].parents) /\ graph[c].parents # <<>> /\ local # NoCommit
              /\ UNCHANGED <<tracking, mergeHead>>
            BY <2>12 DEF DiscardCommit, ResetTo, IsGitRepo
        <3>2. local' \in DOMAIN graph
            BY <3>1, <1>1, FirstParent
        <3> QED BY <1>3, <1>6, <3>1, <3>2
    <2> QED BY <1>7, StepKinds, <2>1, <2>2, <2>3, <2>4, <2>5, <2>6, <2>7, <2>8, <2>9, <2>10, <2>11,
               <2>12 DEF MovesRefs
<1>8. ASSUME NEW f \in Files, NEW line \in Lines \cup {Absent}, SaveFile(f, line) PROVE HeadsOK'
    BY <1>6, <1>8 DEF SaveFile
<1>9. ASSUME NEW tree \in Trees, UpstreamCommit(tree) PROVE HeadsOK'
    BY <1>6, <1>9 DEF UpstreamCommit
<1> QED BY <1>7, <1>8, <1>9 DEF GitNext

-----------------------------------------------------------------------------
(* The requests, the workers and their messages.                             *)

\* The workers that are busy can be counted.
LEMMA BusyFinite ==
    /\ IsFiniteSet(Busy) /\ Cardinality(Busy) \in Nat
    /\ Cardinality(GitRequests) \in Nat
<1>1. Busy \subseteq Workers
    BY DEF Busy
<1> QED BY <1>1, GitAssumption, FS_Subset, FS_CardinalityType

LEMMA SameProcesses ==
    ASSUME ProcessOK, UNCHANGED <<at, job, queue>>
    PROVE  ProcessOK'
BY DEF ProcessOK, Busy

LEMMA BeginsKeep ==
    ASSUME ProcessOK, NEW p \in Processes, NEW kind \in Commands, NEW step \in Points \ {"idle"},
           BeginRequest(p, kind, step), queue' = queue,
           p \in Workers => queue > Cardinality(Busy)
    PROVE  ProcessOK'
<1>1. at' \in [Processes -> Points] /\ job' \in [Processes -> Job]
    <2>1. [NoJob EXCEPT !.kind = kind] \in Job
        BY GitAssumption DEF NoJob, Job, CommitIds, NoCommit
    <2> QED BY <2>1 DEF ProcessOK, BeginRequest
<1>2. Cardinality(Busy') <= queue'
    <2>1. CASE p \in Workers
        <3>1. Busy' = Busy \cup {p} /\ p \notin Busy
            BY <2>1, GitAssumption DEF Busy, BeginRequest, ProcessOK, Processes
        <3>2. Cardinality(Busy') = Cardinality(Busy) + 1
            BY <3>1, BusyFinite, FS_AddElement
        <3> QED BY <2>1, <3>2, BusyFinite DEF ProcessOK
    <2>2. CASE p \notin Workers
        <3>1. Busy' = Busy
            BY <2>2 DEF Busy, BeginRequest, ProcessOK, Processes
        <3> QED BY <3>1 DEF ProcessOK
    <2> QED BY <2>1, <2>2
<1> QED BY <1>1, <1>2 DEF ProcessOK

LEMMA EndsKeep ==
    ASSUME ProcessOK, NEW p \in Processes, at[p] # "idle",
           at' = [at EXCEPT ![p] = "idle"], job' = [job EXCEPT ![p] = NoJob],
           queue' = queue \/ queue' = (IF p \in Workers THEN queue - 1 ELSE queue)
    PROVE  ProcessOK'
<1>1. at' \in [Processes -> Points] /\ job' \in [Processes -> Job]
    <2>1. NoJob \in Job
        BY GitAssumption DEF NoJob, Job, CommitIds, NoCommit
    <2> QED BY <2>1 DEF ProcessOK, Points
<1>2. Cardinality(Busy') <= queue' /\ queue' \in 0..Cardinality(GitRequests)
    <2>1. CASE p \in Workers
        <3>1. Busy' = Busy \ {p} /\ p \in Busy
            BY <2>1 DEF Busy, ProcessOK, Processes
        <3>2. Cardinality(Busy') = Cardinality(Busy) - 1
            BY <3>1, BusyFinite, FS_RemoveElement
        <3>3. Cardinality(Busy') \in Nat
            BY <3>1, BusyFinite, FS_Subset, FS_CardinalityType
        <3> QED BY <2>1, <3>2, <3>3, BusyFinite DEF ProcessOK
    <2>2. CASE p \notin Workers
        <3>1. Busy' = Busy
            BY <2>2 DEF Busy, ProcessOK, Processes
        <3> QED BY <2>2, <3>1 DEF ProcessOK
    <2> QED BY <2>1, <2>2
<1> QED BY <1>1, <1>2 DEF ProcessOK

LEMMA GoesOn ==
    ASSUME ProcessOK, NEW p \in Processes, at[p] # "idle", NEW step \in Points \ {"idle"},
           at' = [at EXCEPT ![p] = step], job' \in [Processes -> Job], queue' = queue
    PROVE  ProcessOK'
<1>1. at' \in [Processes -> Points]
    BY DEF ProcessOK
<1>2. Busy' = Busy
    BY DEF Busy, ProcessOK, Processes
<1> QED BY <1>1, <1>2 DEF ProcessOK

LEMMA ContinuesKeep ==
    ASSUME ProcessOK, NEW p \in Processes, at[p] # "idle", NEW step \in Points \ {"idle"},
           Continues(p, step, job[p])
    PROVE  ProcessOK'
<1>1. job' \in [Processes -> Job] /\ at' = [at EXCEPT ![p] = step] /\ queue' = queue
    BY DEF Continues, ProcessOK
<1> QED BY <1>1, GoesOn

LEMMA Succeeds ==
    ASSUME ProcessOK, NEW p \in Processes, at[p] # "idle", PullSucceeds(p)
    PROVE  ProcessOK'
<1>1. CASE job[p].kind = "sync"
    <2>1. at' = [at EXCEPT ![p] = "checking"] /\ UNCHANGED <<job, queue>>
        BY <1>1 DEF PullSucceeds
    <2>2. "checking" \in Points \ {"idle"} /\ job' \in [Processes -> Job]
        BY <2>1 DEF Points, ProcessOK
    <2> QED BY <2>1, <2>2, GoesOn
<1>2. CASE job[p].kind # "sync"
    BY <1>2, EndsKeep DEF PullSucceeds, Ended
<1> QED BY <1>1, <1>2

\* A worker that is busy holds a message.
LEMMA StepProcesses ==
    ASSUME WellFormed, GitNext
    PROVE  ProcessOK'
<1>1. ProcessOK /\ GraphOK /\ HeadsOK
    BY DEF WellFormed
<1>2. \A q \in Processes : job[q] \in Job
    BY <1>1 DEF ProcessOK
<1>3. github \in CommitIds /\ local \in CommitIds
    <2>1. DOMAIN graph \subseteq 1..MaxCommits /\ github \in DOMAIN graph
        BY <1>1, GraphFacts
    <2> QED BY <1>1, <2>1, GitAssumption DEF HeadsOK, CommitIds, NoCommit
<1>4. ASSUME NEW p \in Processes, Step(p) PROVE ProcessOK'
    <2>1. CASE ValidateToken(p) \/ Disconnect(p) \/ Fetch(p)
                \/ DiscardUnpushed(p) \/ (\E f \in Files : ResolveConflict(p, f))
                \/ (\E c \in DOMAIN graph : DiscardCommit(p, c))
        <3>1. UNCHANGED <<at, job, queue>>
            BY <2>1 DEF ValidateToken, Disconnect, Fetch, DiscardUnpushed, ResolveConflict,
                        DiscardCommit, AtOnce
        <3> QED BY <1>1, <3>1, SameProcesses
    <2>2. CASE Configure(p) \/ StartPush(p) \/ StageAll(p)
        <3>1. p \notin Workers /\ queue' = queue
            BY <2>2, GitAssumption DEF Configure, StartPush, StageAll
        <3>2. \/ BeginRequest(p, "configure", "initializing") \/ BeginRequest(p, "push", "pushing")
              \/ BeginRequest(p, "commit", "committing")
            BY <2>2 DEF Configure, StartPush, StageAll
        <3>3. /\ {"configure", "push", "commit"} \subseteq Commands
              /\ {"initializing", "pushing", "committing"} \subseteq Points \ {"idle"}
            BY DEF Commands, Points
        <3> QED BY <1>1, <3>1, <3>2, <3>3, BeginsKeep
    <2>3. CASE StartPull(p)
        <3>1. PICK kind \in {"pull", "sync"}, s \in {"fetching", "inspecting"} :
                 Takes(p, kind) /\ BeginRequest(p, kind, s)
            BY <2>3 DEF StartPull
        <3>2. p \in Workers => queue > Cardinality(Busy)
            BY <3>1, GitAssumption DEF Takes, Busy
        <3>3. kind \in Commands /\ s \in Points \ {"idle"} /\ queue' = queue
            BY <2>3 DEF Commands, Points, StartPull
        <3> QED BY <1>1, <3>1, <3>2, <3>3, BeginsKeep
    <2>4. CASE SaveConfig(p) \/ WriteMarkers(p) \/ NotePush(p) \/ EndMerge(p) \/ CallFails(p)
                \/ Crash(p)
        <3>1. /\ at[p] # "idle"
              /\ at' = [at EXCEPT ![p] = "idle"] /\ job' = [job EXCEPT ![p] = NoJob]
              /\ (queue' = queue \/ queue' = (IF p \in Workers THEN queue - 1 ELSE queue))
            BY <2>4 DEF SaveConfig, WriteMarkers, NotePush, EndMerge, CallFails, Crash, Ended
        <3> QED BY <1>1, <3>1, EndsKeep
    <2>5. CASE Checkout(p) \/ WriteMergeHead(p)
        <3>1. at[p] # "idle" /\ PullSucceeds(p)
            BY <2>5 DEF Checkout, WriteMergeHead
        <3> QED BY <1>1, <3>1, Succeeds
    <2>6. CASE \/ InitializeRepo(p) \/ FastForward(p) \/ AnnounceConflicts(p)
               \/ RecordConflicts(p) \/ StageMerge(p)
        <3>1. PICK step \in Points \ {"idle"} : Continues(p, step, job[p])
            BY <2>6 DEF InitializeRepo, FastForward, AnnounceConflicts, RecordConflicts, StageMerge,
                        Points
        <3>2. at[p] # "idle"
            BY <2>6 DEF InitializeRepo, FastForward, AnnounceConflicts, RecordConflicts, StageMerge
        <3> QED BY <1>1, <3>1, <3>2, ContinuesKeep
    <2>7. CASE PullFetch(p)
        <3>1. at[p] # "idle"
            BY <2>7 DEF PullFetch
        <3>2. CASE Ended(p)
            BY <1>1, <3>1, <3>2, EndsKeep DEF Ended
        <3>3. CASE PullSucceeds(p)
            BY <1>1, <3>1, <3>3, Succeeds
        <3>4. ASSUME NEW base \in MergeBases(local, github) \cup {NoCommit},
                     Continues(p, "applying", [job[p] EXCEPT !.local = local, !.base = base,
                                                             !.remote = github])
              PROVE  ProcessOK'
            <4>1. base \in CommitIds
                <5>1. MergeBases(local, github) \subseteq Reach(graph, github)
                    BY DEF MergeBases, Ancestors
                <5>2. Reach(graph, github) \subseteq CommitIds
                    <6>1. Reach(graph, github) \subseteq DOMAIN graph /\ DOMAIN graph \subseteq 1..MaxCommits
                        BY <1>1, Refs, GraphFacts DEF Ancestors
                    <6> QED BY <6>1, GitAssumption DEF CommitIds
                <5> QED BY <3>4, <5>1, <5>2, GitAssumption DEF CommitIds, NoCommit
            <4>2. [job[p] EXCEPT !.local = local, !.base = base, !.remote = github] \in Job
                BY <1>2, <1>3, <4>1 DEF Job
            <4>3. job' \in [Processes -> Job] /\ at' = [at EXCEPT ![p] = "applying"] /\ queue' = queue
                BY <1>1, <3>4, <4>2 DEF Continues, ProcessOK
            <4>4. "applying" \in Points \ {"idle"}
                BY DEF Points
            <4> QED BY <1>1, <3>1, <4>3, <4>4, GoesOn
        <3> QED BY <2>7, <3>2, <3>3, <3>4 DEF PullFetch
    <2>8. CASE SyncChecks(p) \/ Inspect(p) \/ ForgetMerge(p) \/ CommitStaged(p)
        <3>1. /\ at[p] # "idle"
              /\ \/ Ended(p)
                 \/ \E step \in {"pushing", "forgetting", "fetching", "cleaning"} :
                       Continues(p, step, job[p])
            BY <2>8, Zenon DEF SyncChecks, Inspect, ForgetMerge, CommitStaged
        <3>2. CASE Ended(p)
            BY <1>1, <3>1, <3>2, EndsKeep DEF Ended
        <3>3. CASE ~Ended(p)
            <4>1. PICK step \in Points \ {"idle"} : Continues(p, step, job[p])
                BY <3>1, <3>3 DEF Points
            <4> QED BY <1>1, <3>1, <4>1, ContinuesKeep
        <3> QED BY <3>2, <3>3
    <2>9. CASE ReadRefs(p) \/ Send(p)
        <3>1. /\ at[p] # "idle"
              /\ \/ Ended(p) \/ Continues(p, "noting", job[p])
                 \/ Continues(p, "sending", [job[p] EXCEPT !.local = local])
            BY <2>9, Zenon DEF ReadRefs, Send
        <3>2. CASE Ended(p)
            BY <1>1, <3>1, <3>2, EndsKeep DEF Ended
        <3>3. CASE Continues(p, "noting", job[p])
            <4>1. "noting" \in Points \ {"idle"}
                BY DEF Points
            <4> QED BY <1>1, <3>1, <3>3, <4>1, ContinuesKeep
        <3>4. CASE Continues(p, "sending", [job[p] EXCEPT !.local = local])
            <4>1. [job[p] EXCEPT !.local = local] \in Job
                BY <1>2, <1>3 DEF Job
            <4>2. job' \in [Processes -> Job] /\ at' = [at EXCEPT ![p] = "sending"] /\ queue' = queue
                BY <1>1, <3>4, <4>1 DEF Continues, ProcessOK
            <4>3. "sending" \in Points \ {"idle"}
                BY DEF Points
            <4> QED BY <1>1, <3>1, <4>2, <4>3, GoesOn
        <3> QED BY <3>1, <3>2, <3>3, <3>4
    <2>10. CASE RequestSync(p)
        <3>1. UNCHANGED <<at, job>> /\ queue < Cardinality(GitRequests) /\ queue' = queue + 1
            BY <2>10 DEF RequestSync, AtOnce
        <3>2. queue' \in 0..Cardinality(GitRequests)
            BY <1>1, <3>1, BusyFinite DEF ProcessOK
        <3>3. Busy' = Busy
            BY <3>1 DEF Busy
        <3>4. Cardinality(Busy') <= queue'
            BY <1>1, <3>1, <3>3, BusyFinite DEF ProcessOK
        <3> QED BY <1>1, <3>1, <3>2, <3>4 DEF ProcessOK
    <2> QED BY <1>4, <2>1, <2>2, <2>3, <2>4, <2>5, <2>6, <2>7, <2>8, <2>9, <2>10 DEF Step
<1>5. ASSUME NEW f \in Files, NEW line \in Lines \cup {Absent}, SaveFile(f, line) PROVE ProcessOK'
    BY <1>1, <1>5, SameProcesses DEF SaveFile, processVars
<1>6. ASSUME NEW tree \in Trees, UpstreamCommit(tree) PROVE ProcessOK'
    BY <1>1, <1>6, SameProcesses DEF UpstreamCommit, processVars
<1> QED BY <1>4, <1>5, <1>6 DEF GitNext

-----------------------------------------------------------------------------
(* The index and the directory.                                              *)

LEMMA TreeIsIndex ==
    ASSUME NEW tree \in Tree
    PROVE  /\ tree \in [Files -> Lines \cup {Absent, Marked, Unmerged}]
           /\ \A f \in Files : tree[f] # Unmerged
BY GitAssumption DEF Tree

LEMMA GraphTree ==
    ASSUME GraphOK, NEW c \in DOMAIN graph
    PROVE  graph[c].tree \in Tree
<1>1. graph[c] \in Commit
    BY DEF GraphOK
<1> QED BY <1>1 DEF Commit

LEMMA Materialized ==
    ASSUME work \in Tree, NEW tree \in Tree, index' = tree, work' = Written(tree)
    PROVE  FilesOK' /\ Conflicts' = {}
<1>1. work' \in Tree
    BY DEF Written, Tree
<1>2. Conflicts' = {}
    BY TreeIsIndex DEF Conflicts
<1> QED BY <1>1, <1>2, TreeIsIndex DEF FilesOK

LEMMA SameIndex ==
    ASSUME FilesOK, index' = index, work' \in Tree
    PROVE  FilesOK'
BY DEF FilesOK

LEMMA MergeTyped ==
    ASSUME GraphOK, NEW p \in Processes, job[p].local \in DOMAIN graph,
           job[p].remote \in DOMAIN graph, job[p].base \in {NoCommit} \cup DOMAIN graph
    PROVE  Merge(p) \in [Files -> Lines \cup {Absent, Marked, Unmerged}]
<1>1. /\ graph[job[p].local].tree \in Tree /\ graph[job[p].remote].tree \in Tree
    BY GraphTree
<1> QED BY <1>1 DEF Merge, MergedTree, MergedFile, Tree

LEMMA MergedIsTree ==
    ASSUME GraphOK, NEW p \in Processes, job[p].local \in DOMAIN graph,
           job[p].remote \in DOMAIN graph, MergeConflicts(p) = {}
    PROVE  Merge(p) \in Tree
<1>1. graph[job[p].local].tree \in Tree /\ graph[job[p].remote].tree \in Tree
    BY GraphTree
<1>2. \A f \in Files : Merge(p)[f] # Unmerged
    BY DEF MergeConflicts
<1> QED BY <1>1, <1>2 DEF Merge, MergedTree, MergedFile, Tree

\* The index and the directory have contents of files.
LEMMA StepFiles ==
    ASSUME WellFormed, GitNext
    PROVE  FilesOK'
<1>1. GraphOK /\ HeadsOK /\ JobsOK /\ FilesOK
    BY DEF WellFormed
<1>2. /\ work \in Tree /\ index \in [Files -> Lines \cup {Absent, Marked, Unmerged}]
    BY <1>1 DEF FilesOK
<1>3. github \in DOMAIN graph /\ \A c \in DOMAIN graph : c # NoCommit
    BY <1>1, GraphFacts
<1>4. ASSUME NEW p \in Processes, Step(p) PROVE FilesOK'
    <2>1. CASE ValidateToken(p) \/ Disconnect(p) \/ Configure(p) \/ SaveConfig(p) \/ Fetch(p)
                 \/ RequestSync(p) \/ StartPull(p) \/ Inspect(p) \/ ForgetMerge(p) \/ PullFetch(p)
                 \/ FastForward(p) \/ AnnounceConflicts(p) \/ WriteMergeHead(p) \/ StartPush(p)
                 \/ SyncChecks(p) \/ ReadRefs(p) \/ Send(p) \/ NotePush(p) \/ CommitStaged(p)
                 \/ EndMerge(p) \/ Crash(p)
        <3>1. UNCHANGED <<index, work>>
            BY <2>1 DEF ValidateToken, Disconnect, Configure, SaveConfig, Fetch, RequestSync,
                        StartPull, Inspect, ForgetMerge, PullFetch, FastForward, AnnounceConflicts,
                        WriteMergeHead, StartPush, SyncChecks, ReadRefs, Send, NotePush,
                        CommitStaged, EndMerge, Crash, repoVars
        <3> QED BY <1>1, <1>2, <3>1, SameIndex
    <2>2. CASE InitializeRepo(p)
        <3>1. graph[github].tree \in Tree
            BY <1>1, <1>3, GraphTree
        <3>2. CASE Clone
            <4>1. index' = graph[github].tree /\ work' = graph[github].tree
                BY <3>2 DEF Clone
            <4> QED BY <3>1, <4>1, TreeIsIndex DEF FilesOK
        <3>3. CASE UpdateExistingRepo
            BY <1>2, <3>1, <3>3, Materialized DEF UpdateExistingRepo, Materialize
        <3> QED BY <2>2, <3>2, <3>3 DEF InitializeRepo
    <2>4. CASE Checkout(p)
        <3>1. /\ index' = graph[job[p].remote].tree /\ work' = Written(graph[job[p].remote].tree)
              /\ at[p] = "checkout"
            BY <2>4 DEF Checkout, Materialize
        <3>2. job[p].remote \in DOMAIN graph
            BY <1>1, <3>1, Refs DEF JobsOK, JobOK, Pulls
        <3> QED BY <1>1, <1>2, <3>1, <3>2, GraphTree, Materialized
    <2>5. CASE RecordConflicts(p)
        <3>1. /\ index' = [f \in Files |-> IF f \in MergeConflicts(p) THEN Unmerged ELSE index[f]]
              /\ work' = work
            BY <2>5 DEF RecordConflicts
        <3>2. index' \in [Files -> Lines \cup {Absent, Marked, Unmerged}]
            BY <1>2, <3>1
        <3> QED BY <1>2, <3>1, <3>2 DEF FilesOK
    <2>6. CASE WriteMarkers(p)
        <3>1. /\ UNCHANGED index
              /\ work' = [f \in Files |-> IF f \in MergeConflicts(p) THEN Marked ELSE work[f]]
            BY <2>6 DEF WriteMarkers
        <3>2. work' \in Tree
            BY <1>2, <3>1 DEF Tree
        <3> QED BY <1>1, <3>1, <3>2, SameIndex
    <2>7. CASE StageMerge(p)
        <3>1. /\ index' = Merge(p) /\ work' = Written(Merge(p))
              /\ at[p] = "applying" /\ MergeConflicts(p) = {}
            BY <2>7 DEF StageMerge, Materialize
        <3>2. job[p].remote \in DOMAIN graph /\ job[p].local \in DOMAIN graph
            BY <1>1, <3>1, Refs DEF JobsOK, JobOK, Pulls
        <3> QED BY <1>1, <1>2, <3>1, <3>2, MergedIsTree, Materialized
    <2>8. CASE StageAll(p)
        <3>1. index' = work /\ work' = work
            BY <2>8 DEF StageAll
        <3> QED BY <1>2, <3>1, TreeIsIndex DEF FilesOK
    <2>10. ASSUME NEW f \in Files, ResolveConflict(p, f) PROVE FilesOK'
        <3>1. UNCHANGED work /\ index' = [index EXCEPT ![f] = work[f]]
            BY <2>10 DEF ResolveConflict
        <3>2. index' \in [Files -> Lines \cup {Absent, Marked, Unmerged}]
            BY <1>2, <3>1, TreeIsIndex
        <3> QED BY <1>2, <3>1, <3>2 DEF FilesOK
    <2>11. CASE DiscardUnpushed(p)
        <3>1. /\ index' = graph[tracking].tree /\ work' = Written(graph[tracking].tree)
              /\ local # NoCommit
            BY <2>11 DEF DiscardUnpushed, ResetTo, IsGitRepo
        <3>2. tracking \in DOMAIN graph
            BY <1>1, <3>1, Refs DEF HeadsOK
        <3> QED BY <1>1, <1>2, <3>1, <3>2, GraphTree, Materialized
    <2>12. ASSUME NEW c \in DOMAIN graph, DiscardCommit(p, c) PROVE FilesOK'
        <3> DEFINE head == Head(graph[c].parents)
        <3>1. /\ index' = graph[head].tree /\ work' = Written(graph[head].tree)
              /\ graph[c].parents # <<>>
            BY <2>12 DEF DiscardCommit, ResetTo
        <3>2. head \in DOMAIN graph
            BY <1>1, <3>1, FirstParent
        <3> HIDE DEF head
        <3> QED BY <1>1, <1>2, <3>1, <3>2, GraphTree, Materialized
    <2>13. CASE CallFails(p)
        <3>1. /\ UNCHANGED index
              /\ (work' = work \/ work' = [f \in Files |-> Absent])
            BY <2>13 DEF CallFails
        <3>2. work' \in Tree
            BY <1>2, <3>1 DEF Tree
        <3> QED BY <1>1, <3>1, <3>2, SameIndex
    <2> QED BY <1>4, <2>1, <2>2, <2>4, <2>5, <2>6, <2>7, <2>8, <2>10, <2>11, <2>12, <2>13
            DEF Step
<1>5. ASSUME NEW f \in Files, NEW line \in Lines \cup {Absent}, SaveFile(f, line) PROVE FilesOK'
    <2>1. UNCHANGED index /\ work' = [work EXCEPT ![f] = line]
        BY <1>5 DEF SaveFile
    <2>2. work' \in Tree
        BY <1>2, <2>1 DEF Tree
    <2> QED BY <1>1, <2>1, <2>2, SameIndex
<1>6. ASSUME NEW tree \in Trees, UpstreamCommit(tree) PROVE FilesOK'
    BY <1>1, <1>2, <1>6, SameIndex DEF UpstreamCommit
<1> QED BY <1>4, <1>5, <1>6 DEF GitNext

-----------------------------------------------------------------------------
\* What is left of the types.
LEMMA StepRest ==
    ASSUME WellFormed, GitNext
    PROVE  RestOK'
<1>1. RestOK
    BY DEF WellFormed
<1>2. ASSUME NEW p \in Processes, Step(p) PROVE RestOK'
    <2>1. duties' = duties /\ saves' = saves
        BY <1>2 DEF Step, ValidateToken, Disconnect, Configure, InitializeRepo, SaveConfig, Fetch,
            RequestSync, StartPull, Inspect, ForgetMerge, PullFetch, FastForward, Checkout,
            AnnounceConflicts, RecordConflicts, WriteMarkers, StageMerge, WriteMergeHead, StartPush,
            SyncChecks, ReadRefs, Send, NotePush, StageAll, CommitStaged, EndMerge, ResolveConflict, DiscardUnpushed, DiscardCommit, CallFails, Crash
    <2>2. failures' \in 0..MaxFailures
        <3>1. failures' = failures \/ Failure
            BY <1>2 DEF Step, ValidateToken, Disconnect, Configure, InitializeRepo, SaveConfig,
                Fetch, RequestSync, StartPull, Inspect, ForgetMerge, PullFetch, FastForward, Checkout,
                AnnounceConflicts, RecordConflicts, WriteMarkers, StageMerge, WriteMergeHead,
                StartPush, SyncChecks, ReadRefs, Send, NotePush, StageAll, CommitStaged, EndMerge, ResolveConflict, DiscardUnpushed, DiscardCommit,
                CallFails, Crash
        <3> QED BY <1>1, <3>1, GitAssumption DEF RestOK, Failure
    <2>3. overlapped' \in BOOLEAN /\ broken' \in BOOLEAN /\ retracted' \in BOOLEAN
        <3>1. overlapped \in BOOLEAN /\ broken \in BOOLEAN /\ retracted \in BOOLEAN
            BY <1>1 DEF RestOK
        <3>2. CASE UNCHANGED pathVars
            BY <3>1, <3>2 DEF pathVars
        <3>3. CASE Meets(p)
            BY <3>1, <3>3, Zenon DEF Meets
        <3>4. CASE Crash(p)
            BY <3>1, <3>4, Zenon DEF Crash
        <3>5. CASE Send(p)
            <4>1. UNCHANGED <<overlapped, broken>>
                BY <3>5 DEF Send
            <4>2. retracted' \in BOOLEAN
                BY <3>1, <3>5, Zenon DEF Send
            <4> QED BY <3>1, <4>1, <4>2
        <3> QED BY <1>2, <3>2, <3>3, <3>4, <3>5, PathKinds
    <2>4. config' \in Config
        <3>1. config \in Config
            BY <1>1 DEF RestOK
        <3>2. CASE ValidateToken(p)
            BY <3>1, <3>2 DEF ValidateToken, Config
        <3>3. CASE Disconnect(p)
            BY <3>1, <3>3 DEF Disconnect, Config
        <3>4. CASE SaveConfig(p)
            BY <3>4 DEF SaveConfig, Config
        <3>5. CASE UNCHANGED config
            BY <3>1, <3>5
        <3>6. UNCHANGED config \/ ValidateToken(p) \/ Disconnect(p) \/ SaveConfig(p)
            BY <1>2, Zenon DEF Step, Configure, InitializeRepo, Fetch,
                RequestSync, StartPull, Inspect, ForgetMerge, PullFetch, FastForward, Checkout,
                AnnounceConflicts, RecordConflicts, WriteMarkers, StageMerge, WriteMergeHead,
                StartPush, SyncChecks, ReadRefs, Send, NotePush, StageAll, CommitStaged, EndMerge, ResolveConflict, DiscardUnpushed, DiscardCommit,
                CallFails, Crash
        <3> QED BY <3>2, <3>3, <3>4, <3>5, <3>6
    <2>5. touched' \subseteq Files
        <3>1. touched' \subseteq touched \cup Files
            BY <1>2 DEF Step, ValidateToken, Disconnect, Configure, InitializeRepo, SaveConfig,
                Fetch, RequestSync, StartPull, Inspect, ForgetMerge, PullFetch, FastForward, Checkout,
                AnnounceConflicts, RecordConflicts, WriteMarkers, StageMerge, WriteMergeHead,
                StartPush, SyncChecks, ReadRefs, Send, NotePush, StageAll, CommitStaged, EndMerge, ResolveConflict, DiscardUnpushed, DiscardCommit,
                CallFails, Crash, Clone, UpdateExistingRepo, Staged, MergeConflicts
        <3> QED BY <1>1, <3>1 DEF RestOK
    <2>6. skipped' \subseteq Files
        <3>1. skipped' \subseteq skipped \cup Files
            BY <1>2 DEF Step, ValidateToken, Disconnect, Configure, InitializeRepo, SaveConfig,
                Fetch, RequestSync, StartPull, Inspect, ForgetMerge, PullFetch, FastForward, Checkout,
                AnnounceConflicts, RecordConflicts, WriteMarkers, StageMerge, WriteMergeHead,
                StartPush, SyncChecks, ReadRefs, Send, NotePush, StageAll, CommitStaged, EndMerge, ResolveConflict, DiscardUnpushed, DiscardCommit,
                CallFails, Crash, Clone, UpdateExistingRepo, Materialize, LeftOver, ResetTo,
                Differing
        <3> QED BY <1>1, <3>1 DEF RestOK
    <2> QED BY <1>1, <2>1, <2>2, <2>3, <2>4, <2>5, <2>6 DEF RestOK
<1>3. ASSUME NEW f \in Files, NEW line \in Lines \cup {Absent}, SaveFile(f, line) PROVE RestOK'
    <2>1. UNCHANGED <<config, duties, failures, skipped, overlapped, broken, retracted>>
        BY <1>3 DEF SaveFile, pathVars
    <2>2. saves' \in 0..MaxSaves /\ touched' \subseteq Files
        BY <1>1, <1>3, GitAssumption DEF RestOK, SaveFile
    <2> QED BY <1>1, <2>1, <2>2 DEF RestOK
<1>4. ASSUME NEW tree \in Trees, UpstreamCommit(tree) PROVE RestOK'
    BY <1>1, <1>4 DEF RestOK, UpstreamCommit, pathVars
<1> QED BY <1>2, <1>3, <1>4 DEF GitNext

-----------------------------------------------------------------------------
\* What a process has read stays on GitHub while it works.
LEMMA JobKept ==
    ASSUME WellFormed, Forward, retracted => retracted', NEW p \in Processes,
           job'[p] = job[p],
           at'[p] = at[p] \/ (at[p] \in Pulls /\ at'[p] \in Pulls)
               \/ (local # NoCommit /\ at'[p] \notin Pulls \cup {"sending", "noting"})
               \/ at'[p] \in {"idle", "initializing", "saving"}
    PROVE  JobOK(p)'
<1>1. JobOK(p) /\ GraphOK /\ HeadsOK
    BY DEF WellFormed, JobsOK
<1>2. /\ Reach(graph, github) \subseteq Reach(graph', github') /\ DOMAIN graph \subseteq DOMAIN graph'
      /\ (local # NoCommit => local' # NoCommit)
      /\ \A c \in 0..Len(graph) : Reach(graph', c) = Reach(graph, c)
    BY DEF Forward
<1>3. \A c \in Reach(graph, github) : Reach(graph', c) = Reach(graph, c)
    BY <1>1, <1>2, Refs, GraphFacts DEF Ancestors
<1> QED BY <1>1, <1>2, <1>3 DEF JobOK, Ancestors, Pulls

LEMMA JobIdle ==
    ASSUME NEW p \in Processes, at'[p] = "idle"
    PROVE  JobOK(p)'
BY DEF JobOK, Pulls

Still(p) == at'[p] = at[p] /\ job'[p] = job[p]

LEMMA OthersStay ==
    ASSUME ProcessOK, NEW p \in Processes, Step(p), NEW q \in Processes \ {p}
    PROVE  Still(q)
<1>1. at \in [Processes -> Points] /\ job \in [Processes -> Job]
    BY DEF ProcessOK
<1>2. ASSUME Ended(p) PROVE Still(q)
    BY <1>1, <1>2 DEF Ended, Still
<1>3. ASSUME NEW s, NEW j, Continues(p, s, j) PROVE Still(q)
    BY <1>1, <1>3 DEF Continues, Still
<1>4. ASSUME NEW kind, NEW s, BeginRequest(p, kind, s) PROVE Still(q)
    BY <1>1, <1>4 DEF BeginRequest, Still
<1>5. ASSUME PullSucceeds(p) PROVE Still(q)
    <2>1. CASE job[p].kind = "sync"
        BY <1>1, <1>5, <2>1 DEF PullSucceeds, Still
    <2> QED BY <1>2, <1>5, <2>1 DEF PullSucceeds
<1>6. ASSUME UNCHANGED <<at, job>> PROVE Still(q)
    BY <1>6 DEF Still
<1>7. CASE ValidateToken(p) \/ Disconnect(p) \/ Fetch(p) \/ RequestSync(p)
            \/ DiscardUnpushed(p) \/ (\E f \in Files : ResolveConflict(p, f))
            \/ (\E c \in DOMAIN graph : DiscardCommit(p, c))
    BY <1>6, <1>7 DEF ValidateToken, Disconnect, Fetch, RequestSync, DiscardUnpushed, ResolveConflict, DiscardCommit, AtOnce
<1>8. CASE Configure(p) \/ StartPush(p) \/ StartPull(p) \/ StageAll(p)
    BY <1>4, <1>8, Zenon DEF Configure, StartPush, StartPull, StageAll
<1>9. CASE SaveConfig(p) \/ WriteMarkers(p) \/ NotePush(p) \/ EndMerge(p) \/ CallFails(p)
    BY <1>2, <1>9 DEF SaveConfig, WriteMarkers, NotePush, EndMerge, CallFails
<1>10. CASE Crash(p)
    BY <1>1, <1>10 DEF Crash, Still
<1>11. CASE Checkout(p) \/ WriteMergeHead(p)
    BY <1>5, <1>11 DEF Checkout, WriteMergeHead
<1>12. CASE \/ InitializeRepo(p) \/ FastForward(p) \/ AnnounceConflicts(p)
            \/ RecordConflicts(p) \/ StageMerge(p)
    BY <1>3, <1>12, Zenon DEF InitializeRepo, FastForward, AnnounceConflicts, RecordConflicts,
                              StageMerge
<1>13. CASE PullFetch(p)
    BY <1>2, <1>3, <1>5, <1>13, Zenon DEF PullFetch
<1>14. CASE \/ SyncChecks(p) \/ Inspect(p) \/ ForgetMerge(p) \/ ReadRefs(p) \/ Send(p)
            \/ CommitStaged(p)
    BY <1>2, <1>3, <1>14, Zenon DEF SyncChecks, Inspect, ForgetMerge, ReadRefs, Send, CommitStaged
<1> QED
    BY <1>7, <1>8, <1>9, <1>10, <1>11, <1>12, <1>13, <1>14, Zenon DEF Step

\* What a process has read and not yet used is on GitHub.
LEMMA StepJobs ==
    ASSUME WellFormed, GitNext
    PROVE  JobsOK'
<1>1. GraphOK /\ HeadsOK /\ ProcessOK
    BY DEF WellFormed
<1>2. Forward /\ (retracted => retracted')
    BY StepForward, Histories
<1>3. /\ Reach(graph, github) \subseteq Reach(graph', github') /\ DOMAIN graph \subseteq DOMAIN graph'
      /\ (local # NoCommit => local' # NoCommit)
    BY <1>2 DEF Forward
<1>4. /\ \A q \in Processes : at[q] \in Points /\ job[q] \in Job
      /\ at \in [Processes -> Points] /\ job \in [Processes -> Job]
    BY <1>1 DEF ProcessOK
<1>5. ASSUME NEW p \in Processes, Step(p), NEW q \in Processes PROVE JobOK(q)'
    <2>1. CASE q # p
        <3>1. at'[q] = at[q] /\ job'[q] = job[q]
            BY <1>1, <1>5, <2>1, OthersStay DEF Still
        <3> QED BY <1>2, <3>1, JobKept
    <2>2. ASSUME q = p PROVE JobOK(p)'
        <3>1. CASE UNCHANGED <<at, job>>
            BY <1>2, <3>1, JobKept
        <3>2. CASE Ended(p) \/ Crash(p)
            <4>1. at' = [at EXCEPT ![p] = "idle"]
                BY <3>2 DEF Ended, Crash
            <4> QED BY <1>4, <4>1, JobIdle
        <3>3. CASE Configure(p) \/ StartPush(p) \/ StartPull(p) \/ StageAll(p)
            <4>1. ASSUME NEW kind,
                         NEW s \in {"initializing", "pushing", "fetching", "inspecting", "committing"},
                         BeginRequest(p, kind, s), s = "initializing" \/ local # NoCommit
                  PROVE  JobOK(p)'
                <5>1. at'[p] = s
                    BY <1>4, <4>1 DEF BeginRequest
                <5> QED BY <1>3, <4>1, <5>1 DEF JobOK, Pulls
            <4>2. CASE Configure(p)
                BY <4>1, <4>2 DEF Configure
            <4>3. CASE StartPush(p) \/ StageAll(p)
                BY <4>1, <4>3 DEF StartPush, StageAll, IsGitRepo
            <4>4. CASE StartPull(p)
                BY <4>1, <4>4 DEF StartPull, IsGitRepo
            <4> QED BY <3>3, <4>2, <4>3, <4>4
        <3>4. ASSUME PullSucceeds(p), local # NoCommit PROVE JobOK(p)'
            <4>1. CASE job[p].kind = "sync"
                <5>1. at'[p] = "checking" /\ job'[p] = job[p]
                    BY <1>4, <3>4, <4>1 DEF PullSucceeds
                <5> QED BY <1>2, <3>4, <5>1, JobKept DEF Pulls
            <4>2. CASE job[p].kind # "sync"
                BY <3>2, <3>4, <4>2 DEF PullSucceeds
            <4> QED BY <4>1, <4>2
        <3>5. CASE Checkout(p) \/ WriteMergeHead(p)
            <4>1. PullSucceeds(p) /\ at[p] \in {"checkout", "heading"}
                BY <3>5 DEF Checkout, WriteMergeHead
            <4>2. local # NoCommit
                BY <4>1 DEF WellFormed, JobsOK, JobOK
            <4> QED BY <3>4, <4>1, <4>2
        <3>6. CASE InitializeRepo(p)
            <4>1. at'[p] = "saving" /\ job'[p] = job[p]
                BY <1>4, <3>6 DEF InitializeRepo, Continues
            <4> QED BY <1>2, <4>1, JobKept
        <3>7. CASE FastForward(p) \/ AnnounceConflicts(p) \/ RecordConflicts(p) \/ StageMerge(p)
            <4>1. /\ at[p] \in {"applying", "recording"} /\ job'[p] = job[p]
                  /\ at'[p] \in {"checkout", "recording", "marking", "heading"}
                BY <1>4, <3>7 DEF FastForward, AnnounceConflicts, RecordConflicts, StageMerge, Continues
            <4> QED BY <1>2, <4>1, JobKept DEF Pulls
        <3>8. CASE PullFetch(p) /\ ~Ended(p)
            <4>1. at[p] = "fetching"
                BY <3>8 DEF PullFetch
            <4>2. local # NoCommit
                BY <4>1 DEF WellFormed, JobsOK, JobOK
            <4>3. CASE PullSucceeds(p)
                BY <3>4, <4>2, <4>3
            <4>4. ASSUME NEW base \in MergeBases(local, github) \cup {NoCommit},
                         Continues(p, "applying", [job[p] EXCEPT !.local = local, !.base = base,
                                                                 !.remote = github])
                  PROVE  JobOK(p)'
                <5>1. /\ at'[p] = "applying" /\ job'[p].local = local /\ job'[p].remote = github
                      /\ job'[p].base = base
                    BY <1>4, <4>4 DEF Continues, Job
                <5>3. base \in {NoCommit} \cup Reach(graph, github)
                    BY DEF MergeBases, Ancestors
                <5>4. graph' = graph
                    BY <3>8 DEF PullFetch
                <5>2. github \in Reach(graph, github) /\ local \in DOMAIN graph
                    BY <1>1, <4>2, GraphFacts DEF HeadsOK
                <5> QED BY <1>3, <4>2, <5>1, <5>2, <5>3, <5>4 DEF JobOK, Ancestors, Pulls
            <4> QED BY <3>8, <4>3, <4>4, Zenon DEF PullFetch
        <3>9. CASE (SyncChecks(p) \/ Inspect(p) \/ ForgetMerge(p) \/ CommitStaged(p)) /\ ~Ended(p)
            <4>1. /\ at[p] \in {"checking", "inspecting", "forgetting", "committing"}
                  /\ at'[p] \in {"pushing", "forgetting", "fetching", "cleaning"} /\ job'[p] = job[p]
                BY <1>4, <3>9 DEF SyncChecks, Inspect, ForgetMerge, CommitStaged, Continues
            <4>2. local # NoCommit
                BY <4>1 DEF WellFormed, JobsOK, JobOK
            <4> QED BY <1>2, <4>1, <4>2, JobKept DEF Pulls
        <3>10. CASE ReadRefs(p) /\ ~Ended(p)
            <4>1. /\ at[p] = "pushing" /\ Continues(p, "sending", [job[p] EXCEPT !.local = local])
                BY <3>10 DEF ReadRefs
            <4>2. at'[p] = "sending" /\ job'[p].local = local
                BY <1>4, <4>1 DEF Continues, Job
            <4>3. local # NoCommit
                BY <4>1 DEF WellFormed, JobsOK, JobOK
            <4>4. local \in DOMAIN graph
                BY <1>1, <4>3 DEF HeadsOK
            <4> QED BY <1>3, <4>2, <4>3, <4>4 DEF JobOK, Pulls
        <3>11. CASE Send(p) /\ ~Ended(p)
            <4>1. /\ at[p] = "sending" /\ github' = local /\ graph' = graph
                  /\ retracted' = (retracted \/ job[p].local \notin Ancestors(local))
                  /\ Continues(p, "noting", job[p])
                BY <3>11 DEF Send, repoVars
            <4>2. at'[p] = "noting" /\ job'[p] = job[p]
                BY <1>4, <4>1 DEF Continues
            <4>3. local # NoCommit /\ job[p].local \in DOMAIN graph
                BY <4>1 DEF WellFormed, JobsOK, JobOK
            <4>4. ~retracted' => job[p].local \in Reach(graph', github')
                BY <4>1 DEF Ancestors
            <4> QED BY <1>3, <4>2, <4>3, <4>4 DEF JobOK, Ancestors, Pulls
        <3>12. CASE ValidateToken(p) \/ Disconnect(p) \/ Fetch(p) \/ RequestSync(p)
            \/ DiscardUnpushed(p) \/ (\E f \in Files : ResolveConflict(p, f))
            \/ (\E c \in DOMAIN graph : DiscardCommit(p, c))
            BY <3>1, <3>12 DEF ValidateToken, Disconnect, Fetch, RequestSync, DiscardUnpushed,
                      ResolveConflict, DiscardCommit, AtOnce
        <3>13. CASE SaveConfig(p) \/ WriteMarkers(p) \/ NotePush(p) \/ EndMerge(p) \/ CallFails(p)
            BY <3>2, <3>13 DEF SaveConfig, WriteMarkers, NotePush, EndMerge, CallFails
        <3> QED BY <1>5, <3>2, <3>3, <3>5, <3>6, <3>7, <3>8, <3>9, <3>10, <3>11, <3>12, <3>13, Zenon
               DEF Step
    <2> QED BY <2>1, <2>2
<1>6. ASSUME NEW q \in Processes, UNCHANGED <<at, job>> PROVE JobOK(q)'
    BY <1>2, <1>6, JobKept
<1>7. (\E p \in Processes : Step(p)) \/ UNCHANGED <<at, job>>
    BY DEF GitNext, SaveFile, UpstreamCommit, processVars
<1> QED BY <1>5, <1>6, <1>7 DEF JobsOK

\* Every step keeps the workspace well formed.
LEMMA StepWellFormed ==
    ASSUME WellFormed, GitNext
    PROVE  WellFormed'
BY StepForward, StepHeads, StepFiles, StepJobs, StepProcesses, StepRest DEF WellFormed, Forward

LEMMA InitWellFormed ==
    ASSUME GitInit
    PROVE  WellFormed
<1>1. GraphOK
    <2>1. PICK tree \in Origins : graph = <<[tree |-> tree, parents |-> <<>>]>>
        BY DEF GitInit
    <2>2. [tree |-> tree, parents |-> <<>>] \in Commit
        BY GitAssumption DEF Commit, Tree
    <2>3. graph \in Seq(Commit) /\ Len(graph) = 1 /\ DOMAIN graph = {1} /\ graph[1].parents = <<>>
        BY <2>1, <2>2
    <2>4. Rooted(graph)
        BY <2>3 DEF Rooted
    <2> QED BY <2>3, <2>4, GitAssumption DEF GraphOK, GitInit
<1>2. HeadsOK
    BY DEF GitInit, HeadsOK
<1>3. FilesOK
    BY GitAssumption DEF GitInit, FilesOK, Tree
<1>4. ProcessOK /\ JobsOK
    <2>1. at \in [Processes -> Points] /\ job \in [Processes -> Job] /\ queue = 0
        BY GitAssumption DEF GitInit, Points, Job, NoJob, CommitIds, NoCommit
    <2>2. Busy = {}
        BY DEF Busy, GitInit, Processes
    <2>3. Cardinality(Busy) = 0
        BY <2>2, FS_EmptySet
    <2>4. JobsOK
        BY DEF GitInit, JobsOK, JobOK, Pulls
    <2> QED BY <2>1, <2>3, <2>4, BusyFinite DEF ProcessOK
<1>5. RestOK
    <2>1. config \in Config
        BY DEF GitInit, Config
    <2>2. /\ duties \in Duties /\ saves \in 0..MaxSaves /\ failures \in 0..MaxFailures
          /\ touched \subseteq Files /\ skipped \subseteq Files
        BY GitAssumption DEF GitInit
    <2>3. overlapped \in BOOLEAN /\ broken \in BOOLEAN /\ retracted \in BOOLEAN
        BY DEF GitInit
    <2> QED BY <2>1, <2>2, <2>3 DEF RestOK
<1> QED BY <1>1, <1>2, <1>3, <1>4, <1>5 DEF WellFormed

\* Whatever overlaps or breaks off, the graph has no cycles, every ref names a commit of it, what is
\* merged is on GitHub, and so is what is pushed unless a push sent another branch than it read.
THEOREM GitWellFormed == GitSpec => []WellFormed
<1>1. WellFormed /\ [GitNext]_gitVars => WellFormed'
    <2>1. ASSUME WellFormed, UNCHANGED gitVars PROVE WellFormed'
        BY <2>1 DEF WellFormed, GraphOK, HeadsOK, FilesOK, JobsOK, JobOK, ProcessOK, RestOK, Busy,
            Ancestors, gitVars, repoVars, processVars, pathVars
    <2> QED BY <2>1, StepWellFormed
<1> QED BY <1>1, InitWellFormed, PTL DEF GitSpec

-----------------------------------------------------------------------------
(* What holds while requests do not overlap, wherever one breaks off.        *)

Alone == \A p, q \in Processes : p # q => (at[p] = "idle" \/ at[q] = "idle")

\* What the process that is at work knows of the branch and of the merge.
StandsOK(p) ==
    /\ at[p] = "applying" => job[p].local = local
    /\ at[p] = "recording" => mergeHead # NoCommit
    /\ at[p] \in {"forgetting", "cleaning"} => Conflicts = {}
Calm ==
    /\ Alone
    /\ Conflicts # {} => mergeHead # NoCommit
    /\ \A p \in Processes : StandsOK(p)
CalmInv == ~overlapped => Calm

\* p is the only one at work.
Lone(p) == \A q \in Processes \ {p} : at[q] = "idle" /\ at'[q] = "idle"

\* A process that is at work while requests do not overlap is alone.
LEMMA BusyOnes ==
    ASSUME WellFormed, Alone, NEW p \in Processes, Step(p), at[p] # "idle"
    PROVE  Lone(p)
<1> SUFFICES ASSUME NEW q \in Processes \ {p} PROVE at[q] = "idle" /\ at'[q] = "idle"
    BY DEF Lone
<1>1. at[q] = "idle"
    BY DEF Alone
<1>2. Still(q)
    BY OthersStay DEF WellFormed
<1> QED BY <1>1, <1>2 DEF Still

\* A request that meets no other is alone.
LEMMA Meeting ==
    ASSUME WellFormed, NEW p \in Processes, Step(p), Meets(p), ~overlapped'
    PROVE  ~overlapped /\ Lone(p)
<1>1. ~overlapped /\ AlsoBusy(p) = {}
    BY Zenon DEF Meets
<1> SUFFICES ASSUME NEW q \in Processes \ {p} PROVE at[q] = "idle" /\ at'[q] = "idle"
    BY <1>1 DEF Lone
<1>2. at[q] = "idle"
    BY <1>1 DEF AlsoBusy
<1>3. Still(q)
    BY OthersStay DEF WellFormed
<1> QED BY <1>2, <1>3 DEF Still

\* A process that does not begin with its step is at work.
LEMMA AtWork ==
    ASSUME NEW p \in Processes, Step(p), ~Meets(p)
    PROVE  at[p] # "idle"
<1>1. CASE ValidateToken(p) \/ Disconnect(p) \/ Fetch(p) \/ RequestSync(p)
            \/ (\E f \in Files : ResolveConflict(p, f))
            \/ DiscardUnpushed(p) \/ (\E c \in DOMAIN graph : DiscardCommit(p, c))
    BY <1>1, Zenon DEF ValidateToken, Disconnect, Fetch, RequestSync, ResolveConflict,
           DiscardUnpushed, DiscardCommit, AtOnce
<1>2. CASE Configure(p) \/ StartPull(p) \/ StartPush(p) \/ StageAll(p)
    BY <1>2, Zenon DEF Configure, StartPull, StartPush, StageAll, BeginRequest
<1>3. CASE InitializeRepo(p) \/ SaveConfig(p) \/ Inspect(p) \/ ForgetMerge(p) \/ PullFetch(p)
            \/ FastForward(p) \/ Checkout(p) \/ AnnounceConflicts(p) \/ RecordConflicts(p)
            \/ WriteMarkers(p) \/ StageMerge(p) \/ WriteMergeHead(p)
    BY <1>3 DEF InitializeRepo, SaveConfig, Inspect, ForgetMerge, PullFetch, FastForward, Checkout,
           AnnounceConflicts, RecordConflicts, WriteMarkers, StageMerge, WriteMergeHead
<1>4. CASE SyncChecks(p) \/ ReadRefs(p) \/ Send(p) \/ NotePush(p) \/ CommitStaged(p) \/ EndMerge(p)
            \/ CallFails(p) \/ Crash(p)
    BY <1>4 DEF SyncChecks, ReadRefs, Send, NotePush, CommitStaged, EndMerge, CallFails, Crash
<1> QED BY <1>1, <1>2, <1>3, <1>4, Zenon DEF Step

\* Unless requests overlap, the process that steps is alone.
LEMMA Actor ==
    ASSUME WellFormed, CalmInv, NEW p \in Processes, Step(p), ~overlapped'
    PROVE  ~overlapped /\ Calm /\ Lone(p)
<1>1. CASE Meets(p)
    BY <1>1, Meeting DEF CalmInv
<1>2. CASE ~Meets(p)
    <2>1. ~overlapped
        BY Histories DEF GitNext
    <2>2. Calm
        BY <2>1 DEF CalmInv
    <2> QED BY <1>2, <2>1, <2>2, AtWork, BusyOnes DEF Calm
<1> QED BY <1>1, <1>2

\* Requests do not overlap where one process is at work.
LEMMA LoneIsAlone ==
    ASSUME NEW p \in Processes, Lone(p)
    PROVE  Alone'
BY DEF Lone, Alone

\* When one process is at work, the others have nothing to keep.
LEMMA LoneCalm ==
    ASSUME NEW p \in Processes, Lone(p), StandsOK(p)', Conflicts' # {} => mergeHead' # NoCommit
    PROVE  Calm'
<1>1. ASSUME NEW q \in Processes \ {p} PROVE StandsOK(q)'
    BY DEF Lone, StandsOK
<1> QED BY <1>1, LoneIsAlone DEF Calm

\* Where a process is after it moves.
LEMMA Moves ==
    ASSUME WellFormed, NEW p \in Processes
    PROVE  /\ Ended(p) => at'[p] = "idle"
           /\ PullSucceeds(p) => at'[p] \in {"idle", "checking"}
           /\ \A kind, s : BeginRequest(p, kind, s) => at'[p] = s /\ at[p] = "idle"
           /\ \A s, new : Continues(p, s, new) => at'[p] = s /\ job'[p] = new
           /\ \A kind : AtOnce(p, kind) => at'[p] = "idle" /\ at[p] = "idle"
<1>1. at \in [Processes -> Points] /\ job \in [Processes -> Job]
    BY DEF WellFormed, ProcessOK
<1>2. Ended(p) => at'[p] = "idle"
    BY <1>1 DEF Ended
<1>3. PullSucceeds(p) => at'[p] \in {"idle", "checking"}
    BY <1>1, <1>2 DEF PullSucceeds
<1>4. \A kind, s : BeginRequest(p, kind, s) => at'[p] = s /\ at[p] = "idle"
    BY <1>1 DEF BeginRequest
<1>5. \A s, new : Continues(p, s, new) => at'[p] = s /\ job'[p] = new
    BY <1>1 DEF Continues
<1>6. \A kind : AtOnce(p, kind) => at'[p] = "idle" /\ at[p] = "idle"
    BY DEF AtOnce
<1> QED BY <1>2, <1>3, <1>4, <1>5, <1>6

\* Steps after which the process has nothing to keep, and that bring no conflict.
Ordinary == Points \ {"applying", "recording", "forgetting", "cleaning"}
LEMMA OrdinaryCalm ==
    ASSUME Calm, NEW p \in Processes, Lone(p), at'[p] \in Ordinary,
           Conflicts' = {} \/ (Conflicts' \subseteq Conflicts /\ mergeHead' = mergeHead)
              \/ mergeHead' # NoCommit
    PROVE  Calm'
<1>1. StandsOK(p)'
    BY DEF StandsOK, Ordinary
<1> QED BY <1>1, LoneCalm DEF Calm

\* While requests do not overlap, a conflict belongs to a merge.
LEMMA StepCalm ==
    ASSUME WellFormed, CalmInv, GitNext
    PROVE  CalmInv'
<1> SUFFICES ASSUME ~overlapped' PROVE Calm'
    BY DEF CalmInv
<1>1. ASSUME NEW p \in Processes, Step(p) PROVE Calm'
    <2>1. Calm /\ Lone(p)
        BY <1>1, Actor
    <2>2. StandsOK(p) /\ (Conflicts # {} => mergeHead # NoCommit)
        BY <2>1 DEF Calm
    <2>3. /\ \A kind, s : BeginRequest(p, kind, s) => at'[p] = s
          /\ \A kind : AtOnce(p, kind) => at'[p] = "idle"
          /\ Ended(p) => at'[p] = "idle"
          /\ PullSucceeds(p) => at'[p] \in {"idle", "checking"}
          /\ \A s, new : Continues(p, s, new) => at'[p] = s /\ job'[p] = new
        BY Moves
    <2>4. CASE ValidateToken(p) \/ Disconnect(p) \/ Configure(p) \/ SaveConfig(p) \/ Fetch(p)
                 \/ RequestSync(p) \/ StartPull(p) \/ StartPush(p) \/ SyncChecks(p) \/ ReadRefs(p)
                 \/ Send(p) \/ NotePush(p) \/ WriteMarkers(p) \/ CallFails(p) \/ Crash(p)
        <3>1. UNCHANGED <<index, mergeHead>>
            BY <2>4 DEF ValidateToken, Disconnect, Configure, SaveConfig, Fetch, RequestSync,
                   StartPull, StartPush, SyncChecks, ReadRefs, Send, NotePush, WriteMarkers, CallFails,
                   Crash, repoVars
        <3>2. at'[p] \in {"idle", "initializing", "fetching", "inspecting", "pushing", "sending",
                          "noting"}
            <4>1. CASE ValidateToken(p) \/ Disconnect(p) \/ Fetch(p) \/ RequestSync(p)
                BY <2>3, <4>1, Zenon DEF ValidateToken, Disconnect, Fetch, RequestSync
            <4>2. CASE Configure(p) \/ StartPull(p) \/ StartPush(p)
                BY <2>3, <4>2 DEF Configure, StartPull, StartPush
            <4>3. CASE SaveConfig(p) \/ NotePush(p) \/ WriteMarkers(p) \/ CallFails(p)
                BY <2>3, <4>3, Zenon DEF SaveConfig, NotePush, WriteMarkers, CallFails
            <4>4. CASE SyncChecks(p) \/ ReadRefs(p) \/ Send(p)
                BY <2>3, <4>4, Zenon DEF SyncChecks, ReadRefs, Send
            <4>5. CASE Crash(p)
                BY <4>5 DEF Crash, WellFormed, ProcessOK
            <4> QED BY <2>4, <4>1, <4>2, <4>3, <4>4, <4>5
        <3>3. Conflicts' = Conflicts
            BY <3>1 DEF Conflicts
        <3> QED BY <2>1, <3>1, <3>2, <3>3, OrdinaryCalm DEF Ordinary, Points
    <2>5. CASE PullFetch(p)
        <3>1. UNCHANGED <<local, index, mergeHead>> /\ at[p] = "fetching"
            BY <2>5 DEF PullFetch
        <3>2. Conflicts' = Conflicts
            BY <3>1 DEF Conflicts
        <3>3. CASE Ended(p) \/ PullSucceeds(p)
            BY <2>1, <2>3, <3>1, <3>2, <3>3, OrdinaryCalm DEF Ordinary, Points
        <3>4. ASSUME NEW base, Continues(p, "applying", [job[p] EXCEPT !.local = local, !.base = base,
                                                                     !.remote = github])
              PROVE  Calm'
            <4>1. job[p] \in Job
                BY DEF WellFormed, ProcessOK
            <4>2. at'[p] = "applying" /\ job'[p].local = local
                BY <2>3, <3>4, <4>1 DEF Job
            <4>3. StandsOK(p)'
                BY <3>1, <4>2 DEF StandsOK
            <4> QED BY <2>1, <2>2, <3>1, <3>2, <4>3, LoneCalm
        <3> QED BY <2>5, <3>3, <3>4, Zenon DEF PullFetch
    <2>6. CASE FastForward(p)
        <3>1. UNCHANGED <<index, mergeHead>> /\ at'[p] = "checkout"
            BY <2>3, <2>6 DEF FastForward
        <3> QED BY <2>1, <3>1, OrdinaryCalm DEF Ordinary, Points, Conflicts
    <2>7. CASE Inspect(p)
        <3>1. UNCHANGED <<index, mergeHead>>
            BY <2>7 DEF Inspect, repoVars
        <3>2. Conflicts' = Conflicts
            BY <3>1 DEF Conflicts
        <3>3. at'[p] = "idle" \/ (at'[p] = "forgetting" /\ Conflicts = {})
            BY <2>3, <2>7, Zenon DEF Inspect
        <3>4. StandsOK(p)'
            BY <3>2, <3>3 DEF StandsOK
        <3> QED BY <2>1, <2>2, <3>1, <3>2, <3>4, LoneCalm
    <2>8. CASE ForgetMerge(p) \/ EndMerge(p)
        <3>1. at[p] \in {"forgetting", "cleaning"} /\ index' = index
            BY <2>8 DEF ForgetMerge, EndMerge
        <3>2. Conflicts' = {}
            BY <2>2, <3>1 DEF StandsOK, Conflicts
        <3>3. at'[p] \in {"idle", "fetching"}
            BY <2>3, <2>8, Zenon DEF ForgetMerge, EndMerge
        <3> QED BY <2>1, <3>2, <3>3, OrdinaryCalm DEF Ordinary, Points
    <2>9. CASE AnnounceConflicts(p)
        <3>1. /\ at[p] = "applying" /\ at'[p] = "recording" /\ mergeHead' = job[p].remote
            BY <2>3, <2>9 DEF AnnounceConflicts
        <3>2. mergeHead' # NoCommit
            BY <3>1, Refs, GraphFacts DEF WellFormed, JobsOK, JobOK, Pulls
        <3>3. StandsOK(p)'
            BY <3>1, <3>2 DEF StandsOK
        <3> QED BY <2>1, <3>2, <3>3, LoneCalm
    <2>10. CASE RecordConflicts(p)
        <3>1. /\ at[p] = "recording" /\ at'[p] = "marking" /\ mergeHead' = mergeHead
            BY <2>3, <2>10 DEF RecordConflicts
        <3>2. mergeHead' # NoCommit
            BY <2>2, <3>1 DEF StandsOK
        <3> QED BY <2>1, <3>1, <3>2, OrdinaryCalm DEF Ordinary, Points
    <2>11. CASE WriteMergeHead(p)
        <3>1. /\ at[p] = "heading" /\ at'[p] \in {"idle", "checking"} /\ mergeHead' = job[p].remote
            BY <2>3, <2>11 DEF WriteMergeHead
        <3>2. mergeHead' # NoCommit
            BY <3>1, Refs, GraphFacts DEF WellFormed, JobsOK, JobOK, Pulls
        <3> QED BY <2>1, <3>1, <3>2, OrdinaryCalm DEF Ordinary, Points
    <2>12. CASE CommitStaged(p)
        <3>1. UNCHANGED <<index, mergeHead>>
            BY <2>12 DEF CommitStaged
        <3>2. Conflicts' = Conflicts
            BY <3>1 DEF Conflicts
        <3>3. at'[p] = "idle" \/ (at'[p] = "cleaning" /\ Conflicts = {})
            BY <2>3, <2>12, Zenon DEF CommitStaged
        <3>4. StandsOK(p)'
            BY <3>2, <3>3 DEF StandsOK
        <3> QED BY <2>1, <2>2, <3>1, <3>2, <3>4, LoneCalm
    <2>13. CASE \E f \in Files : ResolveConflict(p, f)
        <3>1. PICK f \in Files : ResolveConflict(p, f)
            BY <2>13
        <3>2. /\ index' = [index EXCEPT ![f] = work[f]] /\ mergeHead' = mergeHead
              /\ \E kind : AtOnce(p, kind)
            BY <3>1, Zenon DEF ResolveConflict
        <3>3. Conflicts' \subseteq Conflicts
            BY <3>2, TreeIsIndex DEF Conflicts, WellFormed, FilesOK
        <3> QED BY <2>1, <2>3, <3>2, <3>3, OrdinaryCalm DEF Ordinary, Points
    <2>14. ASSUME Conflicts' = {}, at'[p] \in {"idle", "checking", "heading", "committing", "saving"}
           PROVE  Calm'
        BY <2>1, <2>14, OrdinaryCalm DEF Ordinary, Points
    <2>15. ASSUME NEW tree \in Tree, index' = tree PROVE Conflicts' = {}
        BY <2>15, TreeIsIndex DEF Conflicts
    <2>16. /\ GraphOK /\ HeadsOK /\ work \in Tree /\ github \in DOMAIN graph
           /\ \A c \in DOMAIN graph : graph[c].tree \in Tree
        BY GraphTree DEF WellFormed, FilesOK, GraphOK
    <2>17. CASE StageAll(p)
        <3>1. index' = work /\ at'[p] = "committing"
            BY <2>3, <2>17 DEF StageAll
        <3> QED BY <2>14, <2>15, <2>16, <3>1
    <2>18. CASE InitializeRepo(p)
        <3>1. index' = graph[github].tree /\ at'[p] = "saving"
            BY <2>3, <2>18 DEF InitializeRepo, Clone, UpdateExistingRepo, Materialize
        <3> QED BY <2>14, <2>15, <2>16, <3>1
    <2>19. CASE Checkout(p)
        <3>1. /\ index' = graph[job[p].remote].tree /\ at'[p] \in {"idle", "checking"}
              /\ at[p] = "checkout"
            BY <2>3, <2>19 DEF Checkout, Materialize
        <3>2. job[p].remote \in DOMAIN graph
            BY <2>16, <3>1, Refs DEF WellFormed, JobsOK, JobOK, Pulls
        <3> QED BY <2>14, <2>15, <2>16, <3>1, <3>2
    <2>20. CASE StageMerge(p)
        <3>1. /\ index' = Merge(p) /\ at'[p] = "heading" /\ at[p] = "applying"
              /\ MergeConflicts(p) = {}
            BY <2>3, <2>20 DEF StageMerge, Materialize
        <3>2. job[p].remote \in DOMAIN graph /\ job[p].local \in DOMAIN graph
            BY <2>16, <3>1, Refs DEF WellFormed, JobsOK, JobOK, Pulls
        <3> QED BY <2>14, <2>15, <2>16, <3>1, <3>2, MergedIsTree
    <2>21. CASE DiscardUnpushed(p)
        <3>1. /\ index' = graph[tracking].tree /\ local # NoCommit /\ \E kind : AtOnce(p, kind)
            BY <2>21, Zenon DEF DiscardUnpushed, ResetTo, IsGitRepo
        <3>2. tracking \in DOMAIN graph
            BY <2>16, <3>1 DEF HeadsOK
        <3> QED BY <2>3, <2>14, <2>15, <2>16, <3>1, <3>2
    <2>22. CASE \E c \in DOMAIN graph : DiscardCommit(p, c)
        <3>1. PICK c \in DOMAIN graph : DiscardCommit(p, c)
            BY <2>22
        <3>2. /\ index' = graph[Head(graph[c].parents)].tree /\ graph[c].parents # <<>>
              /\ \E kind : AtOnce(p, kind)
            BY <3>1, Zenon DEF DiscardCommit, ResetTo
        <3>3. Head(graph[c].parents) \in DOMAIN graph
            BY <2>16, <3>2, FirstParent
        <3> QED BY <2>3, <2>14, <2>15, <2>16, <3>2, <3>3
    <2> QED BY <1>1, <2>4, <2>5, <2>6, <2>7, <2>8, <2>9, <2>10, <2>11, <2>12, <2>13, <2>17, <2>18,
               <2>19, <2>20, <2>21, <2>22, Zenon DEF Step
<1>2. ASSUME UNCHANGED <<local, index, mergeHead, at, job, overlapped>> PROVE Calm'
    <2>1. Calm
        BY <1>2 DEF CalmInv
    <2> QED BY <1>2, <2>1 DEF Calm, Alone, StandsOK, Conflicts
<1>3. (\E p \in Processes : Step(p)) \/ UNCHANGED <<local, index, mergeHead, at, job, overlapped>>
    BY DEF GitNext, SaveFile, UpstreamCommit, processVars, pathVars
<1> QED BY <1>1, <1>2, <1>3

\* While requests do not overlap, one process is at work, and a conflict belongs to a merge,
\* wherever a process dies.
THEOREM GitCalm == GitSpec => []CalmInv
<1>1. GitInit => CalmInv
    <2> SUFFICES ASSUME GitInit PROVE Calm
        BY DEF CalmInv
    <2>1. /\ \A p \in Processes : at[p] = "idle"
          /\ Conflicts = {}
        BY GitAssumption DEF GitInit, Conflicts
    <2> QED BY <2>1 DEF Calm, Alone, StandsOK
<1>2. WellFormed /\ CalmInv /\ [GitNext]_gitVars => CalmInv'
    <2>1. ASSUME CalmInv, UNCHANGED gitVars PROVE CalmInv'
        BY <2>1 DEF CalmInv, Calm, Alone, StandsOK, Conflicts, gitVars, repoVars, processVars, pathVars
    <2> QED BY <2>1, StepCalm
<1> QED BY <1>1, <1>2, GitWellFormed, PTL DEF GitSpec

LEMMA WellFormedIsInv ==
    ASSUME WellFormed, CalmInv
    PROVE  GitInv
<1>1. GraphOK /\ HeadsOK /\ FilesOK /\ ProcessOK /\ RestOK
    BY DEF WellFormed
<1>2. GitTypeOK
    BY <1>1, Refs DEF GraphOK, HeadsOK, FilesOK, ProcessOK, RestOK, GitTypeOK
<1>3. TrackingIsOnGitHub
    BY <1>1, Refs DEF TrackingIsOnGitHub, Pushed, Ancestors
<1>4. ConflictsBelongToMerge
    BY DEF CalmInv, Calm, ConflictsBelongToMerge, Status
<1> QED BY <1>2, <1>3, <1>4 DEF GitInv

\* The workspace is well typed; the commits that the history calls pushed are on GitHub, unless a
\* push sent another branch than it had read; and while requests do not overlap, the conflicts
\* that the status lists are part of a merge that it announces.
THEOREM GitInvAlways == GitSpec => []GitInv
BY GitWellFormed, GitCalm, WellFormedIsInv, PTL

-----------------------------------------------------------------------------
(* What holds while requests neither overlap nor break off.                  *)

Is(s) == \E p \in Processes : at[p] = s

\* What the process that pulls or pushes knows of the refs.
PointOK(p) ==
    /\ at[p] \in {"fetching", "applying", "checkout", "heading", "noting"} => mergeHead = NoCommit
    /\ at[p] \in Pulls => job[p].remote = tracking
    /\ at[p] \in {"applying", "recording", "heading"} =>
          job[p].local = local /\ tracking \notin Ancestors(local)
    /\ at[p] \in {"applying", "recording", "marking"} => job[p].base \in DOMAIN graph
    /\ at[p] \in {"applying", "recording"} =>
          Ancestors(job[p].base) = Ancestors(local) \cap Ancestors(tracking)
    /\ at[p] = "recording" => mergeHead = tracking
    /\ at[p] = "checkout" => local = tracking
    /\ at[p] = "marking" => MergeConflicts(p) \subseteq touched
    /\ at[p] = "sending" => job[p].local = local /\ local # tracking
    /\ at[p] = "noting" => job[p].local = local /\ tracking \in Ancestors(local)
PointsOK == \A p \in Processes : PointOK(p)

\* A merge that is committed is over, although MERGE_HEAD still is there.
Merged == IF Is("cleaning") THEN NoCommit ELSE mergeHead

\* From the fetch of a pull to the end of its merge, nothing here is on GitHub that the tracking
\* branch does not have, and what it does not have yet descends from it.
Pulling == Merged # NoCommit \/ Is("applying") \/ Is("heading")
PullOK == Pulling =>
    /\ Ancestors(local) \cap Ancestors(github) \subseteq Ancestors(tracking)
    /\ tracking \in Ancestors(local) => local = tracking
    /\ \A c \in Ancestors(github) \ Ancestors(tracking) : tracking \in Ancestors(c)

\* What is being merged has all of GitHub that any commit here has, unless the commit has it.
Theirs == IF Is("heading") THEN tracking ELSE Merged
Known == Ancestors(local) \cup Ancestors(tracking)
TheirsOK == Theirs # NoCommit =>
    /\ Theirs \in Ancestors(tracking)
    /\ \A c \in Known : \/ Theirs \in Ancestors(c)
                        \/ Ancestors(c) \cap Ancestors(tracking) \subseteq Ancestors(Theirs)

\* What a commit of the branch has of GitHub is what one commit has.
ShareOK == \A c \in Ancestors(local) :
    \E x \in DOMAIN graph : Ancestors(c) \cap Ancestors(github) = Ancestors(x)

\* Commits that have the same of GitHub have the same of every file that is not the user's own.
Own == touched \cup skipped
AgreeOK == \A a, b \in Known :
    Ancestors(a) \cap Ancestors(tracking) = Ancestors(b) \cap Ancestors(tracking) =>
        \A f \in Files \ Own : graph[a].tree[f] = graph[b].tree[f]

\* So have the index and the directory, except between the two halves of a fast forward; a merge
\* that is announced is not in the index yet.
Basis ==
    IF Is("recording") \/ Theirs \in {NoCommit} \cup Ancestors(local) THEN local ELSE Theirs
WorkOK == (local # NoCommit /\ ~Is("checkout")) =>
    \A f \in Files \ Own : work[f] = index[f] /\ index[f] = graph[Basis].tree[f]

Ordered == PointsOK /\ PullOK /\ TheirsOK /\ ShareOK /\ AgreeOK /\ WorkOK
OrderInv == ~disturbed => ~retracted /\ Ordered

\* Of what is at work, the actor says all.
LEMMA Modes ==
    ASSUME NEW p \in Processes, Lone(p), NEW s, s # "idle"
    PROVE  /\ Is(s) <=> at[p] = s
           /\ (Is(s))' <=> at'[p] = s
BY DEF Lone, Is

\* No two commits descend from each other.
LEMMA Antisymmetric ==
    ASSUME GraphOK, NEW a \in DOMAIN graph, NEW b \in DOMAIN graph,
           a \in Reach(graph, b), b \in Reach(graph, a)
    PROVE  a = b
<1>1. a \in 1..b /\ b \in 1..a /\ a \in Nat /\ b \in Nat
    BY GraphFacts
<1> QED BY <1>1

\* Facts of the refs that the steps share.
LEMMA RefFacts ==
    ASSUME WellFormed
    PROVE  /\ ~retracted => Reach(graph, tracking) \subseteq Reach(graph, github)
           /\ Reach(graph, local) \subseteq DOMAIN graph /\ Reach(graph, tracking) \subseteq DOMAIN graph
           /\ Reach(graph, github) \subseteq DOMAIN graph
           /\ github \in DOMAIN graph /\ github \in Reach(graph, github)
           /\ local # NoCommit => /\ local \in DOMAIN graph /\ local \in Reach(graph, local)
                                  /\ tracking \in DOMAIN graph /\ tracking \in Reach(graph, tracking)
           /\ local # NoCommit <=> tracking # NoCommit
           /\ mergeHead # NoCommit => /\ mergeHead \in DOMAIN graph /\ mergeHead \in Reach(graph, github)
                                      /\ local # NoCommit
           /\ \A c \in Reach(graph, local) : Reach(graph, c) \subseteq Reach(graph, local)
           /\ \A c \in Reach(graph, tracking) : Reach(graph, c) \subseteq Reach(graph, tracking)
           /\ \A c \in Reach(graph, github) : Reach(graph, c) \subseteq Reach(graph, github)
           /\ \A c \in DOMAIN graph : c \in Reach(graph, c) /\ c # NoCommit
           /\ Reach(graph, NoCommit) = {}
<1>1. GraphOK /\ HeadsOK
    BY DEF WellFormed
<1>2. /\ ~retracted => Reach(graph, tracking) \subseteq Reach(graph, github)
      /\ github \in 0..Len(graph) /\ local \in 0..Len(graph)
      /\ tracking \in 0..Len(graph) /\ mergeHead \in 0..Len(graph)
      /\ tracking \in {NoCommit} \cup DOMAIN graph /\ mergeHead \in {NoCommit} \cup DOMAIN graph
    BY <1>1, Refs
<1>3. /\ local \in {NoCommit} \cup DOMAIN graph
      /\ local # NoCommit <=> tracking # NoCommit
      /\ mergeHead # NoCommit => mergeHead \in Reach(graph, github) /\ local # NoCommit
    BY <1>1 DEF HeadsOK, Ancestors
<1> QED BY <1>1, <1>2, <1>3, GraphFacts

\* When one process is at work, the others have nothing to keep.
LEMMA LoneOrdered ==
    ASSUME NEW p \in Processes, Lone(p), PointOK(p)', PullOK', TheirsOK', ShareOK', AgreeOK',
           WorkOK'
    PROVE  Ordered'
<1>1. ASSUME NEW q \in Processes \ {p} PROVE PointOK(q)'
    BY DEF Lone, PointOK, Pulls
<1>2. PointsOK'
    BY <1>1 DEF PointsOK
<1> QED BY <1>2 DEF Ordered

Between == {"idle", "inspecting", "forgetting", "initializing", "saving", "checking", "pushing",
            "committing"}
Merging == {"applying", "recording", "checkout", "heading", "cleaning"}

\* What the conjuncts ask of a process that is not in the middle of something.
LEMMA BetweenSteps ==
    ASSUME NEW p \in Processes, at'[p] \in Between
    PROVE  PointOK(p)' /\ at'[p] \notin Merging
BY DEF PointOK, Between, Pulls, Merging

\* What is being merged, and whether a pull is on, by where the process is.
LEMMA TheirsNow ==
    ASSUME NEW p \in Processes, Lone(p)
    PROVE  /\ at[p] \notin {"heading", "cleaning"} => Theirs = mergeHead
           /\ at[p] = "cleaning" => Theirs = NoCommit
           /\ at[p] = "heading" => Theirs = tracking
           /\ Pulling <=> \/ at[p] \in {"applying", "heading"}
                          \/ at[p] # "cleaning" /\ mergeHead # NoCommit
           /\ at[p] = "recording" => Basis = local
           /\ at[p] # "recording" =>
                 Basis = IF Theirs \in {NoCommit} \cup Ancestors(local) THEN local ELSE Theirs
<1>1. \A s \in Merging : Is(s) <=> at[p] = s
    BY Modes DEF Merging
<1> QED BY <1>1 DEF Theirs, Merged, Pulling, Basis, Merging

LEMMA TheirsThen ==
    ASSUME NEW p \in Processes, Lone(p)
    PROVE  /\ at'[p] \notin {"heading", "cleaning"} => Theirs' = mergeHead'
           /\ at'[p] = "cleaning" => Theirs' = NoCommit
           /\ at'[p] = "heading" => Theirs' = tracking'
           /\ Pulling' <=> \/ at'[p] \in {"applying", "heading"}
                           \/ at'[p] # "cleaning" /\ mergeHead' # NoCommit
           /\ at'[p] = "recording" => Basis' = local'
           /\ at'[p] # "recording" =>
                 Basis' = IF Theirs' \in {NoCommit} \cup (Ancestors(local))' THEN local' ELSE Theirs'
<1>1. \A s \in Merging : (Is(s))' <=> at'[p] = s
    BY Modes DEF Merging
<1> QED BY <1>1 DEF Theirs, Merged, Pulling, Basis, Merging

\* A step that leaves the refs alone, and does not begin or end the merge of a pull.
LEMMA RefsKept ==
    ASSUME Ordered, NEW p \in Processes, Lone(p),
           UNCHANGED <<graph, github, local, tracking, mergeHead>>,
           touched \subseteq touched', skipped \subseteq skipped',
           at'[p] \notin Merging, at[p] \notin {"heading", "cleaning", "recording"}
    PROVE  /\ PullOK' /\ TheirsOK' /\ ShareOK' /\ AgreeOK'
           /\ Basis' = Basis /\ Own \subseteq Own'
           /\ ~(Is("checkout"))'
<1>1. at'[p] \notin {"heading", "applying", "checkout", "recording", "cleaning"}
    BY DEF Merging
<1>2. Theirs' = Theirs /\ (Pulling' => Pulling)
    BY <1>1, TheirsNow, TheirsThen
<1>3. Own \subseteq Own' /\ Known' = Known
    BY DEF Own, Known, Ancestors
<1>4. PullOK' /\ ShareOK'
    BY <1>2 DEF Ordered, PullOK, ShareOK, Ancestors
<1>5. TheirsOK'
    BY <1>2, <1>3 DEF Ordered, TheirsOK, Ancestors
<1>6. AgreeOK'
    BY <1>3 DEF Ordered, AgreeOK, Ancestors
<1>7. (Ancestors(local))' = Ancestors(local)
    BY DEF Ancestors
<1>8. Basis' = Basis
    BY <1>1, <1>2, <1>7, TheirsNow, TheirsThen
<1>9. ~(Is("checkout"))'
    BY <1>1, Modes
<1> QED BY <1>3, <1>4, <1>5, <1>6, <1>8, <1>9

\* ... and changes no file but the user's own.
LEMMA ApartStep ==
    ASSUME Ordered, NEW p \in Processes, Lone(p),
           UNCHANGED <<graph, github, local, tracking, mergeHead>>,
           touched \subseteq touched', skipped \subseteq skipped',
           PointOK(p)', at'[p] \notin Merging,
           at[p] \notin {"heading", "cleaning", "recording", "checkout"},
           local = NoCommit \/ \A f \in Files \ Own : work'[f] = work[f] /\ index'[f] = index[f]
    PROVE  Ordered'
<1>1. /\ PullOK' /\ TheirsOK' /\ ShareOK' /\ AgreeOK'
      /\ Basis' = Basis /\ Own \subseteq Own'
    BY RefsKept
<1>2. ~Is("checkout")
    BY Modes
<1>3. WorkOK'
    BY <1>1, <1>2 DEF Ordered, WorkOK
<1> QED BY <1>1, <1>3, LoneOrdered

\* Requests that touch no ref, index or file, or files only that are the user's own.
StaysApart(p) ==
    \/ ValidateToken(p) \/ Disconnect(p) \/ Configure(p) \/ SaveConfig(p)
    \/ RequestSync(p) \/ StartPull(p) \/ Inspect(p) \/ StartPush(p) \/ SyncChecks(p) \/ ReadRefs(p)
    \/ WriteMarkers(p) \/ StageAll(p)
    \/ (\E f \in Files : ResolveConflict(p, f)) \/ CallFails(p) \/ Crash(p)

\* The index and the directory hold the same of every file that is not the user's own.
LEMMA SameFiles ==
    ASSUME Ordered, local # NoCommit, NEW p \in Processes, Lone(p), at[p] # "checkout"
    PROVE  \A f \in Files \ Own : work[f] = index[f]
<1>1. ~Is("checkout")
    BY Modes
<1> QED BY <1>1 DEF Ordered, WorkOK

\* The requests that do no more than that.
LEMMA ApartSteps ==
    ASSUME WellFormed, Ordered, NEW p \in Processes, Lone(p), StaysApart(p), ~broken'
    PROVE  Ordered'
<1>1. UNCHANGED <<graph, github, local, tracking, mergeHead>>
    <2>1. KeepsRefs(p)
        BY DEF StaysApart, KeepsRefs
    <2> QED BY <2>1, KeptRefs
<1> DEFINE Apart == /\ at[p] \notin {"heading", "cleaning", "recording", "checkout"}
                    /\ at'[p] \in Between
                    /\ touched \subseteq touched' /\ skipped \subseteq skipped'
                    /\ local = NoCommit \/ \A f \in Files \ Own : work'[f] = work[f] /\ index'[f] = index[f]
<1>2. Apart => Ordered'
    BY <1>1, BetweenSteps, ApartStep
<1>3. CASE ValidateToken(p) \/ Disconnect(p) \/ RequestSync(p)
    <2>1. /\ \E kind : AtOnce(p, kind)
          /\ UNCHANGED <<index, work, touched, skipped>>
        BY <1>3, Zenon DEF ValidateToken, Disconnect, RequestSync, repoVars
    <2>2. at[p] = "idle" /\ at'[p] = "idle"
        BY <2>1, Moves
    <2> QED BY <1>2, <2>1, <2>2 DEF Between
<1>4. CASE Configure(p) \/ StartPush(p)
    <2>1. /\ \E kind : BeginRequest(p, kind, "initializing") \/ BeginRequest(p, kind, "pushing")
          /\ UNCHANGED <<index, work, touched, skipped>>
        BY <1>4, Zenon DEF Configure, StartPush, repoVars
    <2>2. at[p] = "idle" /\ at'[p] \in {"initializing", "pushing"}
        BY <2>1, Moves
    <2> QED BY <1>2, <2>1, <2>2 DEF Between
<1>5. CASE StartPull(p)
    <2>1. /\ \E kind : BeginRequest(p, kind, IF mergeHead = NoCommit THEN "fetching" ELSE "inspecting")
          /\ UNCHANGED <<index, work, touched, skipped>>
        BY <1>5, Zenon DEF StartPull, repoVars
    <2>2. at[p] = "idle" /\ at'[p] = IF mergeHead = NoCommit THEN "fetching" ELSE "inspecting"
        BY <2>1, Moves
    <2>3. PointOK(p)' /\ at'[p] \notin Merging
        BY <1>1, <2>2 DEF PointOK, Pulls, Merging
    <2> QED BY <1>1, <2>1, <2>2, <2>3, ApartStep
<1>6. CASE SaveConfig(p) \/ Inspect(p) \/ SyncChecks(p)
    <2>1. /\ at[p] \in {"saving", "inspecting", "checking"}
          /\ UNCHANGED <<index, work, touched, skipped>>
        BY <1>6 DEF SaveConfig, Inspect, SyncChecks, repoVars
    <2>2. at'[p] \in {"idle", "forgetting", "pushing"}
        BY <1>6, Moves, Zenon DEF SaveConfig, Inspect, SyncChecks
    <2> QED BY <1>2, <2>1, <2>2 DEF Between
<1>7. CASE ReadRefs(p)
    <2>1. /\ at[p] = "pushing" /\ UNCHANGED <<index, work, touched, skipped>>
          /\ IF local = tracking THEN Ended(p)
             ELSE Continues(p, "sending", [job[p] EXCEPT !.local = local])
        BY <1>7, Zenon DEF ReadRefs, repoVars
    <2>2. CASE local = tracking
        <3>1. at'[p] = "idle"
            BY <2>1, <2>2, Moves
        <3> QED BY <1>2, <2>1, <3>1 DEF Between
    <2>3. CASE local # tracking
        <3>1. job[p] \in Job
            BY DEF WellFormed, ProcessOK
        <3>2. at'[p] = "sending" /\ job'[p].local = local
            BY <2>1, <2>3, <3>1, Moves DEF Job
        <3>3. PointOK(p)' /\ at'[p] \notin Merging
            BY <1>1, <2>3, <3>2 DEF PointOK, Pulls, Merging
        <3> QED BY <1>1, <2>1, <3>3, ApartStep
    <2> QED BY <2>2, <2>3
<1>8. CASE WriteMarkers(p)
    <2>1. /\ at[p] = "marking" /\ at'[p] = "idle" /\ UNCHANGED <<index, touched, skipped>>
          /\ work' = [f \in Files |-> IF f \in MergeConflicts(p) THEN Marked ELSE work[f]]
        BY <1>8, Moves DEF WriteMarkers
    <2>2. MergeConflicts(p) \subseteq touched
        BY <2>1 DEF Ordered, PointsOK, PointOK
    <2>3. \A f \in Files \ Own : work'[f] = work[f] /\ index'[f] = index[f]
        BY <2>1, <2>2 DEF Own
    <2> QED BY <1>2, <2>1, <2>3 DEF Between
<1>9. CASE StageAll(p)
    <2>1. /\ local # NoCommit /\ index' = work /\ UNCHANGED <<work, touched, skipped>>
          /\ \E kind : BeginRequest(p, kind, "committing")
        BY <1>9, Zenon DEF StageAll, IsGitRepo
    <2>2. at[p] = "idle" /\ at'[p] = "committing"
        BY <2>1, Moves
    <2>3. \A f \in Files \ Own : work'[f] = work[f] /\ index'[f] = index[f]
        BY <2>1, <2>2, SameFiles
    <2> QED BY <1>2, <2>1, <2>2, <2>3 DEF Between
<1>10. ASSUME NEW f \in Files, ResolveConflict(p, f) PROVE Ordered'
    <2>1. /\ at[p] = "idle" /\ at'[p] = "idle" /\ UNCHANGED <<work, touched, skipped>>
          /\ local # NoCommit /\ index' = [index EXCEPT ![f] = work[f]]
        BY <1>10, Moves, Zenon DEF ResolveConflict, IsGitRepo
    <2>2. \A g \in Files \ Own : work[g] = index[g]
        BY <2>1, SameFiles
    <2>3. \A g \in Files \ Own : work'[g] = work[g] /\ index'[g] = index[g]
        BY <2>1, <2>2 DEF WellFormed, FilesOK
    <2> QED BY <1>2, <2>1, <2>3 DEF Between
<1>11. CASE CallFails(p)
    <2>1. /\ at[p] \in {"fetching", "pushing", "sending", "noting", "initializing"} /\ at'[p] = "idle"
          /\ UNCHANGED <<index, touched, skipped>>
          /\ local = NoCommit \/ work' = work
        BY <1>11, Moves DEF CallFails, IsGitRepo
    <2> QED BY <1>2, <2>1 DEF Between
<1>12. CASE Crash(p)
    <2>1. /\ at' = [at EXCEPT ![p] = "idle"] /\ UNCHANGED <<index, work, touched, skipped>>
          /\ at[p] \notin HalfWay
        BY <1>12, Zenon DEF Crash, repoVars
    <2>2. at'[p] = "idle"
        BY <2>1 DEF WellFormed, ProcessOK
    <2> QED BY <1>2, <2>1, <2>2 DEF Between, HalfWay
<1> QED BY <1>3, <1>4, <1>5, <1>6, <1>7, <1>8, <1>9, <1>10, <1>11, <1>12 DEF StaysApart

\* The second half of a fast forward.
LEMMA CheckoutStep ==
    ASSUME WellFormed, Ordered, NEW p \in Processes, Lone(p), Checkout(p)
    PROVE  Ordered'
<1>1. UNCHANGED <<graph, github, local, tracking, mergeHead, touched>>
    BY DEF Checkout
<1>2. at[p] = "checkout" /\ at'[p] \in {"idle", "checking"}
    BY Moves DEF Checkout
<1>3. /\ job[p].remote = local /\ mergeHead = NoCommit
    BY <1>2 DEF Ordered, PointsOK, PointOK, Pulls
<1>4. /\ index' = graph[local].tree /\ work' = Written(graph[local].tree)
      /\ skipped' = skipped \cup LeftOver(graph[local].tree)
    BY <1>3 DEF Checkout, Materialize
<1>5. /\ PointOK(p)' /\ PullOK' /\ TheirsOK' /\ ShareOK' /\ AgreeOK'
      /\ Basis' = Basis /\ Own \subseteq Own'
    <2>1. skipped \subseteq skipped'
        BY <1>4
    <2>2. PointOK(p)' /\ at'[p] \notin Merging
        BY <1>2, BetweenSteps DEF Between
    <2> QED BY <1>1, <1>2, <2>1, <2>2, RefsKept
<1>6. Basis = local
    BY <1>2, <1>3, TheirsNow
<1>7. WorkOK'
    BY <1>1, <1>4, <1>5, <1>6 DEF WorkOK, Written, LeftOver, Own
<1> QED BY <1>5, <1>7, LoneOrdered
\* The merge has GitHub's content of every file that is not the user's own.
LEMMA MergeTakesTheirs ==
    ASSUME WellFormed, Ordered, NEW p \in Processes,
           at[p] \in {"applying", "recording"}, NEW f \in Files \ Own
    PROVE  Merge(p)[f] = graph[tracking].tree[f]
<1>1. /\ local # NoCommit /\ job[p].local = local /\ job[p].remote = tracking
      /\ job[p].base \in DOMAIN graph
      /\ Reach(graph, job[p].base) = Reach(graph, local) \cap Reach(graph, tracking)
    BY DEF WellFormed, JobsOK, JobOK, Ordered, PointsOK, PointOK, Pulls, Ancestors
<1>2. local \in Reach(graph, local) /\ job[p].base \in Reach(graph, job[p].base)
      /\ job[p].base # NoCommit
    BY <1>1, RefFacts
<1>3. local \in Known /\ job[p].base \in Known
    BY <1>1, <1>2 DEF Known, Ancestors
<1>4. Reach(graph, job[p].base) \cap Reach(graph, tracking)
        = Reach(graph, local) \cap Reach(graph, tracking)
    BY <1>1
<1>5. graph[job[p].base].tree[f] = graph[local].tree[f]
    BY <1>3, <1>4 DEF Ordered, AgreeOK, Ancestors
<1>6. Merge(p)[f] = MergedFile(graph[job[p].base].tree[f], graph[local].tree[f],
                               graph[tracking].tree[f])
    BY <1>1, <1>2 DEF Merge, MergedTree
<1> QED BY <1>5, <1>6 DEF MergedFile

\* The merge is GitHub's commit, which has all of GitHub that is here.
LEMMA MergeIsUpstream ==
    ASSUME WellFormed, local # NoCommit, UNCHANGED <<graph, local, tracking>>,
           Theirs' = tracking
    PROVE  TheirsOK'
<1>1. tracking \in Reach(graph, tracking)
    BY RefFacts
<1> QED BY <1>1 DEF TheirsOK, Ancestors

\* What holds whenever neither the branches nor GitHub's move.
LEMMA BranchesKept ==
    ASSUME Ordered, UNCHANGED <<graph, github, local, tracking>>, Own \subseteq Own'
    PROVE  ShareOK' /\ AgreeOK' /\ (Pulling => PullOK')
<1>1. Known' = Known
    BY DEF Known, Ancestors
<1>2. AgreeOK'
    BY <1>1 DEF Ordered, AgreeOK, Ancestors
<1>3. ShareOK'
    BY DEF Ordered, ShareOK, Ancestors
<1>4. Pulling => PullOK'
    BY DEF Ordered, PullOK, Ancestors
<1> QED BY <1>2, <1>3, <1>4

\* What a pull that is about to apply what it fetched can rely on.
LEMMA ApplyingFacts ==
    ASSUME WellFormed, Ordered, NEW p \in Processes, Lone(p),
           at[p] \in {"applying", "recording"}
    PROVE  /\ local # NoCommit /\ tracking \in DOMAIN graph /\ local \in DOMAIN graph
           /\ mergeHead = (IF at[p] = "applying" THEN NoCommit ELSE tracking)
           /\ tracking \notin Reach(graph, local)
           /\ job[p].local = local /\ job[p].remote = tracking /\ job[p].base \in DOMAIN graph
           /\ Reach(graph, job[p].base) = Reach(graph, local) \cap Reach(graph, tracking)
           /\ Pulling /\ Basis = local
           /\ \A f \in Files \ Own : /\ work[f] = index[f] /\ index[f] = graph[local].tree[f]
                                     /\ Merge(p)[f] = graph[tracking].tree[f]
<1>1. /\ local # NoCommit /\ job[p].local = local /\ job[p].remote = tracking
      /\ mergeHead = (IF at[p] = "applying" THEN NoCommit ELSE tracking)
      /\ tracking \notin Reach(graph, local) /\ job[p].base \in DOMAIN graph
      /\ Reach(graph, job[p].base) = Reach(graph, local) \cap Reach(graph, tracking)
    BY DEF WellFormed, JobsOK, JobOK, Ordered, PointsOK, PointOK, Pulls, Ancestors
<1>2. tracking \in DOMAIN graph /\ local \in DOMAIN graph /\ tracking # NoCommit
    BY <1>1, RefFacts
<1>3. Pulling /\ Theirs = mergeHead
    BY <1>1, <1>2, TheirsNow
<1>4. Basis = local
    BY <1>1, <1>3, TheirsNow
<1>5. ~Is("checkout")
    BY Modes
<1> QED BY <1>1, <1>2, <1>3, <1>4, <1>5, MergeTakesTheirs DEF Ordered, WorkOK

\* The merge is announced; the directory and the index are the branch's still.
LEMMA AnnounceStep ==
    ASSUME WellFormed, Ordered, NEW p \in Processes, Lone(p), AnnounceConflicts(p)
    PROVE  Ordered'
<1>1. /\ at[p] = "applying" /\ at'[p] = "recording" /\ job'[p] = job[p]
      /\ mergeHead' = job[p].remote
      /\ UNCHANGED <<graph, github, local, tracking, index, work, touched, skipped>>
    BY Moves DEF AnnounceConflicts
<1>2. /\ local # NoCommit /\ tracking \in DOMAIN graph /\ tracking \notin Reach(graph, local)
      /\ job[p].local = local /\ job[p].remote = tracking /\ job[p].base \in DOMAIN graph
      /\ Reach(graph, job[p].base) = Reach(graph, local) \cap Reach(graph, tracking)
      /\ Pulling /\ Basis = local
    BY <1>1, ApplyingFacts
<1>3. Own' = Own
    BY <1>1 DEF Own
<1>4. PointOK(p)'
    BY <1>1, <1>2 DEF PointOK, Pulls, Ancestors
<1>5. Theirs' = tracking /\ Basis' = local
    BY <1>1, <1>2, TheirsThen
<1>6. TheirsOK' /\ ShareOK' /\ AgreeOK' /\ PullOK'
    BY <1>1, <1>2, <1>3, <1>5, MergeIsUpstream, BranchesKept
<1>7. WorkOK'
    <2>1. ~Is("checkout")
        BY <1>1, Modes
    <2> QED BY <1>1, <1>2, <1>3, <1>5, <2>1 DEF Ordered, WorkOK
<1> QED BY <1>4, <1>6, <1>7, LoneOrdered

\* Conflicts are recorded, and the merge becomes what the directory goes by.
LEMMA RecordStep ==
    ASSUME WellFormed, Ordered, NEW p \in Processes, Lone(p), RecordConflicts(p)
    PROVE  Ordered'
<1>1. /\ at[p] = "recording" /\ at'[p] = "marking" /\ job'[p] = job[p]
      /\ UNCHANGED <<graph, github, local, tracking, work, mergeHead>>
      /\ index' = [f \in Files |-> IF f \in MergeConflicts(p) THEN Unmerged ELSE index[f]]
      /\ touched' = touched \cup MergeConflicts(p)
      /\ skipped' = skipped \cup {f \in Files : Merge(p)[f] # graph[job[p].local].tree[f]}
    BY Moves DEF RecordConflicts
<1>2. /\ local # NoCommit /\ tracking \in DOMAIN graph /\ local \in DOMAIN graph
      /\ mergeHead = tracking /\ tracking \notin Reach(graph, local)
      /\ job[p].local = local /\ job[p].remote = tracking /\ job[p].base \in DOMAIN graph
      /\ Pulling
      /\ \A f \in Files \ Own : /\ work[f] = index[f] /\ index[f] = graph[local].tree[f]
                                /\ Merge(p)[f] = graph[tracking].tree[f]
    BY <1>1, ApplyingFacts
<1>3. Own \subseteq Own'
    BY <1>1 DEF Own
<1>4. PointOK(p)'
    <2>1. MergeConflicts(p)' = MergeConflicts(p)
        BY <1>1 DEF MergeConflicts, Merge, MergedTree
    <2> QED BY <1>1, <1>2, <2>1 DEF PointOK, Pulls
<1>5. Theirs' = tracking
    BY <1>1, <1>2, TheirsThen
<1>6. TheirsOK' /\ ShareOK' /\ AgreeOK' /\ PullOK'
    BY <1>1, <1>2, <1>3, <1>5, MergeIsUpstream, BranchesKept
<1>7. Basis' = tracking
    <2>1. tracking # NoCommit
        BY <1>2, RefFacts
    <2> QED BY <1>1, <1>2, <1>5, <2>1, TheirsThen DEF Ancestors
<1>8. WorkOK'
    <2> SUFFICES ASSUME NEW f \in Files \ Own'
                 PROVE  work'[f] = index'[f] /\ index'[f] = graph'[tracking].tree[f]
        BY <1>7 DEF WorkOK
    <2>1. f \in Files \ Own /\ f \notin MergeConflicts(p)
          /\ Merge(p)[f] = graph[local].tree[f]
        BY <1>1, <1>2 DEF Own
    <2> QED BY <1>1, <1>2, <2>1
<1> QED BY <1>4, <1>6, <1>8, LoneOrdered

\* A merge without conflicts is staged, and becomes what the directory goes by.
LEMMA StageStep ==
    ASSUME WellFormed, Ordered, NEW p \in Processes, Lone(p), StageMerge(p)
    PROVE  Ordered'
<1>1. /\ at[p] = "applying" /\ at'[p] = "heading" /\ job'[p] = job[p]
      /\ UNCHANGED <<graph, github, local, tracking, mergeHead, touched>>
      /\ index' = Merge(p) /\ work' = Written(Merge(p))
      /\ skipped' = skipped \cup LeftOver(Merge(p))
    BY Moves DEF StageMerge, Materialize
<1>2. /\ local # NoCommit /\ tracking \in DOMAIN graph /\ local \in DOMAIN graph
      /\ mergeHead = NoCommit /\ tracking \notin Reach(graph, local)
      /\ job[p].local = local /\ job[p].remote = tracking /\ job[p].base \in DOMAIN graph
      /\ Pulling
      /\ \A f \in Files \ Own : /\ work[f] = index[f] /\ index[f] = graph[local].tree[f]
                                /\ Merge(p)[f] = graph[tracking].tree[f]
    BY <1>1, ApplyingFacts
<1>3. Own \subseteq Own'
    BY <1>1 DEF Own
<1>4. PointOK(p)'
    BY <1>1, <1>2 DEF PointOK, Pulls, Ancestors
<1>5. Theirs' = tracking
    BY <1>1, TheirsThen
<1>6. TheirsOK' /\ ShareOK' /\ AgreeOK' /\ PullOK'
    BY <1>1, <1>2, <1>3, <1>5, MergeIsUpstream, BranchesKept
<1>7. Basis' = tracking
    <2>1. tracking # NoCommit
        BY <1>2, RefFacts
    <2> QED BY <1>1, <1>2, <1>5, <2>1, TheirsThen DEF Ancestors
<1>8. WorkOK'
    <2> SUFFICES ASSUME NEW f \in Files \ Own'
                 PROVE  work'[f] = index'[f] /\ index'[f] = graph'[tracking].tree[f]
        BY <1>7 DEF WorkOK
    <2>1. f \in Files \ Own /\ f \notin LeftOver(Merge(p))
        BY <1>1 DEF Own
    <2> QED BY <1>1, <1>2, <2>1 DEF Written, LeftOver
<1> QED BY <1>4, <1>6, <1>8, LoneOrdered

\* The merge that was staged is noted.
LEMMA HeadStep ==
    ASSUME WellFormed, Ordered, NEW p \in Processes, Lone(p), WriteMergeHead(p)
    PROVE  Ordered'
<1>1. /\ at[p] = "heading" /\ at'[p] \in {"idle", "checking"} /\ mergeHead' = job[p].remote
      /\ UNCHANGED <<graph, github, local, tracking, index, work, touched, skipped>>
    BY Moves DEF WriteMergeHead
<1>2. local # NoCommit /\ job[p].remote = tracking
    BY <1>1 DEF WellFormed, JobsOK, JobOK, Ordered, PointsOK, PointOK, Pulls
<1>3. Theirs = tracking /\ Theirs' = tracking /\ Pulling
    BY <1>1, <1>2, TheirsNow, TheirsThen
<1>4. Own' = Own /\ Basis' = Basis
    <2>1. (Ancestors(local))' = Ancestors(local)
        BY <1>1 DEF Ancestors
    <2> QED BY <1>1, <1>3, <2>1, TheirsNow, TheirsThen DEF Own
<1>5. TheirsOK' /\ ShareOK' /\ AgreeOK' /\ PullOK'
    BY <1>1, <1>2, <1>3, <1>4, MergeIsUpstream, BranchesKept
<1>6. PointOK(p)'
    BY <1>1, BetweenSteps DEF Between
<1>7. WorkOK'
    <2>1. ~Is("checkout")
        BY <1>1, Modes
    <2> QED BY <1>1, <1>4, <2>1 DEF Ordered, WorkOK
<1> QED BY <1>5, <1>6, <1>7, LoneOrdered

\* The branch of a fast forward moves to GitHub's commit.
LEMMA FastForwardStep ==
    ASSUME WellFormed, Ordered, ~retracted, NEW p \in Processes, Lone(p), FastForward(p)
    PROVE  Ordered'
<1>1. /\ at[p] = "applying" /\ at'[p] = "checkout" /\ job'[p] = job[p]
      /\ UNCHANGED <<graph, github, tracking, mergeHead, touched, skipped>>
      /\ local' = job[p].remote
    BY Moves DEF FastForward
<1>2. job[p].remote = tracking /\ mergeHead = NoCommit /\ tracking \in DOMAIN graph
    BY <1>1, ApplyingFacts
<1>3. PointOK(p)'
    BY <1>1, <1>2 DEF PointOK, Pulls
<1>4. PullOK' /\ TheirsOK'
    BY <1>1, <1>2, TheirsThen DEF PullOK, TheirsOK
<1>5. Known' \subseteq Known /\ Own' = Own
    BY <1>1, <1>2 DEF Known, Own, Ancestors
<1>6. AgreeOK'
    BY <1>1, <1>5 DEF Ordered, AgreeOK, Ancestors
<1>7. ShareOK'
    <2> SUFFICES ASSUME NEW c \in Reach(graph, tracking)
                 PROVE  \E x \in DOMAIN graph : Reach(graph, c) \cap Reach(graph, github) = Reach(graph, x)
        BY <1>1, <1>2 DEF ShareOK, Ancestors
    <2>1. c \in DOMAIN graph /\ Reach(graph, c) \subseteq Reach(graph, github)
        BY RefFacts
    <2> QED BY <2>1
<1>8. WorkOK'
    BY <1>1, Modes DEF WorkOK
<1> QED BY <1>3, <1>4, <1>6, <1>7, <1>8, LoneOrdered
\* The tracking branch moves on along GitHub's.
LEMMA AgreeForward ==
    ASSUME WellFormed, Ordered, UNCHANGED <<graph, local>>, Own \subseteq Own',
           tracking' \in DOMAIN graph, Reach(graph, tracking) \subseteq Reach(graph, tracking')
    PROVE  AgreeOK'
<1> DEFINE T == Reach(graph, tracking)
           U == Reach(graph, tracking')
           L == Reach(graph, local)
<1>1. GraphOK
    BY DEF WellFormed
<1>2. /\ L \subseteq DOMAIN graph /\ T \subseteq U
      /\ \A c \in L : Reach(graph, c) \subseteq L
      /\ \A c \in DOMAIN graph : c \in Reach(graph, c)
    BY RefFacts
<1>3. U \subseteq DOMAIN graph /\ \A c \in U : Reach(graph, c) \subseteq U
    BY <1>1, GraphFacts
<1> HIDE DEF T, U, L
<1>4. SUFFICES ASSUME NEW a \in L \cup U, NEW b \in L \cup U,
                      Reach(graph, a) \cap U = Reach(graph, b) \cap U,
                      NEW f \in Files \ Own
               PROVE  graph[a].tree[f] = graph[b].tree[f]
    BY DEF AgreeOK, Known, Ancestors, L, U
<1>5. ASSUME a \in L, b \in L PROVE graph[a].tree[f] = graph[b].tree[f]
    <2>1. Reach(graph, a) \cap T = Reach(graph, b) \cap T
        BY <1>2, <1>4
    <2> QED BY <1>5, <2>1 DEF Ordered, AgreeOK, Known, Ancestors, L, T
<1>6. a \in U => a \in Reach(graph, b)
    BY <1>2, <1>3, <1>4
<1>7. b \in U => b \in Reach(graph, a)
    BY <1>2, <1>3, <1>4
<1>8. CASE a \in U /\ b \in U
    BY <1>1, <1>3, <1>6, <1>7, <1>8, Antisymmetric
<1>9. CASE a \in U /\ b \in L
    BY <1>2, <1>5, <1>6, <1>9
<1>10. CASE a \in L /\ b \in U
    BY <1>2, <1>5, <1>7, <1>10
<1> QED BY <1>4, <1>5, <1>8, <1>9, <1>10

\* What the branch has of GitHub, when neither moves.
LEMMA ShareKept ==
    ASSUME Ordered, UNCHANGED <<graph, github, local>>
    PROVE  ShareOK'
BY DEF Ordered, ShareOK, Ancestors

\* The branch, the index and the directory become GitHub's.
LEMMA InitializeStep ==
    ASSUME WellFormed, Ordered, ~retracted, NEW p \in Processes, Lone(p), InitializeRepo(p)
    PROVE  Ordered'
<1> DEFINE G == Reach(graph, github)
           T == Reach(graph, tracking)
<1>1. /\ at[p] = "initializing" /\ at'[p] = "saving"
      /\ UNCHANGED <<graph, mergeHead, github>>
      /\ local' = github /\ tracking' = github
      /\ Clone \/ UpdateExistingRepo
    BY Moves DEF InitializeRepo
<1>2. /\ T \subseteq G /\ G \subseteq DOMAIN graph
      /\ github \in DOMAIN graph /\ github \in G
      /\ \A c \in T : Reach(graph, c) \subseteq T
      /\ \A c \in G : Reach(graph, c) \subseteq G
      /\ \A c \in DOMAIN graph : c \in Reach(graph, c)
      /\ mergeHead # NoCommit => /\ mergeHead \in DOMAIN graph /\ mergeHead \in G
    BY RefFacts
<1>3. /\ Theirs = mergeHead /\ Theirs' = mergeHead
      /\ Pulling <=> mergeHead # NoCommit
    BY <1>1, TheirsNow, TheirsThen
<1>4. PointOK(p)'
    BY <1>1, BetweenSteps DEF Between
<1>5. PullOK'
    BY <1>1 DEF PullOK, Ancestors
<1>6. TheirsOK'
    <2> SUFFICES ASSUME mergeHead # NoCommit, NEW c \in G
                 PROVE  \/ mergeHead \in Reach(graph, c)
                        \/ Reach(graph, c) \cap G \subseteq Reach(graph, mergeHead)
        BY <1>1, <1>2, <1>3 DEF TheirsOK, Known, Ancestors
    <2>1. /\ mergeHead \in T
          /\ c \in T => \/ mergeHead \in Reach(graph, c)
                        \/ Reach(graph, c) \cap T \subseteq Reach(graph, mergeHead)
          /\ c \notin T => tracking \in Reach(graph, c)
        BY <1>3 DEF Ordered, TheirsOK, PullOK, Known, Ancestors
    <2>2. CASE c \in T
        BY <1>2, <2>1, <2>2
    <2>3. CASE c \notin T
        <3>1. T \subseteq Reach(graph, c)
            BY <2>1, <2>3, <1>2, GraphFacts DEF WellFormed
        <3> QED BY <2>1, <3>1
    <2> QED BY <2>2, <2>3
<1>7. ShareOK'
    <2> SUFFICES ASSUME NEW c \in G
                 PROVE  \E x \in DOMAIN graph : Reach(graph, c) \cap G = Reach(graph, x)
        BY <1>1, <1>2 DEF ShareOK, Ancestors
    <2>1. c \in DOMAIN graph /\ Reach(graph, c) \subseteq G
        BY <1>2
    <2> QED BY <2>1
<1>8. AgreeOK'
    <2> SUFFICES ASSUME NEW a \in G, NEW b \in G,
                        Reach(graph, a) \cap G = Reach(graph, b) \cap G
                 PROVE  a = b
        BY <1>1 DEF AgreeOK, Known, Ancestors
    <2>1. a \in Reach(graph, b) /\ b \in Reach(graph, a)
        BY <1>2
    <2> QED BY <1>2, <2>1, Antisymmetric DEF WellFormed
<1>9. Basis' = github
    BY <1>1, <1>2, <1>3, TheirsThen DEF Ancestors
<1>10. WorkOK'
    <2>1. CASE Clone
        BY <1>1, <1>9, <2>1 DEF WorkOK, Clone
    <2>2. CASE UpdateExistingRepo
        <3>1. /\ index' = graph[github].tree /\ work' = Written(graph[github].tree)
              /\ skipped' = skipped \cup LeftOver(graph[github].tree)
            BY <2>2 DEF UpdateExistingRepo, Materialize
        <3> QED BY <1>1, <1>9, <3>1 DEF WorkOK, Written, LeftOver, Own
    <2> QED BY <1>1, <2>1, <2>2
<1> QED BY <1>4, <1>5, <1>6, <1>7, <1>8, <1>10, LoneOrdered

\* The tracking branch becomes GitHub's, during a merge too.
LEMMA FetchStep ==
    ASSUME WellFormed, Ordered, ~retracted, NEW p \in Processes, Lone(p), Fetch(p)
    PROVE  Ordered'
<1> DEFINE G == Reach(graph, github)
           T == Reach(graph, tracking)
           L == Reach(graph, local)
<1>1. /\ at[p] = "idle" /\ at'[p] = "idle"
      /\ UNCHANGED <<graph, local, index, work, mergeHead, github, touched, skipped>>
      /\ local # NoCommit /\ tracking' = github
    BY Moves, Zenon DEF Fetch, IsGitRepo
<1>2. /\ T \subseteq G /\ G \subseteq DOMAIN graph
      /\ github \in DOMAIN graph /\ github \in G /\ tracking \in DOMAIN graph /\ tracking \in T
      /\ \A c \in T : Reach(graph, c) \subseteq T
      /\ \A c \in L : Reach(graph, c) \subseteq L
      /\ \A c \in DOMAIN graph : c \in Reach(graph, c)
    BY <1>1, RefFacts
<1>3. /\ Theirs = mergeHead /\ Theirs' = mergeHead
      /\ Pulling <=> mergeHead # NoCommit
      /\ Pulling' <=> mergeHead # NoCommit
    BY <1>1, TheirsNow, TheirsThen
<1>4. PointOK(p)'
    BY <1>1, BetweenSteps DEF Between
<1>5. PullOK'
    <2> SUFFICES ASSUME mergeHead # NoCommit, github \in L PROVE local = github
        BY <1>1, <1>3 DEF PullOK, Ancestors
    <2>1. L \cap G \subseteq T /\ (tracking \in L => local = tracking)
        BY <1>3 DEF Ordered, PullOK, Ancestors
    <2>2. github \in T
        BY <2>1, <1>2
    <2>3. github = tracking
        BY <2>2, <1>2, Antisymmetric DEF WellFormed
    <2> QED BY <2>1, <2>3
<1>6. TheirsOK'
    <2> SUFFICES ASSUME mergeHead # NoCommit
                 PROVE  /\ mergeHead \in G
                        /\ \A c \in L \cup G :
                              \/ mergeHead \in Reach(graph, c)
                              \/ Reach(graph, c) \cap G \subseteq Reach(graph, mergeHead)
        BY <1>1, <1>3 DEF TheirsOK, Known, Ancestors
    <2>1. mergeHead \in T
        BY <1>3 DEF Ordered, TheirsOK, Ancestors
    <2> SUFFICES ASSUME NEW c \in L \cup G
                 PROVE  \/ mergeHead \in Reach(graph, c)
                        \/ Reach(graph, c) \cap G \subseteq Reach(graph, mergeHead)
        BY <2>1, <1>2
    <2>2. /\ c \in L \cup T => \/ mergeHead \in Reach(graph, c)
                               \/ Reach(graph, c) \cap T \subseteq Reach(graph, mergeHead)
        BY <1>3 DEF Ordered, TheirsOK, Known, Ancestors
    <2>3. L \cap G \subseteq T /\ (c \in G \ T => tracking \in Reach(graph, c))
        BY <1>3 DEF Ordered, PullOK, Ancestors
    <2>4. CASE c \in L
        BY <1>2, <2>2, <2>3, <2>4
    <2>5. CASE c \in T
        BY <1>2, <2>2, <2>5
    <2>6. CASE c \in G \ T
        <3>1. T \subseteq Reach(graph, c)
            BY <1>2, <2>3, <2>6, GraphFacts DEF WellFormed
        <3> QED BY <2>1, <3>1
    <2> QED BY <2>4, <2>5, <2>6
<1>7. Own' = Own /\ Basis' = Basis
    <2>1. (Ancestors(local))' = Ancestors(local)
        BY <1>1 DEF Ancestors
    <2> QED BY <1>1, <1>3, <2>1, TheirsNow, TheirsThen DEF Own
<1>8. ShareOK' /\ AgreeOK'
    BY <1>1, <1>2, <1>7, ShareKept, AgreeForward
<1>9. WorkOK'
    <2>1. ~Is("checkout")
        BY <1>1, Modes
    <2> QED BY <1>1, <1>7, <2>1 DEF Ordered, WorkOK
<1> QED BY <1>4, <1>5, <1>6, <1>8, <1>9, LoneOrdered

\* When no merge is left, the branch is what the index and the directory go by.
LEMMA NoMerge ==
    ASSUME NEW p \in Processes, Lone(p), mergeHead' = NoCommit \/ at'[p] = "cleaning",
           at'[p] # "heading"
    PROVE  /\ TheirsOK' /\ Basis' = local'
           /\ (at'[p] # "applying" => PullOK')
<1>1. Theirs' = NoCommit /\ (at'[p] # "applying" => ~Pulling')
    BY TheirsThen
<1> QED BY <1>1, TheirsThen DEF TheirsOK, PullOK

\* A merge that is forgotten leaves its files as the user's own.
LEMMA ForgetMergeStep ==
    ASSUME WellFormed, Ordered, NEW p \in Processes, Lone(p), ForgetMerge(p)
    PROVE  Ordered'
<1>1. /\ at[p] = "forgetting"
      /\ UNCHANGED <<graph, local, tracking, index, work, github, skipped>>
    BY DEF ForgetMerge
<1>2. CASE mergeHead = NoCommit
    <2>1. at'[p] = "idle" /\ UNCHANGED <<mergeHead, touched>>
        BY <1>2, Moves DEF ForgetMerge
    <2> QED BY <1>1, <2>1, BetweenSteps, ApartStep DEF Between
<1>3. CASE mergeHead # NoCommit
    <2>1. /\ at'[p] = "fetching" /\ mergeHead' = NoCommit /\ touched' = touched \cup Staged(local)
        BY <1>3, Moves DEF ForgetMerge
    <2>2. PointOK(p)'
        BY <2>1 DEF PointOK, Pulls
    <2>3. Own \subseteq Own'
        BY <1>1, <2>1 DEF Own
    <2>4. ShareOK' /\ AgreeOK'
        BY <1>1, <2>3, BranchesKept
    <2>5. TheirsOK' /\ PullOK' /\ Basis' = local
        BY <1>1, <2>1, NoMerge
    <2>6. WorkOK'
        <3> SUFFICES ASSUME local # NoCommit, NEW f \in Files \ Own'
                     PROVE  work[f] = index[f] /\ index[f] = graph[local].tree[f]
            BY <1>1, <2>5 DEF WorkOK
        <3>1. work[f] = index[f]
            BY <1>1, <2>3, SameFiles
        <3> QED BY <2>1, <3>1 DEF Own, Staged
    <2> QED BY <2>2, <2>4, <2>5, <2>6, LoneOrdered
<1> QED BY <1>2, <1>3

\* A merge that is committed is over.
LEMMA EndMergeStep ==
    ASSUME WellFormed, Ordered, NEW p \in Processes, Lone(p), EndMerge(p)
    PROVE  Ordered'
<1>1. /\ at[p] = "cleaning" /\ at'[p] = "idle" /\ mergeHead' = NoCommit
      /\ UNCHANGED <<graph, local, tracking, index, work, github, touched, skipped>>
    BY Moves DEF EndMerge
<1>2. PointOK(p)'
    BY <1>1, BetweenSteps DEF Between
<1>3. Own' = Own
    BY <1>1 DEF Own
<1>4. ShareOK' /\ AgreeOK'
    BY <1>1, <1>3, BranchesKept
<1>5. TheirsOK' /\ PullOK' /\ Basis' = local
    BY <1>1, NoMerge
<1>6. Basis = local /\ ~Is("checkout")
    BY <1>1, TheirsNow, Modes
<1>7. WorkOK'
    BY <1>1, <1>3, <1>5, <1>6 DEF Ordered, WorkOK
<1> QED BY <1>2, <1>4, <1>5, <1>7, LoneOrdered

\* What the branch shares with GitHub is one commit's past, so that commit is the merge base.
LEMMA TheMergeBase ==
    ASSUME WellFormed, Ordered, local # NoCommit
    PROVE  \E x \in DOMAIN graph :
              /\ MergeBases(local, github) = {x}
              /\ Reach(graph, x) = Reach(graph, local) \cap Reach(graph, github)
<1>1. local \in Reach(graph, local) /\ \A c \in DOMAIN graph : c \in Reach(graph, c)
    BY RefFacts
<1>2. PICK x \in DOMAIN graph : Reach(graph, local) \cap Reach(graph, github) = Reach(graph, x)
    BY <1>1 DEF Ordered, ShareOK, Ancestors
<1>3. Reach(graph, x) \subseteq DOMAIN graph
    BY <1>2, GraphFacts DEF WellFormed
<1>4. MergeBases(local, github)
         = {m \in Reach(graph, x) : \A n \in Reach(graph, x) \ {m} : m \notin Reach(graph, n)}
    BY <1>2, Zenon DEF MergeBases, Ancestors
<1>5. x \in MergeBases(local, github)
    <2> SUFFICES ASSUME NEW n \in Reach(graph, x) \ {x}, x \in Reach(graph, n) PROVE FALSE
        BY <1>1, <1>4
    <2>1. n = x
        BY <1>3, Antisymmetric DEF WellFormed
    <2> QED BY <2>1
<1>6. ASSUME NEW m \in MergeBases(local, github) PROVE m = x
    BY <1>1, <1>4, <1>6
<1> QED BY <1>2, <1>5, <1>6

\* A pull fetches, and finds the merge base.
LEMMA PullFetchStep ==
    ASSUME WellFormed, Ordered, ~retracted, NEW p \in Processes, Lone(p), PullFetch(p)
    PROVE  Ordered'
<1>1. /\ at[p] = "fetching"
      /\ UNCHANGED <<graph, local, index, work, mergeHead, github, touched, skipped>>
    BY DEF PullFetch
<1>2. local # NoCommit /\ mergeHead = NoCommit
    BY <1>1 DEF WellFormed, JobsOK, JobOK, Ordered, PointsOK, PointOK
<1>3. CASE ~Usable
    <2>1. at'[p] = "idle" /\ tracking' = tracking
        BY <1>3, Moves DEF PullFetch
    <2> QED BY <1>1, <2>1, BetweenSteps, ApartStep DEF Between
<1>4. CASE Usable
    <2>1. tracking' = github
        BY <1>4 DEF PullFetch
    <2>2. /\ github \in DOMAIN graph /\ Reach(graph, tracking) \subseteq Reach(graph, github)
        BY RefFacts
    <2>3. Own' = Own
        BY <1>1 DEF Own
    <2>4. ShareOK' /\ AgreeOK'
        BY <1>1, <2>1, <2>2, <2>3, ShareKept, AgreeForward
    <2>5. at'[p] \in {"idle", "checking", "applying"}
        <3>1. Ended(p) \/ PullSucceeds(p) \/ \E new : Continues(p, "applying", new)
            BY <1>4, Zenon DEF PullFetch
        <3> QED BY <3>1, Moves
    <2>6. TheirsOK' /\ Basis' = local /\ (at'[p] # "applying" => PullOK')
        BY <1>1, <1>2, <2>5, NoMerge
    <2>7. WorkOK'
        <3>1. Basis = local
            BY <1>1, <1>2, TheirsNow
        <3>2. ~Is("checkout")
            BY <1>1, Modes
        <3> QED BY <1>1, <2>3, <2>6, <3>1, <3>2 DEF Ordered, WorkOK
    <2>8. CASE at'[p] \in Between
        BY <2>4, <2>6, <2>7, <2>8, BetweenSteps, LoneOrdered DEF Between
    <2>9. CASE at'[p] \notin Between
        <3>1. PICK base \in MergeBases(local, github) \cup {NoCommit} :
                 /\ ~UpToDate(github)
                 /\ base = NoCommit => MergeBases(local, github) = {}
                 /\ Continues(p, "applying", [job[p] EXCEPT !.local = local, !.base = base,
                                                            !.remote = github])
            <4>1. ~Ended(p) /\ ~PullSucceeds(p)
                BY <2>9, Moves DEF Between
            <4> QED BY <1>4, <4>1, Zenon DEF PullFetch
        <3>2. /\ base \in DOMAIN graph
              /\ Reach(graph, base) = Reach(graph, local) \cap Reach(graph, github)
            BY <1>2, <3>1, TheMergeBase
        <3>3. job[p] \in Job
            BY DEF WellFormed, ProcessOK
        <3>4. at'[p] = "applying" /\ job'[p].local = local /\ job'[p].base = base
              /\ job'[p].remote = github
            BY <3>1, <3>3, Moves DEF Job
        <3>5. github \notin Reach(graph, local)
            BY <3>1 DEF UpToDate, Ancestors
        <3>6. PointOK(p)'
            BY <1>1, <1>2, <2>1, <3>2, <3>4, <3>5 DEF PointOK, Pulls, Ancestors
        <3>7. PullOK'
            BY <1>1, <2>1, <3>5 DEF PullOK, Ancestors
        <3> QED BY <2>4, <2>6, <2>7, <3>6, <3>7, LoneOrdered
    <2> QED BY <2>8, <2>9
<1> QED BY <1>3, <1>4

\* GitHub takes the branch, which is not in a merge.
LEMMA SendStep ==
    ASSUME WellFormed, Ordered, ~retracted, NEW p \in Processes, Lone(p), Send(p)
    PROVE  Ordered'
<1>1. /\ at[p] = "sending"
      /\ UNCHANGED <<graph, local, tracking, index, work, mergeHead, touched, skipped>>
    BY DEF Send, repoVars
<1>2. CASE github' = github /\ Ended(p)
    <2>1. at'[p] = "idle"
        BY <1>2, Moves
    <2> QED BY <1>1, <1>2, <2>1, BetweenSteps, ApartStep DEF Between
<1>3. CASE ~(github' = github /\ Ended(p))
    <2>1. /\ github \in Reach(graph, local) /\ github' = local
          /\ Continues(p, "noting", job[p])
        BY <1>3 DEF Send, Ancestors
    <2>2. local # NoCommit /\ local # tracking /\ job[p].local = local
        BY <1>1 DEF WellFormed, JobsOK, JobOK, Ordered, PointsOK, PointOK
    <2>4. at'[p] = "noting" /\ job'[p].local = local
        BY <2>1, <2>2, Moves
    <2>5. /\ github \in DOMAIN graph /\ github \in Reach(graph, github)
          /\ tracking \in Reach(graph, tracking) /\ tracking \in DOMAIN graph
          /\ Reach(graph, tracking) \subseteq Reach(graph, github)
          /\ \A c \in Reach(graph, local) : Reach(graph, c) \subseteq Reach(graph, local)
          /\ Reach(graph, local) \subseteq DOMAIN graph
          /\ \A c \in DOMAIN graph : c \in Reach(graph, c)
        BY <2>2, RefFacts
    <2>6. tracking \in Reach(graph, local)
        BY <2>1, <2>5
    <2>7. mergeHead = NoCommit
        <3> SUFFICES ASSUME mergeHead # NoCommit PROVE FALSE
            OBVIOUS
        <3>1. Pulling
            BY <1>1, TheirsNow
        <3> QED BY <2>2, <2>6, <3>1 DEF Ordered, PullOK, Ancestors
    <2>8. PointOK(p)'
        BY <1>1, <2>4, <2>6, <2>7 DEF PointOK, Pulls, Ancestors
    <2>9. TheirsOK' /\ Basis' = local /\ PullOK'
        BY <1>1, <2>4, <2>7, NoMerge
    <2>10. Own' = Own /\ Known' = Known
        BY <1>1 DEF Own, Known, Ancestors
    <2>11. AgreeOK'
        BY <1>1, <2>10 DEF Ordered, AgreeOK, Ancestors
    <2>12. ShareOK'
        <3> SUFFICES ASSUME NEW c \in Reach(graph, local)
                     PROVE  \E x \in DOMAIN graph :
                               Reach(graph, c) \cap Reach(graph, local) = Reach(graph, x)
            BY <1>1, <2>1 DEF ShareOK, Ancestors
        <3> QED BY <2>5
    <2>13. WorkOK'
        <3>1. Basis = local
            BY <1>1, <2>7, TheirsNow
        <3>2. ~Is("checkout")
            BY <1>1, Modes
        <3> QED BY <1>1, <2>9, <2>10, <3>1, <3>2 DEF Ordered, WorkOK
    <2> QED BY <2>8, <2>9, <2>11, <2>12, <2>13, LoneOrdered
<1> QED BY <1>2, <1>3

\* The tracking branch becomes what GitHub took.
LEMMA NoteStep ==
    ASSUME WellFormed, Ordered, NEW p \in Processes, Lone(p), NotePush(p)
    PROVE  Ordered'
<1>1. /\ at[p] = "noting" /\ at'[p] = "idle" /\ tracking' = job[p].local
      /\ UNCHANGED <<graph, local, index, work, mergeHead, github, touched, skipped>>
    BY Moves DEF NotePush
<1>2. /\ local # NoCommit /\ mergeHead = NoCommit /\ job[p].local = local
      /\ tracking \in Reach(graph, local)
    BY <1>1 DEF WellFormed, JobsOK, JobOK, Ordered, PointsOK, PointOK, Ancestors
<1>3. local \in DOMAIN graph /\ Reach(graph, tracking) \subseteq Reach(graph, local)
    BY <1>2, RefFacts
<1>4. PointOK(p)'
    BY <1>1, BetweenSteps DEF Between
<1>5. Own' = Own
    BY <1>1 DEF Own
<1>6. ShareOK' /\ AgreeOK'
    BY <1>1, <1>2, <1>3, <1>5, ShareKept, AgreeForward
<1>7. TheirsOK' /\ PullOK' /\ Basis' = local
    BY <1>1, <1>2, NoMerge
<1>8. WorkOK'
    <2>1. Basis = local
        BY <1>1, <1>2, TheirsNow
    <2>2. ~Is("checkout")
        BY <1>1, Modes
    <2> QED BY <1>1, <1>5, <1>7, <2>1, <2>2 DEF Ordered, WorkOK
<1> QED BY <1>4, <1>6, <1>7, <1>8, LoneOrdered
\* The commit has the pasts of its parents, and the content of what the directory goes by.
LEMMA CommitStep ==
    ASSUME WellFormed, Ordered, ~retracted, NEW p \in Processes, Lone(p), Commits(p)
    PROVE  Ordered'
<1> DEFINE n == Len(graph) + 1
           L == Reach(graph, local)
           M == Reach(graph, mergeHead)
           T == Reach(graph, tracking)
           G == Reach(graph, github)
<1>1. /\ at[p] = "committing" /\ at'[p] = "cleaning" /\ local' = n
      /\ UNCHANGED <<tracking, index, work, mergeHead, github, touched, skipped>>
    BY Moves DEF Commits
<1>16. local # NoCommit
    BY <1>1 DEF WellFormed, JobsOK, JobOK
<1>2. /\ graph'[n].tree = index /\ \A c \in DOMAIN graph : graph'[c] = graph[c]
      /\ \A c \in 0..Len(graph) : Reach(graph', c) = Reach(graph, c)
      /\ Reach(graph', n) = {n} \cup L \cup M
      /\ DOMAIN graph' = DOMAIN graph \cup {n}
    BY NewCommits
<1>3. /\ T \subseteq G /\ L \subseteq DOMAIN graph /\ G \subseteq DOMAIN graph
      /\ local \in DOMAIN graph /\ local \in L /\ tracking \in DOMAIN graph
      /\ github \in DOMAIN graph
      /\ mergeHead # NoCommit => mergeHead \in DOMAIN graph /\ mergeHead \in G
      /\ \A c \in L : Reach(graph, c) \subseteq L
      /\ \A c \in T : Reach(graph, c) \subseteq T
      /\ \A c \in G : Reach(graph, c) \subseteq G
      /\ \A c \in DOMAIN graph : c \in Reach(graph, c)
      /\ Reach(graph, NoCommit) = {}
    BY <1>16, RefFacts
<1>4. n \notin DOMAIN graph /\ DOMAIN graph \subseteq 0..Len(graph)
    BY GraphFacts DEF WellFormed
<1>5. \A c \in DOMAIN graph : Reach(graph, c) \subseteq DOMAIN graph
    BY <1>4, GraphFacts DEF WellFormed
<1> HIDE DEF n
<1>6. Theirs = mergeHead /\ (mergeHead # NoCommit => Pulling)
    BY <1>1, TheirsNow
<1>7. mergeHead # NoCommit =>
         /\ mergeHead \in T
         /\ mergeHead \in L \/ L \cap T \subseteq M
         /\ L \cap G \subseteq T
    BY <1>3, <1>6 DEF Ordered, TheirsOK, PullOK, Known, Ancestors
<1>8. M \subseteq T
    BY <1>3, <1>7
<1>9. /\ Reach(graph', tracking) = T /\ Reach(graph', github) = G
    BY <1>2, <1>3, <1>4
<1>10. PointOK(p)'
    BY <1>1 DEF PointOK, Pulls
<1>11. TheirsOK' /\ PullOK' /\ Basis' = n
    BY <1>1, NoMerge
<1>12. WorkOK'
    <2>1. \A f \in Files \ Own : work[f] = index[f]
        BY <1>1, <1>16, SameFiles
    <2> QED BY <1>1, <1>2, <1>11, <2>1 DEF WorkOK, Own
<1>13. ShareOK'
    <2> SUFFICES ASSUME NEW c \in {n} \cup L \cup M
                 PROVE  \E x \in DOMAIN graph : Reach(graph', c) \cap G = Reach(graph', x)
        BY <1>1, <1>2, <1>9 DEF ShareOK, Ancestors
    <2>1. \A x \in DOMAIN graph : Reach(graph', x) = Reach(graph, x)
        BY <1>2, <1>4
    <2>2. \A b \in L : \E x \in DOMAIN graph : Reach(graph, b) \cap G = Reach(graph, x)
        BY DEF Ordered, ShareOK, Ancestors
    <2>3. CASE c \in L
        BY <1>3, <2>1, <2>2, <2>3
    <2>4. CASE c \in M
        <3>1. c \in G
            BY <1>3, <1>8, <2>4
        <3>2. c \in DOMAIN graph /\ Reach(graph, c) \subseteq G
            BY <1>3, <3>1
        <3> QED BY <2>1, <3>2
    <2>5. CASE c = n
        <3>1. Reach(graph', c) \cap G = (L \cup M) \cap G
            BY <1>2, <1>3, <1>4, <2>5
        <3>2. CASE M \subseteq L
            BY <1>3, <2>1, <2>2, <3>1, <3>2
        <3>3. CASE ~(M \subseteq L)
            <4>1. mergeHead # NoCommit
                BY <1>3, <3>3
            <4>2. mergeHead \notin L
                BY <1>3, <3>3
            <4>3. (L \cup M) \cap G = M
                BY <1>3, <1>7, <1>8, <4>1, <4>2
            <4> QED BY <1>3, <2>1, <3>1, <4>1, <4>3
        <3> QED BY <3>2, <3>3
    <2> QED BY <2>3, <2>4, <2>5
<1>14. /\ Basis \in Known /\ Basis \in DOMAIN graph
       /\ Reach(graph, Basis) \cap T = (L \cup M) \cap T
    <2>1. CASE mergeHead = NoCommit
        <3>1. Basis = local
            BY <1>1, <1>6, <2>1, TheirsNow
        <3> QED BY <1>3, <2>1, <3>1 DEF Known, Ancestors
    <2>2. CASE mergeHead # NoCommit /\ mergeHead \in L
        <3>1. Basis = local
            BY <1>1, <1>6, <2>2, TheirsNow DEF Ancestors
        <3>2. M \subseteq L
            BY <1>3, <2>2
        <3> QED BY <1>3, <3>1, <3>2 DEF Known, Ancestors
    <2>3. CASE mergeHead # NoCommit /\ mergeHead \notin L
        <3>1. Basis = mergeHead
            BY <1>1, <1>6, <2>3, TheirsNow DEF Ancestors
        <3> QED BY <1>3, <1>7, <1>8, <2>3, <3>1 DEF Known, Ancestors
    <2> QED BY <2>1, <2>2, <2>3
<1>15. AgreeOK'
    <2>1. Known' \subseteq {n} \cup Known /\ Known \subseteq DOMAIN graph /\ Own' = Own
        BY <1>1, <1>2, <1>3, <1>8, <1>9 DEF Known, Own, Ancestors
    <2>2. Reach(graph', n) \cap T = Reach(graph, Basis) \cap T
        BY <1>2, <1>3, <1>4, <1>14
    <2>3. \A f \in Files \ Own : graph'[n].tree[f] = graph[Basis].tree[f]
        <3>1. ~Is("checkout")
            BY <1>1, Modes
        <3> QED BY <1>1, <1>2, <1>16, <3>1 DEF Ordered, WorkOK
    <2>4. \A a, b \in Known : Reach(graph, a) \cap T = Reach(graph, b) \cap T =>
              \A f \in Files \ Own : graph[a].tree[f] = graph[b].tree[f]
        BY DEF Ordered, AgreeOK, Ancestors
    <2>5. \A a \in Known : Reach(graph', a) = Reach(graph, a) /\ graph'[a] = graph[a]
        BY <1>2, <1>4, <2>1
    <2>6. SUFFICES ASSUME NEW a \in {n} \cup Known, NEW b \in {n} \cup Known,
                          Reach(graph', a) \cap T = Reach(graph', b) \cap T,
                          NEW f \in Files \ Own
                   PROVE  graph'[a].tree[f] = graph'[b].tree[f]
        BY <1>1, <1>9, <2>1 DEF AgreeOK, Ancestors
    <2>7. PICK u \in Known : /\ Reach(graph', a) \cap T = Reach(graph, u) \cap T
                             /\ graph'[a].tree[f] = graph[u].tree[f]
        BY <1>14, <2>2, <2>3, <2>5, <2>6
    <2>8. PICK v \in Known : /\ Reach(graph', b) \cap T = Reach(graph, v) \cap T
                             /\ graph'[b].tree[f] = graph[v].tree[f]
        BY <1>14, <2>2, <2>3, <2>5, <2>6
    <2> QED BY <2>4, <2>6, <2>7, <2>8
<1> QED BY <1>10, <1>11, <1>12, <1>13, <1>15, LoneOrdered

\* A commit that raises leaves what is staged, which is what the directory has.
LEMMA CommitSteps ==
    ASSUME WellFormed, Ordered, ~retracted, NEW p \in Processes, Lone(p), CommitStaged(p)
    PROVE  Ordered'
<1>1. CASE Commits(p)
    BY <1>1, CommitStep
<1>2. CASE ~Commits(p)
    <2>1. /\ at[p] = "committing" /\ at'[p] = "idle"
          /\ UNCHANGED <<graph, local, tracking, index, work, mergeHead, github, touched, skipped>>
        BY <1>2, CommitKinds, Moves
    <2> QED BY <2>1, BetweenSteps, ApartStep DEF Between
<1> QED BY <1>1, <1>2

\* The branch goes back to a commit that it or GitHub's has.
LEMMA DiscardStep ==
    ASSUME WellFormed, Ordered, ~retracted, NEW p \in Processes, Lone(p), local # NoCommit,
           at[p] = "idle", at'[p] = "idle", NEW head \in Known, ResetTo(head),
           UNCHANGED <<graph, tracking, mergeHead, github, touched>>
    PROVE  Ordered'
<1> DEFINE L == Reach(graph, local)
           T == Reach(graph, tracking)
           G == Reach(graph, github)
           H == Reach(graph, head)
<1>1. /\ local' = head /\ index' = graph[head].tree /\ work' = Written(graph[head].tree)
      /\ skipped' = skipped \cup LeftOver(graph[head].tree) \cup
                      (IF mergeHead = NoCommit THEN {} ELSE Differing(head, mergeHead))
    BY DEF ResetTo
<1>2. /\ T \subseteq G /\ L \subseteq DOMAIN graph /\ T \subseteq DOMAIN graph
      /\ local \in L /\ tracking \in DOMAIN graph /\ tracking \in T
      /\ \A c \in L : Reach(graph, c) \subseteq L
      /\ \A c \in T : Reach(graph, c) \subseteq T
      /\ \A c \in DOMAIN graph : c \in Reach(graph, c)
    BY RefFacts
<1>3. head \in L \/ head \in T
    BY DEF Known, Ancestors
<1>4. head \in DOMAIN graph /\ (H \subseteq L \/ H \subseteq T)
    BY <1>2, <1>3
<1>5. PointOK(p)'
    BY <1>1, BetweenSteps DEF Between
<1>6. /\ Theirs = mergeHead /\ Theirs' = mergeHead
      /\ Pulling <=> mergeHead # NoCommit
      /\ Pulling' <=> mergeHead # NoCommit
    BY TheirsNow, TheirsThen
<1>7. Known' \subseteq Known /\ Own \subseteq Own'
    <2>1. Known' = H \cup T /\ Known = L \cup T
        BY <1>1 DEF Known, Ancestors
    <2> QED BY <1>1, <1>4, <2>1 DEF Own
<1>8. PullOK'
    <2> SUFFICES ASSUME mergeHead # NoCommit
                 PROVE  /\ H \cap G \subseteq T
                        /\ tracking \in H => head = tracking
                        /\ \A c \in G \ T : tracking \in Reach(graph, c)
        BY <1>1, <1>6 DEF PullOK, Ancestors
    <2>1. /\ L \cap G \subseteq T
          /\ tracking \in L => local = tracking
          /\ \A c \in G \ T : tracking \in Reach(graph, c)
        BY <1>6 DEF Ordered, PullOK, Ancestors
    <2>2. H \cap G \subseteq T
        BY <1>4, <2>1
    <2>3. ASSUME tracking \in H PROVE head = tracking
        <3>1. head \in T
            BY <1>2, <1>3, <2>1, <2>3
        <3> QED BY <1>2, <1>4, <2>3, <3>1, Antisymmetric DEF WellFormed
    <2> QED BY <2>1, <2>2, <2>3
<1>9. TheirsOK'
    BY <1>6, <1>7 DEF Ordered, TheirsOK, Ancestors
<1>10. ShareOK'
    <2> SUFFICES ASSUME NEW c \in H
                 PROVE  \E x \in DOMAIN graph : Reach(graph, c) \cap G = Reach(graph, x)
        BY <1>1 DEF ShareOK, Ancestors
    <2>1. CASE c \in L
        BY <2>1 DEF Ordered, ShareOK, Ancestors
    <2>2. CASE c \in T
        <3>1. c \in DOMAIN graph /\ Reach(graph, c) \subseteq G
            BY <1>2, <2>2
        <3> QED BY <3>1
    <2> QED BY <1>4, <2>1, <2>2
<1>11. AgreeOK'
    BY <1>7 DEF Ordered, AgreeOK, Ancestors
<1>12. WorkOK'
    <2> SUFFICES ASSUME NEW f \in Files \ Own'
                 PROVE  /\ work'[f] = index'[f] /\ index'[f] = graph[head].tree[f]
                        /\ mergeHead # NoCommit => graph[head].tree[f] = graph[mergeHead].tree[f]
        BY <1>1, <1>6, TheirsThen DEF WorkOK
    <2>1. /\ f \notin LeftOver(graph[head].tree)
          /\ mergeHead # NoCommit => f \notin Differing(head, mergeHead)
        BY <1>1 DEF Own
    <2> QED BY <1>1, <2>1 DEF Written, LeftOver, Differing
<1> QED BY <1>5, <1>8, <1>9, <1>10, <1>11, <1>12, LoneOrdered

\* Both discards go back to a commit of the branch or of GitHub's.
LEMMA DiscardSteps ==
    ASSUME WellFormed, Ordered, ~retracted, NEW p \in Processes, Lone(p),
           DiscardUnpushed(p) \/ (\E c \in DOMAIN graph : DiscardCommit(p, c))
    PROVE  Ordered'
<1>1. CASE DiscardUnpushed(p)
    <2>1. /\ at[p] = "idle" /\ at'[p] = "idle" /\ local # NoCommit /\ ResetTo(tracking)
          /\ UNCHANGED <<graph, tracking, mergeHead, github, touched>>
        BY <1>1, Moves, Zenon DEF DiscardUnpushed, IsGitRepo
    <2>2. tracking \in Known
        BY <2>1, RefFacts DEF Known, Ancestors
    <2> QED BY <2>1, <2>2, DiscardStep
<1>2. ASSUME NEW c \in DOMAIN graph, DiscardCommit(p, c) PROVE Ordered'
    <2>1. /\ at[p] = "idle" /\ at'[p] = "idle" /\ local # NoCommit
          /\ c \in Known /\ graph[c].parents # <<>> /\ ResetTo(Head(graph[c].parents))
          /\ UNCHANGED <<graph, tracking, mergeHead, github, touched>>
        BY <1>2, Moves, Zenon DEF DiscardCommit, IsGitRepo, Known
    <2>2. Head(graph[c].parents) \in Reach(graph, c)
        BY <2>1, FirstParent DEF WellFormed
    <2>3. \/ Reach(graph, c) \subseteq Reach(graph, local)
          \/ Reach(graph, c) \subseteq Reach(graph, tracking)
        BY <2>1, RefFacts DEF Known, Ancestors
    <2>4. Head(graph[c].parents) \in Known
        BY <2>2, <2>3 DEF Known, Ancestors
    <2> QED BY <2>1, <2>4, DiscardStep
<1> QED BY <1>1, <1>2
\* The user's own changes are not looked at.
LEMMA EditStep ==
    ASSUME WellFormed, Ordered, NEW f \in Files, NEW line \in Lines \cup {Absent},
           SaveFile(f, line)
    PROVE  Ordered'
<1>1. /\ UNCHANGED <<graph, local, tracking, index, mergeHead, github, at, job, skipped>>
      /\ work' = [work EXCEPT ![f] = line] /\ touched' = touched \cup {f}
    BY Zenon DEF SaveFile, processVars
<1>2. Own' = Own \cup {f} /\ Theirs' = Theirs /\ Known' = Known /\ Basis' = Basis
      /\ (Pulling' <=> Pulling) /\ ((Is("checkout"))' <=> Is("checkout"))
    BY <1>1 DEF Own, Theirs, Merged, Known, Basis, Pulling, Is, Ancestors
<1>3. PullOK' /\ ShareOK'
    BY <1>1, <1>2 DEF Ordered, PullOK, ShareOK, Ancestors
<1>4. TheirsOK'
    BY <1>1, <1>2 DEF Ordered, TheirsOK, Ancestors
<1>5. AgreeOK'
    BY <1>1, <1>2 DEF Ordered, AgreeOK, Ancestors
<1>6. PointsOK'
    BY <1>1 DEF Ordered, PointsOK, PointOK, MergeConflicts, Merge, MergedTree, Ancestors
<1>7. WorkOK'
    <2>1. \A g \in Files \ Own' : work'[g] = work[g]
        BY <1>1, <1>2 DEF WellFormed, FilesOK, Tree
    <2> QED BY <1>1, <1>2, <2>1 DEF Ordered, WorkOK
<1> QED BY <1>3, <1>4, <1>5, <1>6, <1>7 DEF Ordered

\* GitHub's branch grows by a commit that is not here.
LEMMA UpstreamStep ==
    ASSUME WellFormed, Ordered, ~retracted, NEW tree \in Trees, UpstreamCommit(tree)
    PROVE  Ordered'
<1> DEFINE n == Len(graph) + 1
           L == Reach(graph, local)
           T == Reach(graph, tracking)
           G == Reach(graph, github)
<1>1. /\ github' = n
      /\ UNCHANGED <<local, tracking, index, work, mergeHead, at, job, touched, skipped>>
    BY Zenon DEF UpstreamCommit, processVars
<1>2. /\ \A c \in DOMAIN graph : graph'[c] = graph[c]
      /\ \A c \in 0..Len(graph) : Reach(graph', c) = Reach(graph, c)
      /\ Reach(graph', n) = {n} \cup G
      /\ DOMAIN graph' = DOMAIN graph \cup {n}
    BY UpstreamCommits
<1>3. /\ T \subseteq G /\ L \subseteq DOMAIN graph /\ G \subseteq DOMAIN graph
      /\ T \subseteq DOMAIN graph
      /\ local \in {NoCommit} \cup DOMAIN graph /\ tracking \in {NoCommit} \cup DOMAIN graph
      /\ mergeHead \in {NoCommit} \cup DOMAIN graph
    BY RefFacts
<1>4. /\ n \notin DOMAIN graph /\ DOMAIN graph \subseteq 0..Len(graph)
      /\ NoCommit \in 0..Len(graph)
      /\ \A c \in DOMAIN graph : Reach(graph, c) \subseteq DOMAIN graph
    <2>1. GraphOK
        BY DEF WellFormed
    <2> QED BY <2>1, GraphFacts DEF NoCommit
<1> HIDE DEF n
<1>5. /\ Reach(graph', local) = L /\ Reach(graph', tracking) = T
      /\ \A c \in DOMAIN graph : Reach(graph', c) = Reach(graph, c)
    BY <1>2, <1>3, <1>4
<1>6. /\ Own' = Own /\ Theirs' = Theirs /\ Known' = Known /\ Known \subseteq DOMAIN graph
      /\ (Pulling' <=> Pulling) /\ \A s : (Is(s))' <=> Is(s)
    BY <1>1, <1>3, <1>5 DEF Own, Theirs, Merged, Known, Pulling, Is, Ancestors
<1>7. Theirs \in {NoCommit} \cup DOMAIN graph
    BY <1>3 DEF Theirs, Merged
<1>9. PullOK'
    <2> SUFFICES ASSUME Pulling
                 PROVE  /\ L \cap ({n} \cup G) \subseteq T
                        /\ tracking \in L => local = tracking
                        /\ \A c \in ({n} \cup G) \ T : tracking \in Reach(graph', c)
        BY <1>1, <1>2, <1>5, <1>6 DEF PullOK, Ancestors
    <2>1. /\ L \cap G \subseteq T
          /\ tracking \in L => local = tracking
          /\ \A c \in G \ T : tracking \in Reach(graph, c)
        BY DEF Ordered, PullOK, Ancestors
    <2>2. tracking \in T
        <3>1. local # NoCommit
            BY DEF Pulling, Merged, WellFormed, HeadsOK, JobsOK, JobOK, Is
        <3> QED BY <3>1, RefFacts
    <2>3. \A c \in ({n} \cup G) \ T : tracking \in Reach(graph', c)
        BY <1>2, <1>3, <1>5, <2>1, <2>2
    <2> QED BY <1>3, <1>4, <2>1, <2>3
<1>10. TheirsOK'
    <2>1. \A c \in Known : Reach(graph', c) = Reach(graph, c)
        BY <1>5, <1>6
    <2>2. Theirs # NoCommit => Reach(graph', Theirs) = Reach(graph, Theirs)
        BY <1>5, <1>7
    <2> QED BY <1>1, <1>5, <1>6, <2>1, <2>2 DEF Ordered, TheirsOK, Ancestors
<1>11. ShareOK'
    <2> SUFFICES ASSUME NEW c \in L
                 PROVE  \E x \in DOMAIN graph : Reach(graph', c) \cap ({n} \cup G) = Reach(graph', x)
        BY <1>1, <1>2, <1>5 DEF ShareOK, Ancestors
    <2>1. PICK x \in DOMAIN graph : Reach(graph, c) \cap G = Reach(graph, x)
        BY DEF Ordered, ShareOK, Ancestors
    <2>2. Reach(graph', c) = Reach(graph, c) /\ Reach(graph, c) \subseteq DOMAIN graph
        BY <1>3, <1>4, <1>5
    <2> QED BY <1>4, <1>5, <2>1, <2>2
<1>12. AgreeOK'
    <2>1. \A c \in Known : Reach(graph', c) = Reach(graph, c) /\ graph'[c] = graph[c]
        BY <1>2, <1>5, <1>6
    <2> QED BY <1>1, <1>5, <1>6, <2>1 DEF Ordered, AgreeOK, Ancestors
<1>13. WorkOK'
    <2>1. local # NoCommit => Basis' = Basis /\ Basis \in DOMAIN graph
        BY <1>1, <1>3, <1>5, <1>6, <1>7 DEF Basis, Ancestors
    <2> QED BY <1>1, <1>2, <1>6, <2>1 DEF Ordered, WorkOK
<1>14. ASSUME NEW p \in Processes PROVE PointOK(p)'
    <2>1. PointOK(p)
        BY DEF Ordered, PointsOK
    <2>2. ASSUME at[p] \in {"applying", "recording", "marking"}
          PROVE  /\ Reach(graph', job[p].base) = Reach(graph, job[p].base)
                 /\ job[p].base \in DOMAIN graph'
        BY <1>2, <1>5, <2>1, <2>2 DEF PointOK
    <2>3. ASSUME at[p] = "marking" PROVE MergeConflicts(p)' = MergeConflicts(p)
        <3>1. /\ job[p].local \in DOMAIN graph /\ job[p].remote \in Reach(graph, github)
              /\ job[p].base \in DOMAIN graph
            BY <2>1, <2>3 DEF WellFormed, JobsOK, JobOK, PointOK, Pulls, Ancestors
        <3>2. /\ graph'[job[p].local] = graph[job[p].local] /\ graph'[job[p].base] = graph[job[p].base]
              /\ graph'[job[p].remote] = graph[job[p].remote]
            BY <1>2, <1>3, <3>1
        <3> QED BY <1>1, <3>2 DEF MergeConflicts, Merge, MergedTree
    <2> QED BY <1>1, <1>5, <2>1, <2>2, <2>3 DEF PointOK, Pulls, Ancestors
<1> QED BY <1>9, <1>10, <1>11, <1>12, <1>13, <1>14 DEF Ordered, PointsOK

\* A push that no other request meets sends the commit that it has read.
LEMMA SendsWhatItRead ==
    ASSUME WellFormed, Ordered, ~retracted, NEW p \in Processes, Step(p)
    PROVE  ~retracted'
<1>1. CASE Meets(p)
    BY <1>1, Zenon DEF Meets
<1>2. CASE UNCHANGED pathVars
    BY <1>2 DEF pathVars
<1>3. CASE Crash(p)
    BY <1>3, Zenon DEF Crash
<1>4. CASE Send(p)
    <2>1. at[p] = "sending"
        BY <1>4 DEF Send
    <2>2. job[p].local = local /\ local \in Ancestors(local)
        BY <2>1, RefFacts DEF WellFormed, JobsOK, JobOK, Ordered, PointsOK, PointOK, Ancestors
    <2>3. retracted' = retracted \/ retracted' = (retracted \/ job[p].local \notin Ancestors(local))
        BY <1>4, Zenon DEF Send
    <2> QED BY <2>2, <2>3
<1> QED BY <1>1, <1>2, <1>3, <1>4, PathKinds

\* Every step keeps what is here in line with GitHub.
LEMMA StepOrdered ==
    ASSUME WellFormed, CalmInv, OrderInv, GitNext
    PROVE  OrderInv'
<1> SUFFICES ASSUME ~overlapped', ~broken' PROVE ~retracted' /\ Ordered'
    BY DEF OrderInv, disturbed
<1>1. ~retracted /\ Ordered
    BY Histories DEF OrderInv, disturbed
<1>2. ASSUME NEW p \in Processes, Step(p) PROVE ~retracted' /\ Ordered'
    <2>1. Lone(p)
        BY <1>2, Actor
    <2>7. ~retracted'
        BY <1>1, <1>2, SendsWhatItRead
    <2>2. CASE StaysApart(p)
        BY <1>1, <2>1, <2>7, <2>2, ApartSteps
    <2>3. CASE InitializeRepo(p) \/ Fetch(p) \/ ForgetMerge(p) \/ PullFetch(p)
        BY <1>1, <2>1, <2>7, <2>3, InitializeStep, FetchStep, ForgetMergeStep, PullFetchStep
    <2>4. CASE FastForward(p) \/ Checkout(p) \/ AnnounceConflicts(p) \/ RecordConflicts(p)
                 \/ StageMerge(p) \/ WriteMergeHead(p)
        BY <1>1, <2>1, <2>7, <2>4, FastForwardStep, CheckoutStep, AnnounceStep, RecordStep, StageStep, HeadStep
    <2>5. CASE Send(p) \/ NotePush(p) \/ CommitStaged(p) \/ EndMerge(p)
        BY <1>1, <2>1, <2>7, <2>5, SendStep, NoteStep, CommitSteps, EndMergeStep
    <2>6. CASE DiscardUnpushed(p) \/ (\E c \in DOMAIN graph : DiscardCommit(p, c))
        BY <1>1, <2>1, <2>7, <2>6, DiscardSteps
    <2> QED BY <1>2, <2>2, <2>3, <2>4, <2>5, <2>6, Zenon DEF Step, StaysApart
<1>3. ASSUME NEW f \in Files, NEW line \in Lines \cup {Absent}, SaveFile(f, line)
      PROVE  ~retracted' /\ Ordered'
    <2>1. retracted' = retracted
        BY <1>3 DEF SaveFile, pathVars
    <2> QED BY <1>1, <1>3, <2>1, EditStep
<1>4. ASSUME NEW tree \in Trees, UpstreamCommit(tree) PROVE ~retracted' /\ Ordered'
    <2>1. retracted' = retracted
        BY <1>4 DEF UpstreamCommit, pathVars
    <2> QED BY <1>1, <1>4, <2>1, UpstreamStep
<1> QED BY <1>2, <1>3, <1>4 DEF GitNext

LEMMA InitOrdered ==
    ASSUME GitInit
    PROVE  OrderInv
<1>1. WellFormed
    BY InitWellFormed
<1>2. /\ local = NoCommit /\ tracking = NoCommit /\ mergeHead = NoCommit /\ ~retracted
      /\ \A p \in Processes : at[p] = "idle"
    BY DEF GitInit
<1>3. Reach(graph, NoCommit) = {}
    BY <1>1, RefFacts
<1>4. PointsOK
    BY <1>2 DEF PointsOK, PointOK, Pulls
<1>5. Theirs = NoCommit /\ ~Pulling
    BY <1>2 DEF Theirs, Merged, Pulling, Is
<1>6. PullOK /\ TheirsOK /\ ShareOK /\ AgreeOK /\ WorkOK
    BY <1>2, <1>3, <1>5 DEF PullOK, TheirsOK, ShareOK, AgreeOK, WorkOK, Known, Ancestors
<1> QED BY <1>2, <1>4, <1>6 DEF OrderInv, Ordered

\* Requests that neither overlap nor break off half way keep what is here in line with GitHub.
THEOREM GitOrdered == GitSpec => []OrderInv
<1>1. WellFormed /\ CalmInv /\ OrderInv /\ [GitNext]_gitVars => OrderInv'
    <2>1. ASSUME OrderInv, UNCHANGED gitVars PROVE OrderInv'
        BY <2>1 DEF OrderInv, disturbed, Ordered, PointsOK, PointOK, PullOK, Pulling, TheirsOK,
            Theirs, Merged, ShareOK, AgreeOK, WorkOK, Basis, Known, Own, Is, Ancestors,
            MergeConflicts, Merge, MergedTree, gitVars, repoVars, processVars, pathVars
    <2> QED BY <2>1, StepOrdered
<1> QED BY <1>1, InitOrdered, GitWellFormed, GitCalm, PTL DEF GitSpec

\* A branch that is not behind has all that the tracking branch has.
LEMMA NothingBehind ==
    ASSUME WellFormed, Cardinality(Behind) = 0
    PROVE  Reach(graph, tracking) \subseteq Reach(graph, local)
<1>1. Reach(graph, tracking) \subseteq 1..Len(graph) /\ Len(graph) \in Nat
    BY RefFacts, GraphFacts DEF WellFormed
<1>2. Behind \subseteq 1..Len(graph)
    BY <1>1 DEF Behind, Ancestors
<1>3. IsFiniteSet(1..Len(graph))
    BY <1>1, FS_Interval
<1>4. IsFiniteSet(Behind)
    BY <1>2, <1>3, FS_Subset
<1>5. Behind = {}
    BY <1>4, FS_EmptySet
<1> QED BY <1>5 DEF Behind, Ancestors

\* When nothing is behind and no request met another, a file that the status does not list has
\* GitHub's content, except where the user saved it, was asked to merge it or a pull left it out.
THEOREM FollowsUpstreamAlways == GitSpec => []FollowsUpstream
<1>1. ASSUME WellFormed, OrderInv PROVE FollowsUpstream
    <2> SUFFICES ASSUME ~disturbed, Status.configured, Status.behind = 0
                 PROVE  /\ Differing(local, tracking) \subseteq Own
                        /\ \A f \in Files \ (Own \cup Status.changed \cup Status.conflicts) :
                              work[f] = graph[tracking].tree[f]
        BY Zenon DEF FollowsUpstream, Own
    <2>1. local # NoCommit /\ Cardinality(Behind) = 0
        BY DEF Status, IsGitRepo
    <2>2. Status.changed = ChangedFiles /\ Status.conflicts = Conflicts
        BY DEF Status
    <2>3. Reach(graph, tracking) \subseteq Reach(graph, local)
        BY <1>1, <2>1, NothingBehind
    <2>4. local \in Known /\ tracking \in Known
        BY <1>1, <2>1, RefFacts DEF Known, Ancestors
    <2>5. \A f \in Files \ Own : graph[local].tree[f] = graph[tracking].tree[f]
        <3>1. AgreeOK
            BY <1>1 DEF OrderInv, Ordered
        <3> QED BY <2>3, <2>4, <3>1 DEF AgreeOK, Ancestors
    <2>6. ASSUME NEW f \in Files \ (Own \cup ChangedFiles \cup Conflicts)
          PROVE  work[f] = graph[tracking].tree[f]
        <3>1. f \notin Staged(local) /\ f \notin Unstaged /\ f \notin Untracked
            BY DEF ChangedFiles
        <3>2. index[f] = graph[local].tree[f] /\ work[f] = index[f]
            BY <3>1 DEF Staged, Unstaged, Untracked
        <3> QED BY <2>5, <3>2
    <2> QED BY <2>2, <2>5, <2>6 DEF Differing
<1> QED BY <1>1, GitWellFormed, GitOrdered, PTL

\* A commit leaves the branch by a discard or a new configuration only.
Leaves == \E p \in Processes : \/ DiscardUnpushed(p) \/ InitializeRepo(p)
                               \/ \E c \in DOMAIN graph : DiscardCommit(p, c)

\* While requests do not overlap, a step that drops a commit is a discard or a new configuration.
LEMMA CommitStays ==
    ASSUME WellFormed, CalmInv, GitNext, local # NoCommit, ~overlapped', ~Leaves
    PROVE  local \in Reach(graph', local')
<1>1. /\ local \in DOMAIN graph /\ local \in Reach(graph, local)
      /\ local \in 0..Len(graph)
    BY RefFacts, GraphFacts DEF WellFormed
<1>2. Reach(graph', local) = Reach(graph, local)
    BY <1>1, StepForward DEF Forward
<1>3. CASE local' = local
    BY <1>1, <1>2, <1>3
<1>4. ASSUME NEW p \in Processes, FastForward(p) PROVE local \in Reach(graph', local')
    <2>1. /\ at[p] = "applying" /\ job[p].base = job[p].local /\ local' = job[p].remote
          /\ graph' = graph
        BY <1>4 DEF FastForward
    <2>2. Calm
        BY <1>4, Actor DEF Step
    <2>3. job[p].local = local
        BY <2>1, <2>2 DEF Calm, StandsOK
    <2>4. job[p].base \in {NoCommit} \cup Reach(graph, job[p].remote)
        BY <2>1 DEF WellFormed, JobsOK, JobOK, Pulls, Ancestors
    <2> QED BY <2>1, <2>3, <2>4
<1>5. ASSUME NEW p \in Processes, Commits(p) PROVE local \in Reach(graph', local')
    <2>1. local' = Len(graph) + 1
        BY <1>5 DEF Commits
    <2>2. Reach(graph', Len(graph) + 1) =
             {Len(graph) + 1} \cup Reach(graph, local) \cup Reach(graph, mergeHead)
        BY <1>5, NewCommits
    <2> QED BY <1>1, <2>1, <2>2
<1>6. ASSUME NEW p \in Processes, Step(p), ~FastForward(p), ~Commits(p) PROVE local' = local
    <2>1. CASE KeepsRefs(p)
        BY <2>1, KeptRefs
    <2>2. CASE Fetch(p) \/ ForgetMerge(p) \/ PullFetch(p) \/ AnnounceConflicts(p)
                  \/ WriteMergeHead(p) \/ Send(p) \/ NotePush(p) \/ EndMerge(p)
        BY <2>2 DEF Fetch, ForgetMerge, PullFetch, AnnounceConflicts, WriteMergeHead, Send, NotePush,
                    EndMerge, repoVars
    <2>3. CASE CommitStaged(p)
        BY <1>6, <2>3, CommitKinds
    <2> QED BY <1>6, <2>1, <2>2, <2>3, StepKinds, Zenon DEF MovesRefs, Leaves
<1>7. (\A p \in Processes : ~Step(p)) => local' = local
    BY DEF GitNext, SaveFile, UpstreamCommit
<1> QED BY <1>3, <1>4, <1>5, <1>6, <1>7

\* While no request meets another, a commit leaves the branch by a discard or a new configuration
\* only, wherever a request breaks off: no pull, commit or push drops it.
THEOREM CommitsStayAlways == GitSpec => CommitsStay
<1>1. WellFormed /\ CalmInv /\ [GitNext]_gitVars =>
         [\/ local \in Reach(graph', local')
          \/ local = NoCommit \/ overlapped'
          \/ \E p \in Processes : \/ DiscardUnpushed(p) \/ InitializeRepo(p)
                                  \/ \E c \in DOMAIN graph : DiscardCommit(p, c)]_gitVars
    BY CommitStays DEF Leaves
<1> QED BY <1>1, GitWellFormed, GitCalm, PTL DEF GitSpec, CommitsStay
=============================================================================

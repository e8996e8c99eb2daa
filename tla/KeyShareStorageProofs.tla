----------------------- MODULE KeyShareStorageProofs -----------------------
(***************************************************************************)
(* The file system storage implements KeyShareStore, for any number of     *)
(* calls, keys and values.  What it rests on: a file is never torn, since  *)
(* the temporary file holds the whole value when it is renamed, since no   *)
(* other call stores to the same path.                                     *)
(***************************************************************************)
EXTENDS KeyShareStorage, TLAPS

\* A call's operation goes with its slot, its value and the places it can be at.
CallOK(k) ==
    \/ k = Idle
    \/ /\ k.slot \in Slots
       /\ \/ /\ k.op = "store" /\ k.value \in Values
             /\ k.state \in {"mkdir", "open", "write", "rename", "ok", "failed"}
          \/ /\ k.op = "get"
             /\ k.state \in {"read", "ok", "failed"}
          \/ /\ k.op = "delete"
             /\ k.state \in {"remove", "readdir", "rmdir", "ok", "failed"}

CallsOK == \A c \in Calls : CallOK(call[c])

\* No two calls store one slot, so that they do not share a temporary file.
OneWriter ==
    \A c, d \in Calls :
        call[c].op = "store" /\ call[d].op = "store" /\ call[c].slot = call[d].slot => c = d

\* What a call is about to rename is what it was called with.
Written ==
    \A c \in Calls : At(c, "store", "rename") => tmp[call[c].slot] = call[c].value

\* No file under its final name is half written.
FilesWhole == \A s \in Slots : file[s] # Torn

IInv == TypeOK /\ CallsOK /\ OneWriter /\ Written /\ FilesWhole

\* A step of one call changes no more than its own record.
LEMMA StepInvariant ==
    ASSUME IInv, NEW c \in Calls, Step(c)
    PROVE  IInv'
<1> USE ValuesAssumption
<1>1. ASSUME NEW s \in Slots, NEW v \in Values, BeginStore(c, s, v) PROVE IInv'
  BY <1>1 DEF IInv, TypeOK, CallsOK, CallOK, OneWriter, Written, FilesWhole, BeginStore, Begin, At,
     Idle, States
<1>2. ASSUME NEW s \in Slots, BeginGet(c, s) PROVE IInv'
  BY <1>2 DEF IInv, TypeOK, CallsOK, CallOK, OneWriter, Written, FilesWhole, BeginGet, Begin, At,
     Idle, States
<1>3. ASSUME NEW s \in Slots, BeginDelete(c, s) PROVE IInv'
  BY <1>3 DEF IInv, TypeOK, CallsOK, CallOK, OneWriter, Written, FilesWhole, BeginDelete, Begin,
     At, Idle, States
<1>4. CASE MkdirAll(c)
  BY <1>4 DEF IInv, TypeOK, CallsOK, CallOK, OneWriter, Written, FilesWhole, MkdirAll, Goto, At,
     Idle, States, Slots, DirOf
<1>5. CASE OpenTemp(c)
  BY <1>5 DEF IInv, TypeOK, CallsOK, CallOK, OneWriter, Written, FilesWhole, OpenTemp, Goto, At,
     Idle, States
<1>6. CASE WriteTemp(c)
  BY <1>6 DEF IInv, TypeOK, CallsOK, CallOK, OneWriter, Written, FilesWhole, WriteTemp, Goto, At,
     Idle, States
<1>7. CASE Rename(c)
  BY <1>7 DEF IInv, TypeOK, CallsOK, CallOK, OneWriter, Written, FilesWhole, Rename, Goto, At,
     Idle, States
<1>8. CASE ReadFile(c)
  BY <1>8 DEF IInv, TypeOK, CallsOK, CallOK, OneWriter, Written, FilesWhole, ReadFile, At, Idle,
     States
<1>9. CASE Remove(c)
  BY <1>9 DEF IInv, TypeOK, CallsOK, CallOK, OneWriter, Written, FilesWhole, Remove, Goto, At,
     Idle, States
<1>10. CASE Readdirnames(c)
  BY <1>10 DEF IInv, TypeOK, CallsOK, CallOK, OneWriter, Written, FilesWhole, Readdirnames, Goto,
     At, Idle, States
<1>11. CASE RemoveDir(c)
  BY <1>11 DEF IInv, TypeOK, CallsOK, CallOK, OneWriter, Written, FilesWhole, RemoveDir, Goto, At,
     Idle, States
<1>12. CASE Fail(c)
  BY <1>12 DEF IInv, TypeOK, CallsOK, CallOK, OneWriter, Written, FilesWhole, Fail, Goto, At, Idle,
     States
<1>13. CASE Return(c)
  BY <1>13 DEF IInv, TypeOK, CallsOK, CallOK, OneWriter, Written, FilesWhole, Return, At, Idle,
     States
<1> QED
  BY <1>1, <1>2, <1>3, <1>4, <1>5, <1>6, <1>7, <1>8, <1>9, <1>10, <1>11, <1>12, <1>13 DEF Step

\* No torn file, no two stores to one path, in every state of every behaviour.
THEOREM Invariance == Spec => []IInv
<1>1. Init => IInv
  BY ValuesAssumption DEF Init, IInv, TypeOK, CallsOK, CallOK, OneWriter, Written, FilesWhole, At,
     Idle, States
<1>2. IInv /\ [Next]_vars => IInv'
  <2> SUFFICES ASSUME IInv, [Next]_vars PROVE IInv'
    OBVIOUS
  <2>1. CASE Crash
    BY <2>1 DEF IInv, TypeOK, CallsOK, CallOK, OneWriter, Written, FilesWhole, Crash, At, Idle,
       States
  <2>2. CASE UNCHANGED vars
    BY <2>2 DEF IInv, TypeOK, CallsOK, CallOK, OneWriter, Written, FilesWhole, At, vars
  <2> QED
    BY <2>1, <2>2, StepInvariant DEF Next
<1> QED
  BY <1>1, <1>2, PTL DEF Spec

\* Directories, files, temporary files and calls keep their types.
THEOREM TypeCorrect == Spec => []TypeOK
BY Invariance, PTL DEF IInv

-----------------------------------------------------------------------------
Kept == [s \in Slots |-> IF file[s] = Torn THEN None ELSE file[s]]
Seen == [c \in Calls |-> AsSeen(call[c])]

\* As no file is torn, what is kept is what the files hold.
LEMMA KeptIsFile == IInv => Kept = file
BY DEF IInv, TypeOK, FilesWhole, Kept

\* What is seen of a call: its record, with another name for where it is.
LEMMA SeenIs ==
    ASSUME IInv, NEW c \in Calls
    PROVE  /\ Seen[c] = [op |-> call[c].op, slot |-> call[c].slot, value |-> call[c].value,
                         state |-> SeenState(call[c].state)]
           /\ CallOK(call[c])
           /\ call[c] = Idle => Seen[c] = Idle
<1>1. call[c] \in [op : {"none", "store", "get", "delete"}, slot : Slots \cup {None},
                  value : Values \cup {None}, state : States]
  BY DEF IInv, TypeOK
<1>2. Seen[c] = AsSeen(call[c])
  BY DEF Seen
<1>3. AsSeen(call[c]) = [op |-> call[c].op, slot |-> call[c].slot, value |-> call[c].value,
                         state |-> SeenState(call[c].state)]
  BY <1>1 DEF AsSeen
<1>4. CallOK(call[c])
  BY DEF IInv, CallsOK
<1>5. SeenState("idle") = "idle"
  BY DEF SeenState
<1>6. ASSUME call[c] = Idle PROVE Seen[c] = Idle
  BY <1>2, <1>3, <1>5, <1>6 DEF Idle
<1> QED
  BY <1>2, <1>3, <1>4, <1>6

\* A step that changes one call's record changes what is seen of that call only.
LEMMA SeenChanges ==
    ASSUME IInv, NEW c \in Calls, NEW k, call' = [call EXCEPT ![c] = k]
    PROVE  Seen' = [Seen EXCEPT ![c] = AsSeen(k)]
BY DEF IInv, TypeOK, Seen

LEMMA SeenMoves ==
    ASSUME IInv, NEW c \in Calls, NEW st \in States, Goto(c, st)
    PROVE  Seen' = [Seen EXCEPT ![c].state = SeenState(st)]
<1>1. call[c] \in [op : {"none", "store", "get", "delete"}, slot : Slots \cup {None},
                  value : Values \cup {None}, state : States]
  BY DEF IInv, TypeOK
<1>2. call' = [call EXCEPT ![c] = [call[c] EXCEPT !.state = st]]
  BY DEF Goto
<1>3. AsSeen([call[c] EXCEPT !.state = st]) = [AsSeen(call[c]) EXCEPT !.state = SeenState(st)]
  BY <1>1 DEF AsSeen
<1>4. Seen[c] = AsSeen(call[c])
  BY DEF Seen
<1>5. Seen' = [Seen EXCEPT ![c] = [AsSeen(call[c]) EXCEPT !.state = SeenState(st)]]
  BY <1>2, <1>3, SeenChanges
<1> QED
  BY <1>4, <1>5

\* The names of the places.
LEMMA SeenStates ==
    /\ \A st \in {"idle", "ok", "failed"} : SeenState(st) = st
    /\ \A st \in {"readdir", "rmdir"} : SeenState(st) = "ok"
    /\ \A st \in {"mkdir", "open", "write", "rename", "read", "remove"} : SeenState(st) = "pending"
BY DEF SeenState

\* A place that looks the same from outside.
LEMMA SeenStays ==
    ASSUME IInv, NEW c \in Calls, NEW st \in States, Goto(c, st),
           SeenState(st) = SeenState(call[c].state)
    PROVE  Seen' = Seen
<1>1. Seen' = [Seen EXCEPT ![c].state = SeenState(st)]
  BY SeenMoves
<1>2. Seen[c] = [op |-> call[c].op, slot |-> call[c].slot, value |-> call[c].value,
                 state |-> SeenState(call[c].state)]
  BY SeenIs
<1>3. [Seen[c] EXCEPT !.state = SeenState(st)] = Seen[c]
  BY <1>2
<1> QED
  BY <1>1, <1>3 DEF Seen

\* A call begins.
LEMMA BeginRefines ==
    ASSUME IInv, NEW c \in Calls, NEW op, NEW s, NEW v,
           NEW st \in {"mkdir", "read", "remove"}, Begin(c, op, s, v, st), Kept = file,
           Kept' = file'
    PROVE  Promise!Begin(c, op, s, v)
<1>1. Seen[c] = Idle
  BY SeenIs DEF Begin
<1>2. Seen' = [Seen EXCEPT ![c] = AsSeen([op |-> op, slot |-> s, value |-> v, state |-> st])]
  BY SeenChanges DEF Begin
<1>3. AsSeen([op |-> op, slot |-> s, value |-> v, state |-> st])
        = [op |-> op, slot |-> s, value |-> v, state |-> "pending"]
  BY DEF AsSeen, SeenState
<1>4. file' = file
  BY DEF Begin
<1> QED
  BY <1>1, <1>2, <1>3, <1>4 DEF Promise!Begin, Promise!Idle, Idle, Seen, Kept

\* Each step of a call is a step of the store, or none.
LEMMA StepRefines ==
    ASSUME IInv, IInv', NEW c \in Calls, Step(c)
    PROVE  Promise!Next \/ UNCHANGED Promise!vars
<1> USE ValuesAssumption
<1>a. Kept = file /\ Kept' = file'
  <2>1. Kept = file
    BY KeptIsFile
  <2>2. Kept' = file'
    BY DEF IInv, TypeOK, FilesWhole, Kept
  <2> QED
    BY <2>1, <2>2
<1>b. /\ Seen[c] = [op |-> call[c].op, slot |-> call[c].slot, value |-> call[c].value,
                    state |-> SeenState(call[c].state)]
      /\ CallOK(call[c])
      /\ call[c] = Idle => Seen[c] = Idle
  BY SeenIs
<1>1. ASSUME NEW s \in Slots, NEW v \in Values, BeginStore(c, s, v)
      PROVE  Promise!Begin(c, "store", s, v)
  BY <1>a, <1>1, BeginRefines DEF BeginStore
<1>2. ASSUME NEW s \in Slots, BeginGet(c, s)
      PROVE  Promise!Begin(c, "get", s, None)
  BY <1>a, <1>2, BeginRefines DEF BeginGet
<1>3. ASSUME NEW s \in Slots, BeginDelete(c, s)
      PROVE  Promise!Begin(c, "delete", s, None)
  BY <1>a, <1>3, BeginRefines DEF BeginDelete
<1>4. ASSUME MkdirAll(c) \/ OpenTemp(c) \/ WriteTemp(c)
      PROVE  UNCHANGED Promise!vars
  <2>1. file' = file
    BY <1>4 DEF MkdirAll, OpenTemp, WriteTemp
  <2>2. PICK st \in {"open", "write", "rename"} :
           Goto(c, st) /\ call[c].state \in {"mkdir", "open", "write"}
    BY <1>4 DEF MkdirAll, OpenTemp, WriteTemp, At
  <2>3. Seen' = Seen
    BY <2>2, SeenStays, SeenStates DEF States
  <2> QED
    BY <1>a, <2>1, <2>3 DEF Promise!vars, Seen, Kept
<1>5. ASSUME Rename(c)
      PROVE  Promise!Store(c)
  <2>1. At(c, "store", "rename") /\ tmp[call[c].slot] = call[c].value
    BY <1>5 DEF Rename, IInv, Written
  <2>2. Seen[c].op = "store" /\ Seen[c].state = "pending" /\ Seen[c].slot = call[c].slot
        /\ Seen[c].value = call[c].value
    BY <1>b, <2>1, SeenStates DEF At
  <2>3. Seen' = [Seen EXCEPT ![c].state = "ok"]
    BY <1>5, SeenMoves, SeenStates DEF Rename, States
  <2>4. file' = [file EXCEPT ![Seen[c].slot] = Seen[c].value]
    BY <1>5, <2>1, <2>2 DEF Rename
  <2> QED
    BY <1>a, <2>2, <2>3, <2>4 DEF Promise!Store, Promise!Pending, Seen, Kept
<1>6. ASSUME ReadFile(c)
      PROVE  Promise!Get(c)
  <2> DEFINE k == [op |-> "get", slot |-> call[c].slot, value |-> file[call[c].slot],
                   state |-> "ok"]
  <2>1. At(c, "get", "read") /\ call' = [call EXCEPT ![c] = k] /\ file' = file
    BY <1>6 DEF ReadFile
  <2>2. Seen[c].op = "get" /\ Seen[c].state = "pending" /\ Seen[c].slot = call[c].slot
    BY <1>b, <2>1, SeenStates DEF At
  <2>3. AsSeen(k) = k
    BY SeenStates DEF AsSeen
  <2>4. Seen' = [Seen EXCEPT ![c] = k]
    BY <2>1, <2>3, SeenChanges
  <2> QED
    BY <1>a, <2>1, <2>2, <2>4 DEF Promise!Get, Promise!Pending, Seen, Kept
<1>7. ASSUME Remove(c)
      PROVE  Promise!Delete(c)
  <2>1. At(c, "delete", "remove")
    BY <1>7 DEF Remove
  <2>2. Seen[c].op = "delete" /\ Seen[c].state = "pending" /\ Seen[c].slot = call[c].slot
    BY <1>b, <2>1, SeenStates DEF At
  <2>3. PICK st \in {"ok", "readdir"} : Goto(c, st)
    BY <1>7 DEF Remove
  <2>4. Seen' = [Seen EXCEPT ![c].state = "ok"]
    BY <2>3, SeenMoves, SeenStates DEF States
  <2>5. file' = [file EXCEPT ![Seen[c].slot] = None]
    BY <1>7, <2>2 DEF Remove
  <2> QED
    BY <1>a, <2>2, <2>4, <2>5 DEF Promise!Delete, Promise!Pending, Seen, Kept
<1>8. ASSUME Readdirnames(c) \/ RemoveDir(c)
      PROVE  UNCHANGED Promise!vars
  <2>1. file' = file
    BY <1>8 DEF Readdirnames, RemoveDir
  <2>2. PICK st \in {"rmdir", "ok"} : Goto(c, st) /\ call[c].state \in {"readdir", "rmdir"}
    BY <1>8 DEF Readdirnames, RemoveDir, At
  <2>3. Seen' = Seen
    BY <2>2, SeenStays, SeenStates DEF States
  <2> QED
    BY <1>a, <2>1, <2>3 DEF Promise!vars, Seen, Kept
<1>9. ASSUME Fail(c)
      PROVE  Promise!Fail(c)
  <2>1. Seen[c].state = "pending"
    BY <1>9, <1>b, SeenStates DEF Fail
  <2>2. Seen' = [Seen EXCEPT ![c].state = "failed"] /\ file' = file
    BY <1>9, SeenMoves, SeenStates DEF Fail, States
  <2> QED
    BY <1>a, <2>1, <2>2 DEF Promise!Fail, Seen, Kept
<1>10. ASSUME Return(c)
       PROVE  Promise!Return(c)
  <2>1. Seen[c].state \in {"ok", "failed"}
    BY <1>10, <1>b, SeenStates DEF Return
  <2>2. Seen' = [Seen EXCEPT ![c] = AsSeen(Idle)] /\ file' = file
    BY <1>10, SeenChanges DEF Return
  <2>3. AsSeen(Idle) = Idle
    BY DEF AsSeen, Idle, SeenState
  <2> QED
    BY <1>a, <2>1, <2>2, <2>3 DEF Promise!Return, Promise!Idle, Idle, Seen, Kept
<1> QED
  BY <1>1, <1>2, <1>3, <1>4, <1>5, <1>6, <1>7, <1>8, <1>9, <1>10 DEF Step, Promise!Next

\* key_share_storage.go:105-258: for any number of keys, values and overlapping
\* calls, the storage implements the store of KeyShareStore.
THEOREM StorageIsAStore == Spec => IsAStore
<1>1. Init => Promise!Init
  <2> SUFFICES ASSUME Init PROVE Promise!Init
    OBVIOUS
  <2>1. AsSeen(Idle) = Idle
    BY DEF AsSeen, Idle, SeenState
  <2>2. \A c \in Calls : call[c] = Idle
    BY DEF Init
  <2>3. \A s \in Slots : file[s] = None
    BY DEF Init
  <2> QED
    BY <2>1, <2>2, <2>3, ValuesAssumption DEF Promise!Init, Promise!Idle, Idle
<1>2. IInv /\ IInv' /\ [Next]_vars => [Promise!Next]_(Promise!vars)
  <2> SUFFICES ASSUME IInv, IInv', [Next]_vars PROVE Promise!Next \/ UNCHANGED Promise!vars
    OBVIOUS
  <2>1. CASE Crash
    <3>1. AsSeen(Idle) = Idle
      BY DEF AsSeen, Idle, SeenState
    <3>2. file' = file /\ \A c \in Calls : call'[c] = Idle
      BY <2>1 DEF Crash
    <3>3. Promise!Crash
      BY <3>1, <3>2 DEF Promise!Crash, Promise!Idle, Idle
    <3> QED
      BY <3>3 DEF Promise!Next
  <2>2. CASE UNCHANGED vars
    BY <2>2 DEF vars, Promise!vars, AsSeen
  <2> QED
    BY <2>1, <2>2, StepRefines DEF Next
<1> QED
  BY <1>1, <1>2, Invariance, PTL DEF Spec, IsAStore, Promise!Spec
=============================================================================

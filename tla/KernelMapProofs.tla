--------------------------- MODULE KernelMapProofs ---------------------------
(***************************************************************************)
(* Proofs about KernelMap, for every set of clients and windows.           *)
(*                                                                         *)
(* Whatever the updates of the dictionary do to each other, a mapping's    *)
(* references are those of the one client that deals with it: the entries  *)
(* that others write back carry no reference, and only that client's own   *)
(* unmap releases the one that its setObject took.                         *)
(***************************************************************************)
EXTENDS KernelMap, FiniteSetTheorems, TLAPS

-----------------------------------------------------------------------------
(* The invariant *)

\* The window of the mapping that client c makes, has, or gives back.
Window(c) == IF At(c, "idle") THEN pointer[c] ELSE call[c].window

\* What a call has at each of its steps.
CallSteps ==
    \A c \in Clients :
       /\ At(c, "idle") => call[c].window = NoWindow
       /\ ~At(c, "idle") => pointer[c] = NoWindow
       /\ At(c, "create") => call[c].window = NoWindow
       /\ call[c].at \notin {"idle", "create"} => call[c].window \in Windows
       /\ memory[c] => At(c, "create") \/ Making(c)
       /\ ~Updating(c) => view[c] = NoEntries

\* No two clients deal with the same window.
Ownership ==
    \A c, d \in Clients : c # d /\ Window(c) = Window(d) => Window(c) = NoWindow

\* The mapping at w has an entry, or an update that has begun has read one.
Recorded(w) ==
    \/ global_mapped_memory[w] = "mapping"
    \/ \E c \in Clients : view[c][w] = "mapping"

\* An entry refers to a mapping only while that exists.
Expiry == \A w \in Windows : Recorded(w) => refs[w] > 0

\* The references to the mapping of a client, at each step of its call.
References ==
    \A c \in Clients : Window(c) # NoWindow =>
       LET w == Window(c) IN
       /\ call[c].at \in {"record", "recording"} => refs[w] = 1 /\ ~Recorded(w)
       /\ At(c, "release") => refs[w] = 2 \/ (refs[w] = 1 /\ refused /\ ~Recorded(w))
       /\ call[c].at \in {"unmap", "removing"} => refs[w] = 1
       /\ At(c, "idle") => refs[w] = 1 \/ (refs[w] = 0 /\ refused)

InCall(w) == \E c \in Clients : Making(c) /\ call[c].window = w

\* What the dictionary is like as long as no access falls into another's update.
Orderly ==
    ~overlapped =>
       /\ \A c, d \in Clients : Updating(c) /\ Updating(d) => c = d
       /\ \A c \in Clients : Updating(c) => view[c] = global_mapped_memory
       /\ \A w \in Windows :
             /\ global_mapped_memory[w] # "freed"
             /\ refs[w] = (IF global_mapped_memory[w] = "mapping" THEN 1 ELSE 0)
                          + (IF InCall(w) THEN 1 ELSE 0)
             /\ refs[w] > 0 => \E c \in Clients : Window(c) = w

MapInv == MapTypeOK /\ CallSteps /\ Ownership /\ Expiry /\ References /\ Orderly

\* What MapTypeOK says of a call.
Call ==
    [at : {"idle", "create", "record", "recording", "release", "unmap", "removing"},
     window : Windows \cup {NoWindow}]

\* At first nothing is mapped and no call is in progress.
LEMMA MapInitInv == MapInit => MapInv
<1> SUFFICES ASSUME MapInit PROVE MapInv
  OBVIOUS
<1> USE DEF MapInit, Idle, NoEntries
<1>1. MapTypeOK
  <2>1. Idle \in Call
    BY DEF Call
  <2>2. call \in [Clients -> Call]
    BY <2>1
  <2>3. NoEntries \in Dictionary
    BY DEF Dictionary
  <2>4. view \in [Clients -> Dictionary] /\ global_mapped_memory \in Dictionary
    BY <2>3
  <2>5. refs \in [Windows -> 0 .. 2] /\ memory \in [Clients -> BOOLEAN]
        /\ pointer \in [Clients -> Windows \cup {NoWindow}]
    OBVIOUS
  <2>6. QED
    BY <2>2, <2>4, <2>5 DEF MapTypeOK, Call
<1>2. CallSteps /\ Ownership
  BY DEF CallSteps, Ownership, At, Making, Updating, Window
<1>3. \A w \in Windows : ~Recorded(w) /\ ~InCall(w)
  BY DEF Recorded, InCall, Making
<1>4. Expiry
  BY <1>3 DEF Expiry
<1>5. References
  BY DEF References, Window, At
<1>6. Orderly
  BY <1>3 DEF Orderly, Updating
<1>7. QED
  BY <1>1, <1>2, <1>4, <1>5, <1>6 DEF MapInv

-----------------------------------------------------------------------------
(* Lemmas about the steps *)

\* A call of client c moves on to another step, and c gets or gives up a pointer.
Moves(c, to, given) ==
    /\ call' = [call EXCEPT ![c] = to]
    /\ pointer' = [pointer EXCEPT ![c] = given]

\* What such a step does to what is known of c and of the other clients.
LEMMA CallMoves ==
    ASSUME MapInv, NEW c \in Clients, NEW to \in Call, NEW given \in Windows \cup {NoWindow},
           Moves(c, to, given)
    PROVE  /\ \A d \in Clients : call[d] \in Call /\ call'[d] = IF d = c THEN to ELSE call[d]
           /\ \A d \in Clients : pointer'[d] = IF d = c THEN given ELSE pointer[d]
           /\ \A d \in Clients : d # c =>
                 /\ Window(d)' = Window(d)
                 /\ Making(d)' <=> Making(d)
                 /\ Updating(d)' <=> Updating(d)
           /\ Window(c)' = IF to.at = "idle" THEN given ELSE to.window
           /\ Making(c)' <=> to.at \in {"record", "recording", "release"}
           /\ Updating(c)' <=> to.at \in {"recording", "removing"}
           /\ call' \in [Clients -> Call] /\ pointer' \in [Clients -> Windows \cup {NoWindow}]
<1>1. call \in [Clients -> Call] /\ pointer \in [Clients -> Windows \cup {NoWindow}]
  BY DEF MapInv, MapTypeOK, Call
<1>2. \A d \in Clients : call[d] \in Call /\ call'[d] = IF d = c THEN to ELSE call[d]
  BY <1>1 DEF Moves
<1>3. \A d \in Clients : pointer'[d] = IF d = c THEN given ELSE pointer[d]
  BY <1>1 DEF Moves
<1>4. call' \in [Clients -> Call] /\ pointer' \in [Clients -> Windows \cup {NoWindow}]
  BY <1>1 DEF Moves
<1>5. QED
  BY <1>2, <1>3, <1>4 DEF Window, At, Making, Updating

\* What CallSteps says of a client without a pointer.
CallFits(record, holds, seen) ==
    /\ record.at \in {"idle", "create"} => record.window = NoWindow
    /\ record.at \notin {"idle", "create"} => record.window \in Windows
    /\ holds => record.at \in {"create", "record", "recording", "release"}
    /\ record.at \notin {"recording", "removing"} => seen = NoEntries

\* A step of client c that leaves the dictionary and the references alone.
QuietStep(c, to, holds, seen) ==
    /\ UNCHANGED <<refs, global_mapped_memory>>
    /\ Moves(c, to, NoWindow)
    /\ memory' = [memory EXCEPT ![c] = holds]
    /\ view' = [view EXCEPT ![c] = seen]

\* After such a step the invariant holds, if client c has no pointer, keeps its window or gives it up, and what its view has is in the
\* dictionary.
LEMMA QuietInv ==
    ASSUME MapInv, NEW c \in Clients, NEW to \in Call, NEW holds \in BOOLEAN,
           NEW seen \in {NoEntries, global_mapped_memory},
           QuietStep(c, to, holds, seen),
           overlapped' \in BOOLEAN, overlapped => overlapped',
           refused' \in BOOLEAN, refused => refused',
           CallFits(to, holds, seen),
           to.window \in {Window(c), NoWindow},
           to.at \in {"record", "recording"} => call[c].at \in {"record", "recording"},
           to.at = "release" => call[c].at = "recording" /\ refused',
           to.at \in {"unmap", "removing"} => refs[to.window] = 1,
           ~overlapped' =>
              /\ to.at \in {"recording", "removing"} =>
                    seen = global_mapped_memory /\ \A d \in Clients \ {c} : ~Updating(d)
              /\ Making(c) <=> to.at \in {"record", "recording", "release"}
              /\ to.window = Window(c)
    PROVE  MapInv'
<1> USE DEF MapInv, QuietStep, Moves
<1>1. /\ \A d \in Clients : call[d] \in Call /\ call'[d] = IF d = c THEN to ELSE call[d]
      /\ \A d \in Clients : pointer'[d] = IF d = c THEN NoWindow ELSE pointer[d]
      /\ \A d \in Clients : d # c =>
            /\ Window(d)' = Window(d)
            /\ Making(d)' <=> Making(d)
            /\ Updating(d)' <=> Updating(d)
      /\ Window(c)' = to.window
      /\ Making(c)' <=> to.at \in {"record", "recording", "release"}
      /\ Updating(c)' <=> to.at \in {"recording", "removing"}
      /\ call' \in [Clients -> Call] /\ pointer' \in [Clients -> Windows \cup {NoWindow}]
  <2>1. to \in Call /\ NoWindow \in Windows \cup {NoWindow} /\ Moves(c, to, NoWindow)
    OBVIOUS
  <2>2. to.at = "idle" => to.window = NoWindow
    BY DEF CallFits
  <2> HIDE DEF MapInv, QuietStep, Moves
  <2>3. QED
    BY <2>1, <2>2, CallMoves
<1>2. seen \in Dictionary /\ \A w \in Windows : seen[w] = "mapping" => global_mapped_memory[w] = "mapping"
  BY DEF MapTypeOK, Dictionary, NoEntries
<1>3. /\ \A d \in Clients : view'[d] = IF d = c THEN seen ELSE view[d]
      /\ \A d \in Clients : memory'[d] = IF d = c THEN holds ELSE memory[d]
      /\ view' \in [Clients -> Dictionary] /\ memory' \in [Clients -> BOOLEAN]
  BY <1>2 DEF MapTypeOK
<1>4. \A w \in Windows : Recorded(w)' => Recorded(w)
  BY <1>2, <1>3 DEF Recorded
<1>5. MapTypeOK'
  BY <1>1, <1>3 DEF MapTypeOK, Call, Dictionary
<1>6. CallSteps'
  <2>1. ASSUME NEW d \in Clients
        PROVE  /\ At(d, "idle")' => call'[d].window = NoWindow
               /\ ~At(d, "idle")' => pointer'[d] = NoWindow
               /\ At(d, "create")' => call'[d].window = NoWindow
               /\ call'[d].at \notin {"idle", "create"} => call'[d].window \in Windows
               /\ memory'[d] => At(d, "create")' \/ Making(d)'
               /\ ~Updating(d)' => view'[d] = NoEntries
    <3>1. CASE d = c
      BY <1>1, <1>3, <3>1 DEF CallFits, At, Making, Updating
    <3>2. CASE d # c
      BY <1>1, <1>3, <3>2 DEF CallSteps, At
    <3>3. QED
      BY <3>1, <3>2
  <2>2. NoEntries' = NoEntries /\ Windows' = Windows
    BY DEF NoEntries
  <2>3. QED
    BY <2>1, <2>2 DEF CallSteps
<1>7. Ownership'
  BY <1>1 DEF Ownership
<1>8. Expiry'
  BY <1>4 DEF Expiry
<1>9. References'
  <2>1. SUFFICES ASSUME NEW d \in Clients, Window(d)' # NoWindow, NEW w, w = Window(d)'
                 PROVE  /\ call'[d].at \in {"record", "recording"} => refs[w] = 1 /\ ~Recorded(w)'
                        /\ At(d, "release")' => refs[w] = 2 \/ (refs[w] = 1 /\ refused' /\ ~Recorded(w)')
                        /\ call'[d].at \in {"unmap", "removing"} => refs[w] = 1
                        /\ At(d, "idle")' => refs[w] = 1 \/ (refs[w] = 0 /\ refused')
    BY DEF References
  <2>2. w = Window(d) /\ w \in Windows
    <3>1. Window(d) \in Windows \cup {NoWindow}
      BY <1>1 DEF Call, Window, MapTypeOK
    <3>2. QED
      BY <1>1, <2>1, <3>1
  <2>3. CASE d # c
    BY <1>1, <1>4, <2>1, <2>2, <2>3 DEF References, At
  <2>4. CASE d = c
    <3>1. call'[c] = to /\ w = to.window /\ w = Window(c) /\ Window(c) # NoWindow
      BY <1>1, <2>1, <2>2, <2>4
    <3>2. to.at # "idle"
      BY <2>1, <3>1, <2>4 DEF CallFits
    <3>3. to.at \in {"record", "recording", "release"} => refs[w] = 1 /\ ~Recorded(w)
      BY <3>1 DEF References, At
    <3>4. to.at \in {"record", "recording", "release"} => ~Recorded(w)'
      BY <1>4, <2>2, <3>3
    <3>5. QED
      BY <2>4, <3>1, <3>2, <3>3, <3>4 DEF At
  <2>5. QED
    BY <2>3, <2>4
<1>10. Orderly'
  <2>1. SUFFICES ASSUME ~overlapped'
                 PROVE  Orderly'
    BY DEF Orderly
  <2>2. \A d \in Clients : Making(d)' <=> Making(d)
    BY <1>1, <2>1
  <2>3. \A d \in Clients : Making(d) => call'[d].window = call[d].window
    BY <1>1, <2>1, <2>2 DEF Window, At, Making, CallFits
  <2>4. \A w \in Windows : InCall(w)' <=> InCall(w)
    BY <2>2, <2>3 DEF InCall
  <2>5. \A w \in Windows : (\E d \in Clients : Window(d) = w) => \E d \in Clients : Window(d)' = w
    BY <1>1, <2>1, MapAssumption
  <2>6. \A d, e \in Clients : Updating(d)' /\ Updating(e)' => d = e
    BY <1>1, <2>1 DEF Orderly
  <2>7. \A d \in Clients : Updating(d)' => view'[d] = global_mapped_memory
    BY <1>1, <1>3, <2>1 DEF Orderly
  <2>8. QED
    BY <2>1, <2>4, <2>5, <2>6, <2>7 DEF Orderly
<1>11. QED
  BY <1>5, <1>6, <1>7, <1>8, <1>9, <1>10

-----------------------------------------------------------------------------
(* Steps that change neither the references nor the dictionary *)

\* CopyMemory: the call holds a descriptor, and deals with no window yet.
LEMMA CopyMemoryInv ==
    ASSUME MapInv, NEW c \in Clients, CopyMemory(c)
    PROVE  MapInv'
<1> DEFINE to == [call[c] EXCEPT !.at = "create"]
<1> USE DEF MapInv
<1>1. /\ At(c, "idle") /\ pointer[c] = NoWindow
      /\ call' = [call EXCEPT ![c] = to] /\ memory' = [memory EXCEPT ![c] = TRUE]
      /\ UNCHANGED <<refs, global_mapped_memory, view, pointer, overlapped, refused>>
  BY DEF CopyMemory, Advance, MapTypeOK
<1>2. call[c] \in Call /\ call[c].window = NoWindow
  BY <1>1 DEF MapTypeOK, Call, CallSteps
<1>3. to \in Call /\ to.at = "create" /\ to.window = NoWindow
  BY <1>2 DEF Call
<1>4. pointer' = [pointer EXCEPT ![c] = NoWindow]
  BY <1>1 DEF MapTypeOK
<1>5. view[c] = NoEntries /\ view' = [view EXCEPT ![c] = NoEntries]
  BY <1>1 DEF MapTypeOK, CallSteps, At, Updating
<1> HIDE DEF to
<1>6. Window(c) = NoWindow /\ ~Making(c) /\ CallFits(to, TRUE, NoEntries)
  BY <1>1, <1>3 DEF Window, Making, At, CallFits
<1>7. overlapped \in BOOLEAN /\ refused \in BOOLEAN
  BY DEF MapTypeOK
<1>8. QED
  <2>1. QuietStep(c, to, TRUE, NoEntries)
    BY <1>1, <1>4, <1>5 DEF QuietStep, Moves
  <2> HIDE DEF MapInv
  <2>2. QED
    BY <2>1, <1>1, <1>3, <1>4, <1>5, <1>6, <1>7, QuietInv

\* CreateMappingFails: the call gives up its descriptor.
LEMMA CreateMappingFailsInv ==
    ASSUME MapInv, NEW c \in Clients, CreateMappingFails(c)
    PROVE  MapInv'
<1> USE DEF MapInv
<1>1. /\ At(c, "create")
      /\ call' = [call EXCEPT ![c] = Idle] /\ memory' = [memory EXCEPT ![c] = FALSE]
      /\ UNCHANGED <<refs, global_mapped_memory, view, pointer, overlapped, refused>>
  BY DEF CreateMappingFails, Return
<1>2. Idle \in Call /\ Idle.at = "idle" /\ Idle.window = NoWindow
  BY DEF Idle, Call
<1>3. pointer[c] = NoWindow /\ pointer' = [pointer EXCEPT ![c] = NoWindow]
  BY <1>1 DEF MapTypeOK, CallSteps, At
<1>4. view[c] = NoEntries /\ view' = [view EXCEPT ![c] = NoEntries]
  BY <1>1 DEF MapTypeOK, CallSteps, At, Updating
<1>5. Window(c) = NoWindow /\ ~Making(c) /\ CallFits(Idle, FALSE, NoEntries)
  BY <1>1, <1>2 DEF Window, Making, At, CallFits, CallSteps
<1>6. overlapped \in BOOLEAN /\ refused \in BOOLEAN
  BY DEF MapTypeOK
<1>7. QED
  <2>1. QuietStep(c, Idle, FALSE, NoEntries)
    BY <1>1, <1>3, <1>4 DEF QuietStep, Moves
  <2> HIDE DEF MapInv
  <2>2. QED
    BY <2>1, <1>1, <1>2, <1>3, <1>4, <1>5, <1>6, QuietInv

\* BeginRecord and BeginRemove: the call has read the dictionary.
LEMMA BeginUpdateInv ==
    ASSUME MapInv, NEW c \in Clients, BeginRecord(c) \/ BeginRemove(c)
    PROVE  MapInv'
<1> DEFINE to == [call[c] EXCEPT !.at = IF BeginRecord(c) THEN "recording" ELSE "removing"]
<1> USE DEF MapInv
<1>1. call[c] \in Call
  BY DEF MapTypeOK, Call
<1>2. /\ IF BeginRecord(c) THEN At(c, "record") ELSE At(c, "unmap")
      /\ call' = [call EXCEPT ![c] = to]
      /\ view' = [view EXCEPT ![c] = global_mapped_memory] /\ Access(c)
      /\ UNCHANGED <<refs, global_mapped_memory, memory, pointer, refused>>
  <2>1. BeginRecord(c) => call' = [call EXCEPT ![c].at = "recording"]
    BY DEF BeginRecord, Advance
  <2>2. BeginRemove(c) => call' = [call EXCEPT ![c].at = "removing"]
    BY DEF BeginRemove, Advance
  <2>3. call' = [call EXCEPT ![c] = to]
    BY <2>1, <2>2 DEF MapTypeOK
  <2>4. QED
    BY <2>3 DEF BeginRecord, BeginRemove, Advance, BeginUpdate
<1>3. /\ to \in Call /\ to.window = call[c].window
      /\ to.at = IF At(c, "record") THEN "recording" ELSE "removing"
  BY <1>1, <1>2 DEF Call, At
<1> HIDE DEF to
<1>4. pointer[c] = NoWindow /\ pointer' = [pointer EXCEPT ![c] = NoWindow]
  BY <1>2 DEF MapTypeOK, CallSteps, At
<1>5. memory[c] \in BOOLEAN /\ memory' = [memory EXCEPT ![c] = memory[c]]
  BY <1>2 DEF MapTypeOK
<1>6. to.window \in Windows /\ CallFits(to, memory[c], global_mapped_memory)
  BY <1>2, <1>3 DEF CallFits, CallSteps, At, Making
<1>7. Window(c) = to.window /\ (Making(c) <=> to.at = "recording")
  BY <1>2, <1>3 DEF Window, At, Making
<1>8. to.at = "removing" => refs[to.window] = 1
  BY <1>2, <1>3, <1>6, <1>7, MapAssumption DEF References, At
<1>9. /\ overlapped' \in BOOLEAN /\ (overlapped => overlapped')
      /\ refused' \in BOOLEAN /\ (refused => refused')
      /\ ~overlapped' => \A d \in Clients \ {c} : ~Updating(d)
  BY <1>2 DEF Access, MapTypeOK
<1>10. QED
  <2>1. QuietStep(c, to, memory[c], global_mapped_memory)
    BY <1>2, <1>4, <1>5 DEF QuietStep, Moves
  <2> HIDE DEF MapInv
  <2>2. QED
    BY <2>1, <1>2, <1>3, <1>4, <1>5, <1>6, <1>7, <1>8, <1>9, QuietInv DEF At

\* RecordMapFails: there is no entry, and so none was ever read.
LEMMA RecordMapFailsInv ==
    ASSUME MapInv, NEW c \in Clients, RecordMapFails(c)
    PROVE  MapInv'
<1> DEFINE to == [call[c] EXCEPT !.at = "release"]
<1> USE DEF MapInv
<1>1. call[c] \in Call
  BY DEF MapTypeOK, Call
<1>2. /\ At(c, "recording")
      /\ call' = [call EXCEPT ![c] = to] /\ view' = [view EXCEPT ![c] = NoEntries] /\ refused'
      /\ UNCHANGED <<refs, global_mapped_memory, memory, pointer, overlapped>>
  BY DEF RecordMapFails, Advance, EndUpdate, MapTypeOK
<1>3. to \in Call /\ to.at = "release" /\ to.window = call[c].window
  BY <1>1 DEF Call
<1> HIDE DEF to
<1>4. pointer[c] = NoWindow /\ pointer' = [pointer EXCEPT ![c] = NoWindow]
  BY <1>2 DEF MapTypeOK, CallSteps, At
<1>5. memory[c] \in BOOLEAN /\ memory' = [memory EXCEPT ![c] = memory[c]]
  BY <1>2 DEF MapTypeOK
<1>6. CallFits(to, memory[c], NoEntries)
  BY <1>2, <1>3 DEF CallFits, CallSteps, At, Making
<1>7. Window(c) = to.window /\ Making(c)
  BY <1>2, <1>3 DEF Window, At, Making
<1>8. overlapped \in BOOLEAN /\ refused' \in BOOLEAN
  BY <1>2 DEF MapTypeOK, RecordMapFails
<1>9. QED
  <2>1. QuietStep(c, to, memory[c], NoEntries)
    BY <1>2, <1>4, <1>5 DEF QuietStep, Moves
  <2> HIDE DEF MapInv
  <2>2. QED
    BY <2>1, <1>2, <1>3, <1>4, <1>5, <1>6, <1>7, <1>8, QuietInv DEF At

\* FindMap: the client gives its pointer up and keeps the window.
LEMMA FindMapInv ==
    ASSUME MapInv, NEW c \in Clients, ~Faulting, FindMap(c)
    PROVE  MapInv'
<1> DEFINE w == pointer[c]
           to == [at |-> "unmap", window |-> w]
<1> USE DEF MapInv
<1>1. /\ At(c, "idle") /\ w # NoWindow
      /\ call' = [call EXCEPT ![c] = to] /\ pointer' = [pointer EXCEPT ![c] = NoWindow]
      /\ Access(c) /\ UNCHANGED <<refs, global_mapped_memory, view, memory, refused>>
  BY DEF FindMap
<1>2. w \in Windows /\ to \in Call
  BY <1>1 DEF MapTypeOK, Call
<1>3. to.at = "unmap" /\ to.window = w
  OBVIOUS
<1>4. Window(c) = w /\ ~Making(c) /\ ~Updating(c)
  BY <1>1 DEF Window, At, Making, Updating
<1>5. refs[w] = 1
  BY <1>1, <1>4 DEF References, At, Faulting
<1> HIDE DEF w, to
<1>6. view' = [view EXCEPT ![c] = NoEntries]
  BY <1>1, <1>4 DEF MapTypeOK, CallSteps
<1>7. memory' = [memory EXCEPT ![c] = FALSE]
  BY <1>1, <1>4 DEF MapTypeOK, CallSteps, At
<1>8. CallFits(to, FALSE, NoEntries)
  BY <1>2, <1>3 DEF CallFits
<1>9. /\ overlapped' \in BOOLEAN /\ (overlapped => overlapped')
      /\ refused' \in BOOLEAN /\ (refused => refused')
  BY <1>1 DEF Access, MapTypeOK
<1>10. QED
  <2>1. QuietStep(c, to, FALSE, NoEntries)
    BY <1>1, <1>6, <1>7 DEF QuietStep, Moves
  <2> HIDE DEF MapInv
  <2>2. QED
    BY <2>1, <1>1, <1>2, <1>3, <1>4, <1>5, <1>6, <1>7, <1>8, <1>9, QuietInv

\* FindNone: only an update that was overwritten can have lost the entry.
LEMMA FindNoneInv ==
    ASSUME MapInv, NEW c \in Clients, ~Faulting, FindNone(c)
    PROVE  MapInv'
<1> DEFINE w == pointer[c]
<1> USE DEF MapInv
<1>1. /\ At(c, "idle") /\ w # NoWindow /\ global_mapped_memory[w] = "none"
      /\ pointer' = [pointer EXCEPT ![c] = NoWindow]
      /\ Access(c) /\ UNCHANGED <<refs, global_mapped_memory, view, memory, call, refused>>
  BY DEF FindNone
<1>2. w \in Windows
  BY <1>1 DEF MapTypeOK
<1>3. Window(c) = w /\ ~Making(c) /\ ~Updating(c)
  BY <1>1 DEF Window, At, Making, Updating
<1>4. refs[w] = 1
  BY <1>1, <1>3 DEF References, At, Faulting
<1> HIDE DEF w
<1>5. overlapped
  <2>1. ~InCall(w)
    BY <1>2, <1>3, MapAssumption DEF InCall, Ownership, Window, Making, At
  <2>2. QED
    BY <1>1, <1>2, <1>4, <2>1 DEF Orderly
<1>6. call[c] \in Call /\ call[c].at = "idle" /\ call[c].window = NoWindow
      /\ call' = [call EXCEPT ![c] = call[c]]
  BY <1>1 DEF MapTypeOK, Call, CallSteps, At
<1>7. view' = [view EXCEPT ![c] = NoEntries]
  BY <1>1, <1>3 DEF MapTypeOK, CallSteps
<1>8. memory' = [memory EXCEPT ![c] = FALSE]
  BY <1>1, <1>3 DEF MapTypeOK, CallSteps, At
<1>9. CallFits(call[c], FALSE, NoEntries)
  BY <1>6 DEF CallFits
<1>10. overlapped' /\ overlapped' \in BOOLEAN /\ refused' \in BOOLEAN /\ (refused => refused')
  BY <1>1, <1>5 DEF Access, MapTypeOK
<1>11. QED
  <2>1. QuietStep(c, call[c], FALSE, NoEntries)
    BY <1>1, <1>6, <1>7, <1>8 DEF QuietStep, Moves
  <2> HIDE DEF MapInv
  <2>2. QED
    BY <2>1, <1>1, <1>6, <1>7, <1>8, <1>9, <1>10, QuietInv

\* RemoveNone: again only an overwritten update can have lost the entry.
LEMMA RemoveNoneInv ==
    ASSUME MapInv, NEW c \in Clients, RemoveNone(c)
    PROVE  MapInv'
<1> DEFINE w == call[c].window
<1> USE DEF MapInv
<1>1. /\ At(c, "removing") /\ call' = [call EXCEPT ![c] = Idle]
      /\ \E base \in Bases(c) : base[w] = "none"
      /\ view' = [view EXCEPT ![c] = NoEntries]
      /\ UNCHANGED <<refs, global_mapped_memory, memory, pointer, overlapped, refused>>
  BY DEF RemoveNone, Return, EndUpdate
<1>2. w \in Windows /\ Window(c) = w /\ ~Making(c) /\ Updating(c)
  BY <1>1 DEF CallSteps, At, Window, Making, Updating
<1>3. refs[w] = 1
  BY <1>1, <1>2, MapAssumption DEF References, At
<1> HIDE DEF w
<1>4. overlapped
  <2>1. ~InCall(w)
    BY <1>2, MapAssumption DEF InCall, Ownership, Window, Making, At
  <2>2. ~overlapped => global_mapped_memory[w] = "none"
    BY <1>1, <1>2 DEF Bases, Orderly
  <2>3. QED
    BY <1>2, <1>3, <2>1, <2>2 DEF Orderly
<1>5. Idle \in Call /\ Idle.at = "idle" /\ Idle.window = NoWindow
  BY DEF Idle, Call
<1>6. pointer' = [pointer EXCEPT ![c] = NoWindow]
  BY <1>1 DEF MapTypeOK, CallSteps, At
<1>7. memory' = [memory EXCEPT ![c] = FALSE]
  BY <1>1, <1>2 DEF MapTypeOK, CallSteps, At
<1>8. CallFits(Idle, FALSE, NoEntries)
  BY <1>5 DEF CallFits
<1>9. overlapped' /\ overlapped' \in BOOLEAN /\ refused' \in BOOLEAN /\ (refused => refused')
  BY <1>1, <1>4 DEF MapTypeOK
<1>10. QED
  <2>1. QuietStep(c, Idle, FALSE, NoEntries)
    BY <1>1, <1>6, <1>7 DEF QuietStep, Moves
  <2> HIDE DEF MapInv
  <2>2. QED
    BY <2>1, <1>1, <1>5, <1>6, <1>7, <1>8, <1>9, QuietInv

-----------------------------------------------------------------------------
(* Steps that change the references *)

\* CreateMapping: nobody deals with a free window, and no entry refers to it.
LEMMA CreateMappingInv ==
    ASSUME MapInv, ~Faulting, NEW c \in Clients, NEW w \in Windows, CreateMapping(c, w)
    PROVE  MapInv'
<1> DEFINE to == [at |-> "record", window |-> w]
<1> USE DEF MapInv
<1>1. /\ At(c, "create") /\ refs[w] = 0 /\ refs' = [refs EXCEPT ![w] = 1]
      /\ call' = [call EXCEPT ![c] = to]
      /\ UNCHANGED <<global_mapped_memory, view, memory, pointer, overlapped, refused>>
  BY DEF CreateMapping
<1>2. to \in Call /\ to.at = "record" /\ to.window = w
  BY DEF Call
<1> HIDE DEF to
<1>3. pointer[c] = NoWindow /\ pointer' = [pointer EXCEPT ![c] = NoWindow]
  BY <1>1 DEF MapTypeOK, CallSteps, At
<1>4. /\ \A d \in Clients : call[d] \in Call /\ call'[d] = IF d = c THEN to ELSE call[d]
      /\ \A d \in Clients : d # c =>
            /\ Window(d)' = Window(d)
            /\ Making(d)' <=> Making(d)
            /\ Updating(d)' <=> Updating(d)
      /\ Window(c)' = w /\ Making(c)' /\ ~Updating(c)'
      /\ call' \in [Clients -> Call]
  <2>1. /\ \A d \in Clients : call[d] \in Call /\ call'[d] = IF d = c THEN to ELSE call[d]
        /\ \A d \in Clients : d # c =>
              /\ Window(d)' = Window(d)
              /\ Making(d)' <=> Making(d)
              /\ Updating(d)' <=> Updating(d)
        /\ Window(c)' = IF to.at = "idle" THEN NoWindow ELSE to.window
        /\ Making(c)' <=> to.at \in {"record", "recording", "release"}
        /\ Updating(c)' <=> to.at \in {"recording", "removing"}
        /\ call' \in [Clients -> Call]
    <3>1. NoWindow \in Windows \cup {NoWindow} /\ Moves(c, to, NoWindow)
      BY <1>1, <1>3 DEF Moves
    <3> HIDE DEF MapInv
    <3>2. QED
      BY <1>2, <3>1, CallMoves
  <2>2. QED
    BY <1>2, <2>1
<1>5. Window(c) = NoWindow /\ ~Making(c) /\ ~Updating(c)
  BY <1>1 DEF Window, At, Making, Updating, CallSteps
<1>6. \A v \in Windows : refs'[v] = IF v = w THEN 1 ELSE refs[v]
  BY <1>1 DEF MapTypeOK
<1>7. ~Recorded(w) /\ \A v \in Windows : Recorded(v)' <=> Recorded(v)
  BY <1>1 DEF Expiry, Recorded
<1>8. \A d \in Clients : Window(d) # w
  <2>1. ASSUME NEW d \in Clients, Window(d) = w PROVE FALSE
    <3>1. Window(d) # NoWindow /\ call[d] \in Call
      BY <1>4, <2>1, MapAssumption
    <3>2. At(d, "idle")
      BY <1>1, <2>1, <3>1 DEF References, At, Call, Window, CallSteps
    <3>3. pointer[d] = w
      BY <2>1, <3>2 DEF Window
    <3>4. QED
      BY <1>1, <3>1, <3>3, MapAssumption DEF Faulting
  <2>2. QED
    BY <2>1
<1>9. MapTypeOK'
  <2>1. refs' \in [Windows -> 0 .. 2]
    BY <1>1 DEF MapTypeOK
  <2>2. QED
    BY <1>1, <1>4, <2>1 DEF MapTypeOK, Call, Dictionary
<1>10. CallSteps'
  BY <1>1, <1>2, <1>4, <1>5 DEF CallSteps, At, NoEntries
<1>11. Ownership'
  BY <1>4, <1>8 DEF Ownership
<1>12. Expiry'
  BY <1>6, <1>7 DEF Expiry
<1>13. References'
  <2>1. SUFFICES ASSUME NEW d \in Clients, Window(d)' # NoWindow, NEW v, v = Window(d)'
                 PROVE  /\ call'[d].at \in {"record", "recording"} => refs'[v] = 1 /\ ~Recorded(v)'
                        /\ At(d, "release")' => refs'[v] = 2 \/ (refs'[v] = 1 /\ refused' /\ ~Recorded(v)')
                        /\ call'[d].at \in {"unmap", "removing"} => refs'[v] = 1
                        /\ At(d, "idle")' => refs'[v] = 1 \/ (refs'[v] = 0 /\ refused')
    BY DEF References
  <2>2. CASE d = c
    BY <1>2, <1>4, <1>6, <1>7, <2>1, <2>2 DEF At
  <2>3. CASE d # c
    <3>1. v = Window(d) /\ v # w /\ v \in Windows
      BY <1>4, <1>8, <2>1, <2>3 DEF Window, At, Call, MapTypeOK
    <3>2. refs'[v] = refs[v] /\ (Recorded(v)' <=> Recorded(v)) /\ call'[d] = call[d]
      BY <1>4, <1>6, <1>7, <2>3, <3>1
    <3>3. QED
      BY <1>1, <2>1, <3>1, <3>2 DEF References, At
  <2>4. QED
    BY <2>2, <2>3
<1>14. Orderly'
  <2>1. SUFFICES ASSUME ~overlapped' PROVE Orderly'
    BY DEF Orderly
  <2>2. \A d, e \in Clients : Updating(d)' /\ Updating(e)' => d = e
    BY <1>1, <1>4, <2>1 DEF Orderly
  <2>3. \A d \in Clients : Updating(d)' => view'[d] = global_mapped_memory'
    BY <1>1, <1>4, <2>1 DEF Orderly
  <2>4. \A v \in Windows : InCall(v)' <=> InCall(v) \/ v = w
    <3>1. \A d \in Clients : d # c => (Making(d)' <=> Making(d)) /\ call'[d].window = call[d].window
      BY <1>4
    <3>2. Making(c)' /\ call'[c].window = w /\ ~Making(c)
      BY <1>2, <1>4, <1>5
    <3>3. QED
      BY <3>1, <3>2 DEF InCall
  <2>5. ~InCall(w)
    BY <1>8 DEF InCall, Window, Making, At
  <2>6. ASSUME NEW v \in Windows
        PROVE  /\ global_mapped_memory'[v] # "freed"
               /\ refs'[v] = (IF global_mapped_memory'[v] = "mapping" THEN 1 ELSE 0)
                              + (IF InCall(v)' THEN 1 ELSE 0)
               /\ refs'[v] > 0 => \E d \in Clients : Window(d)' = v
    <3>1. CASE v = w
      <4>1. global_mapped_memory[w] # "mapping"
        BY <1>7 DEF Recorded
      <4>2. QED
        BY <1>1, <1>4, <1>6, <2>1, <2>4, <3>1, <4>1 DEF Orderly
    <3>2. CASE v # w
      <4>1. refs[v] > 0 => \E d \in Clients : Window(d)' = v
        BY <1>1, <1>4, <1>5, <2>1, MapAssumption DEF Orderly
      <4>2. QED
        BY <1>1, <1>6, <2>1, <2>4, <3>2, <4>1 DEF Orderly
    <3>3. QED
      BY <3>1, <3>2
  <2>7. QED
    BY <2>2, <2>3, <2>6 DEF Orderly
<1>15. QED
  BY <1>9, <1>10, <1>11, <1>12, <1>13, <1>14

\* RecordMap: the entry has a reference of its own.
LEMMA RecordMapInv ==
    ASSUME MapInv, NEW c \in Clients, RecordMap(c)
    PROVE  MapInv'
<1> DEFINE w == call[c].window
           to == [call[c] EXCEPT !.at = "release"]
<1> USE DEF MapInv
<1>1. PICK base \in Bases(c) :
         base[w] = "none" /\ global_mapped_memory' = [base EXCEPT ![w] = "mapping"]
  BY DEF RecordMap
<1>2. /\ At(c, "recording") /\ call' = [call EXCEPT ![c] = to]
      /\ refs' = [refs EXCEPT ![w] = @ + 1] /\ view' = [view EXCEPT ![c] = NoEntries]
      /\ UNCHANGED <<memory, pointer, overlapped, refused>>
  BY DEF RecordMap, Advance, EndUpdate, MapTypeOK
<1>3. call[c] \in Call /\ to \in Call /\ to.at = "release" /\ to.window = w
  BY DEF Call, MapTypeOK
<1>4. pointer[c] = NoWindow /\ pointer' = [pointer EXCEPT ![c] = NoWindow]
  BY <1>2 DEF MapTypeOK, CallSteps, At
<1>5. w \in Windows /\ Window(c) = w /\ Making(c) /\ Updating(c)
  BY <1>2 DEF CallSteps, At, Window, Making, Updating
<1>6. refs[w] = 1 /\ ~Recorded(w)
  BY <1>2, <1>5, MapAssumption DEF References, At
<1> HIDE DEF to, w
<1>7. /\ \A d \in Clients : call[d] \in Call /\ call'[d] = IF d = c THEN to ELSE call[d]
      /\ \A d \in Clients : d # c =>
            /\ Window(d)' = Window(d)
            /\ Making(d)' <=> Making(d)
            /\ Updating(d)' <=> Updating(d)
      /\ Window(c)' = w /\ Making(c)' /\ ~Updating(c)'
      /\ call' \in [Clients -> Call]
  <2>1. /\ \A d \in Clients : call[d] \in Call /\ call'[d] = IF d = c THEN to ELSE call[d]
        /\ \A d \in Clients : d # c =>
              /\ Window(d)' = Window(d)
              /\ Making(d)' <=> Making(d)
              /\ Updating(d)' <=> Updating(d)
        /\ Window(c)' = IF to.at = "idle" THEN NoWindow ELSE to.window
        /\ Making(c)' <=> to.at \in {"record", "recording", "release"}
        /\ Updating(c)' <=> to.at \in {"recording", "removing"}
        /\ call' \in [Clients -> Call]
    <3>1. NoWindow \in Windows \cup {NoWindow} /\ Moves(c, to, NoWindow)
      BY <1>2, <1>4 DEF Moves
    <3> HIDE DEF MapInv
    <3>2. QED
      BY <1>3, <3>1, CallMoves
  <2>2. QED
    BY <1>3, <2>1
<1>8. \A v \in Windows : refs'[v] = IF v = w THEN 2 ELSE refs[v]
  BY <1>2, <1>6 DEF MapTypeOK
<1>9. base \in Dictionary /\ \A v \in Windows : base[v] = "mapping" => Recorded(v)
  BY DEF Bases, MapTypeOK, Recorded
<1>10. /\ global_mapped_memory' \in Dictionary
       /\ \A v \in Windows : global_mapped_memory'[v] = IF v = w THEN "mapping" ELSE base[v]
       /\ view' \in [Clients -> Dictionary]
       /\ \A d \in Clients : view'[d] = IF d = c THEN NoEntries ELSE view[d]
  <2>1. NoEntries \in Dictionary
    BY DEF NoEntries, Dictionary
  <2>2. global_mapped_memory' \in Dictionary
        /\ \A v \in Windows : global_mapped_memory'[v] = IF v = w THEN "mapping" ELSE base[v]
    BY <1>1, <1>9 DEF Dictionary
  <2>3. QED
    BY <1>2, <2>1, <2>2 DEF MapTypeOK
<1>11. \A v \in Windows : v # w => (Recorded(v)' => Recorded(v))
  BY <1>9, <1>10 DEF Recorded, NoEntries
<1>12. \A d \in Clients : d # c => Window(d) # w
  BY <1>5, MapAssumption DEF Ownership
<1>13. MapTypeOK'
  <2>1. refs' \in [Windows -> 0 .. 2]
    <3>1. \A v \in Windows : refs'[v] \in 0 .. 2
      BY <1>8 DEF MapTypeOK
    <3>2. refs' = [v \in Windows |-> refs'[v]]
      BY <1>2 DEF MapTypeOK
    <3>3. QED
      BY <3>1, <3>2
  <2>2. QED
    BY <1>2, <1>7, <1>10, <2>1 DEF MapTypeOK, Call
<1>14. CallSteps'
  <2>1. NoEntries' = NoEntries
    BY DEF NoEntries
  <2>2. QED
    BY <1>2, <1>3, <1>5, <1>7, <1>10, <2>1 DEF CallSteps, At
<1>15. Ownership'
  BY <1>7, <1>12 DEF Ownership
<1>16. Expiry'
  BY <1>8, <1>11 DEF Expiry
<1>17. References'
  <2>1. SUFFICES ASSUME NEW d \in Clients, Window(d)' # NoWindow, NEW v, v = Window(d)'
                 PROVE  /\ call'[d].at \in {"record", "recording"} => refs'[v] = 1 /\ ~Recorded(v)'
                        /\ At(d, "release")' => refs'[v] = 2 \/ (refs'[v] = 1 /\ refused' /\ ~Recorded(v)')
                        /\ call'[d].at \in {"unmap", "removing"} => refs'[v] = 1
                        /\ At(d, "idle")' => refs'[v] = 1 \/ (refs'[v] = 0 /\ refused')
    BY DEF References
  <2>2. CASE d = c
    BY <1>3, <1>5, <1>7, <1>8, <2>1, <2>2 DEF At
  <2>3. CASE d # c
    <3>1. v = Window(d) /\ v # w /\ v \in Windows
      BY <1>7, <1>12, <2>1, <2>3 DEF Window, At, Call, MapTypeOK
    <3>2. refs'[v] = refs[v] /\ (Recorded(v)' => Recorded(v)) /\ call'[d] = call[d]
      BY <1>7, <1>8, <1>11, <2>3, <3>1
    <3>3. QED
      BY <1>2, <2>1, <3>1, <3>2 DEF References, At
  <2>4. QED
    BY <2>2, <2>3
<1>18. Orderly'
  <2>1. SUFFICES ASSUME ~overlapped' PROVE Orderly'
    BY DEF Orderly
  <2>2. base = global_mapped_memory /\ \A d \in Clients : Updating(d) => d = c
    BY <1>2, <1>5, <2>1 DEF Orderly, Bases
  <2>3. \A d \in Clients : ~Updating(d)'
    BY <1>7, <2>2
  <2>4. \A v \in Windows : InCall(v)' <=> InCall(v)
    BY <1>3, <1>5, <1>7 DEF InCall, w
  <2>5. InCall(w)
    BY <1>5 DEF InCall, w
  <2>6. \A d \in Clients : Window(d)' = Window(d)
    BY <1>5, <1>7
  <2>7. \A v \in Windows :
           /\ global_mapped_memory'[v] # "freed"
           /\ refs'[v] = (IF global_mapped_memory'[v] = "mapping" THEN 1 ELSE 0)
                          + (IF InCall(v)' THEN 1 ELSE 0)
           /\ refs'[v] > 0 => \E d \in Clients : Window(d)' = v
    BY <1>2, <1>5, <1>8, <1>10, <2>1, <2>2, <2>4, <2>5, <2>6 DEF Orderly
  <2>8. QED
    BY <2>3, <2>7 DEF Orderly
<1>19. QED
  BY <1>13, <1>14, <1>15, <1>16, <1>17, <1>18

\* ReleaseOwn: what is left is the reference of the entry, if there is one.
LEMMA ReleaseOwnInv ==
    ASSUME MapInv, NEW c \in Clients, ReleaseOwn(c)
    PROVE  MapInv'
<1> DEFINE w == call[c].window
<1> USE DEF MapInv
<1>1. /\ At(c, "release") /\ call' = [call EXCEPT ![c] = Idle]
      /\ refs' = [refs EXCEPT ![w] = @ - 1] /\ memory' = [memory EXCEPT ![c] = FALSE]
      /\ pointer' = [pointer EXCEPT ![c] = w]
      /\ UNCHANGED <<global_mapped_memory, view, overlapped, refused>>
  BY DEF ReleaseOwn, Return
<1>2. Idle \in Call /\ Idle.at = "idle" /\ Idle.window = NoWindow
  BY DEF Idle, Call
<1>3. w \in Windows /\ Window(c) = w /\ Making(c) /\ ~Updating(c)
  BY <1>1 DEF CallSteps, At, Window, Making, Updating
<1>4. refs[w] = 2 \/ (refs[w] = 1 /\ refused /\ ~Recorded(w))
  BY <1>1, <1>3, MapAssumption DEF References, At
<1> HIDE DEF w
<1>5. /\ \A d \in Clients : call[d] \in Call /\ call'[d] = IF d = c THEN Idle ELSE call[d]
      /\ \A d \in Clients : pointer'[d] = IF d = c THEN w ELSE pointer[d]
      /\ \A d \in Clients : d # c =>
            /\ Window(d)' = Window(d)
            /\ Making(d)' <=> Making(d)
            /\ Updating(d)' <=> Updating(d)
      /\ Window(c)' = w /\ ~Making(c)' /\ ~Updating(c)'
      /\ call' \in [Clients -> Call] /\ pointer' \in [Clients -> Windows \cup {NoWindow}]
  <2>1. w \in Windows \cup {NoWindow}
    BY <1>3
  <2>2. /\ \A d \in Clients : call[d] \in Call /\ call'[d] = IF d = c THEN Idle ELSE call[d]
        /\ \A d \in Clients : pointer'[d] = IF d = c THEN w ELSE pointer[d]
        /\ \A d \in Clients : d # c =>
              /\ Window(d)' = Window(d)
              /\ Making(d)' <=> Making(d)
              /\ Updating(d)' <=> Updating(d)
        /\ Window(c)' = IF Idle.at = "idle" THEN w ELSE Idle.window
        /\ Making(c)' <=> Idle.at \in {"record", "recording", "release"}
        /\ Updating(c)' <=> Idle.at \in {"recording", "removing"}
        /\ call' \in [Clients -> Call] /\ pointer' \in [Clients -> Windows \cup {NoWindow}]
    <3>1. Moves(c, Idle, w)
      BY <1>1 DEF Moves
    <3> HIDE DEF MapInv
    <3>2. QED
      BY <1>2, <2>1, <3>1, CallMoves
  <2>3. QED
    BY <1>2, <2>2
<1>6. /\ \A v \in Windows : refs'[v] = IF v = w THEN refs[w] - 1 ELSE refs[v]
      /\ \A d \in Clients : memory'[d] = IF d = c THEN FALSE ELSE memory[d]
  BY <1>1, <1>3 DEF MapTypeOK
<1>7. \A v \in Windows : Recorded(v)' <=> Recorded(v)
  BY <1>1 DEF Recorded
<1>8. \A d \in Clients : d # c => Window(d) # w
  BY <1>3, MapAssumption DEF Ownership
<1>9. MapTypeOK'
  <2>1. refs' \in [Windows -> 0 .. 2]
    <3>1. \A v \in Windows : refs'[v] \in 0 .. 2
      BY <1>6, <1>4, <1>3 DEF MapTypeOK
    <3>2. refs' = [v \in Windows |-> refs'[v]]
      BY <1>1 DEF MapTypeOK
    <3>3. QED
      BY <3>1, <3>2
  <2>2. memory' \in [Clients -> BOOLEAN]
    BY <1>1 DEF MapTypeOK
  <2>3. QED
    BY <1>1, <1>5, <2>1, <2>2 DEF MapTypeOK, Call, Dictionary
<1>10. CallSteps'
  <2>1. NoEntries' = NoEntries
    BY DEF NoEntries
  <2>2. QED
    <3>1. \A d \in Clients : view'[d] = view[d]
      BY <1>1
    <3>2. \A d \in Clients \ {c} : call'[d] = call[d] /\ pointer'[d] = pointer[d] /\ memory'[d] = memory[d]
      BY <1>5, <1>6
    <3>3. call'[c] = Idle /\ ~memory'[c] /\ view'[c] = NoEntries
      BY <1>3, <1>5, <1>6, <3>1 DEF CallSteps
    <3>4. QED
      BY <1>2, <1>5, <2>1, <3>1, <3>2, <3>3 DEF CallSteps, At
<1>11. Ownership'
  BY <1>5, <1>8 DEF Ownership
<1>12. Expiry'
  BY <1>4, <1>6, <1>7 DEF Expiry
<1>13. References'
  <2>1. SUFFICES ASSUME NEW d \in Clients, Window(d)' # NoWindow, NEW v, v = Window(d)'
                 PROVE  /\ call'[d].at \in {"record", "recording"} => refs'[v] = 1 /\ ~Recorded(v)'
                        /\ At(d, "release")' => refs'[v] = 2 \/ (refs'[v] = 1 /\ refused' /\ ~Recorded(v)')
                        /\ call'[d].at \in {"unmap", "removing"} => refs'[v] = 1
                        /\ At(d, "idle")' => refs'[v] = 1 \/ (refs'[v] = 0 /\ refused')
    BY DEF References
  <2>2. CASE d = c
    BY <1>1, <1>2, <1>3, <1>4, <1>5, <1>6, <2>1, <2>2 DEF At
  <2>3. CASE d # c
    <3>1. v = Window(d) /\ v # w /\ v \in Windows
      BY <1>5, <1>8, <2>1, <2>3 DEF Window, At, Call, MapTypeOK
    <3>2. refs'[v] = refs[v] /\ (Recorded(v)' <=> Recorded(v)) /\ call'[d] = call[d]
      BY <1>5, <1>6, <1>7, <2>3, <3>1
    <3>3. QED
      BY <1>1, <2>1, <3>1, <3>2 DEF References, At
  <2>4. QED
    BY <2>2, <2>3
<1>14. Orderly'
  <2>1. SUFFICES ASSUME ~overlapped' PROVE Orderly'
    BY DEF Orderly
  <2>2. \A d \in Clients : Updating(d)' <=> Updating(d)
    BY <1>3, <1>5
  <2>3. /\ \A d, e \in Clients : Updating(d)' /\ Updating(e)' => d = e
        /\ \A d \in Clients : Updating(d)' => view'[d] = global_mapped_memory'
    BY <1>1, <2>1, <2>2 DEF Orderly
  <2>4. InCall(w) /\ \A v \in Windows : v = w => ~InCall(v)'
    <3>1. InCall(w)
      BY <1>3 DEF InCall, w
    <3>2. ASSUME NEW d \in Clients, Making(d)', call'[d].window = w PROVE FALSE
      <4>1. d # c /\ Making(d) /\ call[d].window = w
        BY <1>5, <3>2
      <4>2. Window(d) = w
        BY <4>1 DEF Window, Making, At
      <4>3. QED
        BY <1>8, <4>1, <4>2
    <3>3. QED
      BY <3>1, <3>2 DEF InCall
  <2>5. \A v \in Windows : v # w => (InCall(v)' <=> InCall(v))
    BY <1>3, <1>5 DEF InCall, w
  <2>6. \A d \in Clients : Window(d)' = Window(d)
    BY <1>3, <1>5
  <2>7. \A v \in Windows :
           /\ global_mapped_memory'[v] # "freed"
           /\ refs'[v] = (IF global_mapped_memory'[v] = "mapping" THEN 1 ELSE 0)
                          + (IF InCall(v)' THEN 1 ELSE 0)
           /\ refs'[v] > 0 => \E d \in Clients : Window(d)' = v
    BY <1>1, <1>3, <1>4, <1>6, <2>1, <2>4, <2>5, <2>6 DEF Orderly
  <2>8. QED
    BY <2>3, <2>7 DEF Orderly
<1>15. QED
  BY <1>9, <1>10, <1>11, <1>12, <1>13, <1>14

\* RemoveMap: the mapping goes with its entry, and what others have read expires.
LEMMA RemoveMapInv ==
    ASSUME MapInv, NEW c \in Clients, RemoveMap(c)
    PROVE  MapInv'
<1> DEFINE w == call[c].window
           Expired(e) == IF e[w] = "mapping" THEN [e EXCEPT ![w] = "freed"] ELSE e
<1> USE DEF MapInv
<1>1. PICK base \in Bases(c) :
         base[w] = "mapping" /\ global_mapped_memory' = [base EXCEPT ![w] = "none"]
  BY DEF RemoveMap
<1>2. /\ At(c, "removing") /\ call' = [call EXCEPT ![c] = Idle]
      /\ refs' = [refs EXCEPT ![w] = @ - 1]
      /\ view' = [d \in Clients |-> IF d = c THEN NoEntries ELSE Expired(view[d])]
      /\ UNCHANGED <<memory, pointer, overlapped, refused>>
  BY DEF RemoveMap, Return
<1>3. Idle \in Call /\ Idle.at = "idle" /\ Idle.window = NoWindow
  BY DEF Idle, Call
<1>4. pointer' = [pointer EXCEPT ![c] = NoWindow]
  BY <1>2 DEF MapTypeOK, CallSteps, At
<1>5. w \in Windows /\ Window(c) = w /\ ~Making(c) /\ Updating(c) /\ ~memory[c]
  BY <1>2 DEF CallSteps, At, Window, Making, Updating
<1>6. refs[w] = 1
  BY <1>2, <1>5, MapAssumption DEF References, At
<1>7. /\ \A d \in Clients : view'[d] = IF d = c THEN NoEntries ELSE Expired(view[d])
      /\ \A e \in Dictionary : Expired(e) \in Dictionary
      /\ \A e \in Dictionary : \A v \in Windows :
            Expired(e)[v] = IF v = w /\ e[v] = "mapping" THEN "freed" ELSE e[v]
  BY <1>2, <1>5 DEF Dictionary
<1> HIDE DEF w, Expired
<1>8. /\ \A d \in Clients : call[d] \in Call /\ call'[d] = IF d = c THEN Idle ELSE call[d]
      /\ \A d \in Clients : pointer'[d] = IF d = c THEN NoWindow ELSE pointer[d]
      /\ \A d \in Clients : d # c =>
            /\ Window(d)' = Window(d)
            /\ Making(d)' <=> Making(d)
            /\ Updating(d)' <=> Updating(d)
      /\ Window(c)' = NoWindow /\ ~Making(c)' /\ ~Updating(c)'
      /\ call' \in [Clients -> Call]
  <2>1. /\ \A d \in Clients : call[d] \in Call /\ call'[d] = IF d = c THEN Idle ELSE call[d]
        /\ \A d \in Clients : pointer'[d] = IF d = c THEN NoWindow ELSE pointer[d]
        /\ \A d \in Clients : d # c =>
              /\ Window(d)' = Window(d)
              /\ Making(d)' <=> Making(d)
              /\ Updating(d)' <=> Updating(d)
        /\ Window(c)' = IF Idle.at = "idle" THEN NoWindow ELSE Idle.window
        /\ Making(c)' <=> Idle.at \in {"record", "recording", "release"}
        /\ Updating(c)' <=> Idle.at \in {"recording", "removing"}
        /\ call' \in [Clients -> Call]
    <3>1. NoWindow \in Windows \cup {NoWindow} /\ Moves(c, Idle, NoWindow)
      BY <1>2, <1>4 DEF Moves
    <3> HIDE DEF MapInv
    <3>2. QED
      BY <1>3, <3>1, CallMoves
  <2>2. QED
    BY <1>3, <2>1
<1>9. \A v \in Windows : refs'[v] = IF v = w THEN 0 ELSE refs[v]
  BY <1>2, <1>6 DEF MapTypeOK
<1>10. base \in Dictionary /\ \A v \in Windows : base[v] = "mapping" => Recorded(v)
  BY DEF Bases, MapTypeOK, Recorded
<1>11. /\ global_mapped_memory' \in Dictionary
       /\ \A v \in Windows : global_mapped_memory'[v] = IF v = w THEN "none" ELSE base[v]
       /\ view' \in [Clients -> Dictionary]
  <2>1. NoEntries \in Dictionary
    BY DEF NoEntries, Dictionary
  <2>2. global_mapped_memory' \in Dictionary
        /\ \A v \in Windows : global_mapped_memory'[v] = IF v = w THEN "none" ELSE base[v]
    BY <1>1, <1>10 DEF Dictionary
  <2>3. \A d \in Clients : view'[d] \in Dictionary
    BY <1>7, <2>1 DEF MapTypeOK
  <2>4. view' \in [Clients -> Dictionary]
    BY <1>2, <2>3
  <2>5. QED
    BY <2>2, <2>4
<1>12. \A v \in Windows : Recorded(v)' => v # w /\ Recorded(v)
  <2>1. \A d \in Clients : view[d] \in Dictionary
    BY DEF MapTypeOK
  <2>2. \A d \in Clients : \A v \in Windows :
           view'[d][v] = "mapping" => v # w /\ view[d][v] = "mapping"
    BY <1>7, <2>1 DEF NoEntries
  <2>3. QED
    BY <1>5, <1>10, <1>11, <2>2 DEF Recorded
<1>13. \A d \in Clients : d # c => Window(d) # w
  BY <1>5, MapAssumption DEF Ownership
<1>14. MapTypeOK'
  <2>1. refs' \in [Windows -> 0 .. 2]
    <3>1. \A v \in Windows : refs'[v] \in 0 .. 2
      BY <1>9 DEF MapTypeOK
    <3>2. refs' = [v \in Windows |-> refs'[v]]
      BY <1>2 DEF MapTypeOK
    <3>3. QED
      BY <3>1, <3>2
  <2>2. QED
    BY <1>2, <1>8, <1>11, <2>1 DEF MapTypeOK, Call
<1>15. CallSteps'
  <2>1. NoEntries' = NoEntries /\ Expired(NoEntries) = NoEntries
    BY <1>5 DEF NoEntries, Expired
  <2>2. \A d \in Clients : ~Updating(d)' => view'[d] = NoEntries
    BY <1>7, <1>8, <2>1 DEF CallSteps
  <2>3. \A d \in Clients :
           /\ At(d, "idle")' => call'[d].window = NoWindow
           /\ ~At(d, "idle")' => pointer'[d] = NoWindow
           /\ At(d, "create")' => call'[d].window = NoWindow
           /\ call'[d].at \notin {"idle", "create"} => call'[d].window \in Windows
           /\ memory'[d] => At(d, "create")' \/ Making(d)'
    BY <1>2, <1>3, <1>5, <1>8 DEF CallSteps, At
  <2>4. QED
    BY <2>1, <2>2, <2>3 DEF CallSteps
<1>16. Ownership'
  BY <1>8 DEF Ownership
<1>17. Expiry'
  BY <1>9, <1>12 DEF Expiry
<1>18. References'
  <2>1. SUFFICES ASSUME NEW d \in Clients, Window(d)' # NoWindow, NEW v, v = Window(d)'
                 PROVE  /\ call'[d].at \in {"record", "recording"} => refs'[v] = 1 /\ ~Recorded(v)'
                        /\ At(d, "release")' => refs'[v] = 2 \/ (refs'[v] = 1 /\ refused' /\ ~Recorded(v)')
                        /\ call'[d].at \in {"unmap", "removing"} => refs'[v] = 1
                        /\ At(d, "idle")' => refs'[v] = 1 \/ (refs'[v] = 0 /\ refused')
    BY DEF References
  <2>2. d # c
    BY <1>8, <2>1
  <2>3. v = Window(d) /\ v # w /\ v \in Windows
    BY <1>8, <1>13, <2>1, <2>2 DEF Window, At, Call, MapTypeOK
  <2>4. refs'[v] = refs[v] /\ (Recorded(v)' => Recorded(v)) /\ call'[d] = call[d]
    BY <1>8, <1>9, <1>12, <2>2, <2>3
  <2>5. QED
    BY <1>2, <2>1, <2>3, <2>4 DEF References, At
<1>19. Orderly'
  <2>1. SUFFICES ASSUME ~overlapped' PROVE Orderly'
    BY DEF Orderly
  <2>2. base = global_mapped_memory /\ \A d \in Clients : Updating(d) => d = c
    BY <1>2, <1>5, <2>1 DEF Orderly, Bases
  <2>3. \A d \in Clients : ~Updating(d)'
    BY <1>8, <2>2
  <2>4. \A v \in Windows : InCall(v)' <=> InCall(v)
    BY <1>5, <1>8 DEF InCall
  <2>5. ~InCall(w)
    BY <1>5, <1>13 DEF InCall, Window, Making, At
  <2>6. \A v \in Windows : v # w =>
           ((\E d \in Clients : Window(d) = v) => \E d \in Clients : Window(d)' = v)
    BY <1>5, <1>8
  <2>7. \A v \in Windows :
           /\ global_mapped_memory'[v] # "freed"
           /\ refs'[v] = (IF global_mapped_memory'[v] = "mapping" THEN 1 ELSE 0)
                          + (IF InCall(v)' THEN 1 ELSE 0)
           /\ refs'[v] > 0 => \E d \in Clients : Window(d)' = v
    BY <1>2, <1>5, <1>9, <1>11, <2>1, <2>2, <2>4, <2>5, <2>6 DEF Orderly
  <2>8. QED
    BY <2>3, <2>7 DEF Orderly
<1>20. QED
  BY <1>14, <1>15, <1>16, <1>17, <1>18, <1>19

\* Every step of the mappings preserves the invariant.
LEMMA MapNextInv == ASSUME MapInv, MapNext PROVE MapInv'
<1>1. PICK c \in Clients : MapStep(c)
  BY DEF MapNext
<1>2. ~Faulting
  BY DEF MapNext
<1>3. CASE CopyMemory(c) \/ CreateMappingFails(c)
  BY <1>3, CopyMemoryInv, CreateMappingFailsInv
<1>4. ASSUME NEW w \in Windows, CreateMapping(c, w) PROVE MapInv'
  BY <1>2, <1>4, CreateMappingInv
<1>5. CASE BeginRecord(c) \/ BeginRemove(c)
  BY <1>5, BeginUpdateInv
<1>6. CASE RecordMap(c) \/ RecordMapFails(c) \/ ReleaseOwn(c)
  BY <1>6, RecordMapInv, RecordMapFailsInv, ReleaseOwnInv
<1>7. CASE FindMap(c) \/ FindNone(c)
  BY <1>2, <1>7, FindMapInv, FindNoneInv
<1>8. CASE RemoveMap(c) \/ RemoveNone(c)
  BY <1>8, RemoveMapInv, RemoveNoneInv
<1>9. QED
  BY <1>1, <1>3, <1>4, <1>5, <1>6, <1>7, <1>8 DEF MapStep

\* So does a step of another service.
LEMMA MapStutterInv == ASSUME MapInv, UNCHANGED mapVars PROVE MapInv'
<1> USE DEF MapInv, mapVars
<1>1. \A c \in Clients :
         /\ Window(c)' = Window(c)
         /\ Making(c)' <=> Making(c)
         /\ Updating(c)' <=> Updating(c)
  BY DEF Window, At, Making, Updating
<1>2. \A w : (Recorded(w)' <=> Recorded(w)) /\ (InCall(w)' <=> InCall(w))
  BY <1>1 DEF Recorded, InCall
<1>3. MapTypeOK'
  BY DEF MapTypeOK, Dictionary
<1>4. CallSteps' /\ Ownership'
  BY <1>1 DEF CallSteps, Ownership, At, NoEntries
<1>5. Expiry'
  BY <1>2 DEF Expiry
<1>6. References'
  BY <1>1, <1>2 DEF References, At
<1>7. Orderly'
  BY <1>1, <1>2 DEF Orderly
<1>8. QED
  BY <1>3, <1>4, <1>5, <1>6, <1>7

-----------------------------------------------------------------------------
(* What the invariant implies *)

\* A set with at most one element counts as none or one.
LEMMA AtMostOne ==
    ASSUME NEW S, \A x, y \in S : x = y
    PROVE  Cardinality(S) = IF S = {} THEN 0 ELSE 1
<1>1. CASE S = {}
  BY <1>1, FS_EmptySet
<1>2. CASE S # {}
  <2>1. PICK x \in S : TRUE
    BY <1>2
  <2>2. S = {x}
    BY <2>1
  <2>3. QED
    BY <1>2, <2>2, FS_Singleton
<1>3. QED
  BY <1>1, <1>2

\* Each mapping's references are its entry and the call that is making it.
LEMMA InvMapsAccountedFor == MapInv => MapsAccountedFor
<1> SUFFICES ASSUME MapInv PROVE MapsAccountedFor
  OBVIOUS
<1>1. \A c \in Clients : memory[c] => At(c, "create") \/ Making(c)
  BY DEF MapInv, CallSteps
<1>2. ASSUME ~overlapped, NEW w \in Windows
      PROVE  /\ global_mapped_memory[w] # "freed"
             /\ refs[w] = (IF global_mapped_memory[w] = "mapping" THEN 1 ELSE 0)
                          + Cardinality({c \in Clients : Making(c) /\ call[c].window = w})
             /\ refs[w] > 0 => \E c \in Clients : w \in {pointer[c], call[c].window}
  <2> DEFINE calls == {c \in Clients : Making(c) /\ call[c].window = w}
  <2>1. \A x, y \in calls : x = y
    BY MapAssumption DEF MapInv, Ownership, Window, Making, At
  <2>2. InCall(w) <=> calls # {}
    BY DEF InCall
  <2> HIDE DEF calls
  <2>3. Cardinality(calls) = IF calls = {} THEN 0 ELSE 1
    BY <2>1, AtMostOne
  <2>4. /\ global_mapped_memory[w] # "freed"
        /\ refs[w] = (IF global_mapped_memory[w] = "mapping" THEN 1 ELSE 0)
                      + (IF InCall(w) THEN 1 ELSE 0)
        /\ refs[w] > 0 => \E c \in Clients : Window(c) = w
    BY <1>2 DEF MapInv, Orderly
  <2>5. \A c \in Clients : Window(c) \in {pointer[c], call[c].window}
    BY DEF Window
  <2>6. refs[w] = (IF global_mapped_memory[w] = "mapping" THEN 1 ELSE 0) + Cardinality(calls)
    BY <2>2, <2>3, <2>4
  <2>7. QED
    BY <2>4, <2>5, <2>6 DEF calls
<1>3. QED
  BY <1>1, <1>2 DEF MapsAccountedFor

\* The mapping of a client's pointer has the reference that setObject took for the
\* client's entry, and as long as nothing overlaps it has the entry.
LEMMA InvPointerStaysMapped == MapInv => PointerStaysMapped
<1> SUFFICES ASSUME MapInv, ~refused, NEW c \in Clients, pointer[c] # NoWindow
             PROVE  /\ refs[pointer[c]] > 0
                    /\ ~overlapped => global_mapped_memory[pointer[c]] = "mapping"
  BY DEF PointerStaysMapped
<1> DEFINE w == pointer[c]
<1>1. w \in Windows /\ At(c, "idle") /\ Window(c) = w
  BY DEF MapInv, MapTypeOK, CallSteps, Window
<1>2. refs[w] = 1
  BY <1>1 DEF MapInv, References
<1>3. ~InCall(w)
  BY <1>1, MapAssumption DEF MapInv, Ownership, InCall, Making, Window, At
<1>4. ~overlapped => global_mapped_memory[w] = "mapping"
  BY <1>1, <1>2, <1>3 DEF MapInv, Orderly
<1>5. QED
  BY <1>2, <1>4

=============================================================================

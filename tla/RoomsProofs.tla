----------------------------- MODULE RoomsProofs ------------------------------
(***************************************************************************)
(* Proofs about Rooms for every set of processes and agents, every limit    *)
(* and log length, and any number of killed processes.                      *)
(*                                                                          *)
(* The argument: the lock file excludes every other call, so what a call    *)
(* has read is still what the files hold when it appends and rewrites; and  *)
(* a torn line implies that the lock belongs to a dead process for good, so *)
(* nothing is ever appended to it.                                          *)
(***************************************************************************)
EXTENDS Rooms, SequenceTheorems, TLAPS

Exclusion == \A p \in Procs : InsideLock(p) => lock = p

TornIsLocked == torn => lock \in Procs /\ proc[lock].at = "dead"

\* A call inside the lock acts for an agent, and what it read is current.
ReadIsCurrent ==
    \A p \in Procs :
        /\ proc[p].at \in {"waiting", "locked", "loaded", "posted"} =>
             proc[p].agent \in Agents /\ proc[p].tool \in Tools
        /\ proc[p].at = "loaded" => proc[p].lines = Len(log)
        /\ proc[p].at \in {"loaded", "posted"} =>
             proc[p].lastRead = agents[proc[p].agent].lastReadSeq

LockInv == RoomTypeOK /\ Exclusion /\ TornIsLocked /\ ReadIsCurrent /\ SeqFollowsFile

\* Only an agent is done.
DoneByAgents ==
    \A i \in 1..Len(log) : log[i].type = "job_done" => log[i].from \in Agents

IInv ==
    /\ LockInv
    /\ PostedIsInLog
    /\ CursorNeverSkips
    /\ DoneByAgents
    /\ DoneIsInformed

-------------------------------------------------------------------------------
LEMMA Typed ==
    ASSUME LockInv
    PROVE  /\ log \in Seq(Events) /\ Len(log) \in Nat
           /\ proc \in [Procs -> RoomCalls]
           /\ agents \in [Agents -> AgentRows]
           /\ handed \in [Agents -> SUBSET Nat]
           /\ \A p \in Procs : /\ proc[p] \in RoomCalls
                               /\ proc[p].lines \in Nat
                               /\ proc[p].lastRead \in Nat
           /\ \A a \in Agents : agents[a] \in AgentRows /\ agents[a].lastReadSeq \in Nat
           /\ \A i \in 1..Len(log) : log[i] \in Events
  BY DEF LockInv, RoomTypeOK, RoomCalls, AgentRows

LEMMA RestingCall ==
    ASSUME NEW place \in {"idle", "leaving", "dead"}
    PROVE  /\ Resting(place) \in RoomCalls
           /\ Resting(place).at = place
  BY DEF Resting, RoomCalls

\* The number a call gives to its event is the next line's.
LEMMA NextIsNext ==
    ASSUME LockInv, NEW lines, lines = Len(log)
    PROVE  NextSeq(lines) = Len(log) + 1
  <1>1. Len(log) \in Nat /\ \A i \in 1..Len(log) : log[i].seq = i
    BY Typed DEF LockInv, SeqFollowsFile
  <1> DEFINE Fits(n) == /\ \A i \in 1..lines : log[i].seq < n
                        /\ n = 1 \/ \E i \in 1..lines : log[i].seq = n - 1
  <1>2. Len(log) + 1 \in 1..(lines + 1) /\ Fits(Len(log) + 1)
    BY <1>1
  <1>3. \A n \in 1..(lines + 1) : Fits(n) => n = Len(log) + 1
    BY <1>1
  <1>4. NextSeq(lines) = CHOOSE n \in 1..(lines + 1) : Fits(n)
    BY DEF NextSeq
  <1> HIDE DEF Fits
  <1> QED
    BY <1>2, <1>3, <1>4

\* What Post does to a log that does not end in a torn line.
LEMMA PostAppends ==
    ASSUME LockInv, NEW event \in Events, event.seq = Len(log) + 1, ~torn, Post(event)
    PROVE  /\ log' \in Seq(Events)
           /\ Len(log') = Len(log) + 1
           /\ log'[Len(log')] = event
           /\ \A i \in 1..Len(log) : log'[i] = log[i]
           /\ torn' = FALSE
           /\ SeqFollowsFile'
  <1>1. log' = Append(log, event) /\ torn' = FALSE
    BY DEF Post
  <1>2. /\ log' \in Seq(Events)
        /\ Len(log') = Len(log) + 1
        /\ log'[Len(log) + 1] = event
        /\ \A i \in 1..Len(log) : log'[i] = log[i]
    BY <1>1, Typed, AppendProperties
  <1>3. SeqFollowsFile'
    <2>1. \A i \in 1..Len(log) : log[i].seq = i
      BY DEF LockInv, SeqFollowsFile
    <2>2. \A i \in 1..(Len(log) + 1) : log'[i].seq = i
      BY <1>2, <2>1, Typed
    <2> QED
      BY <1>2, <2>2 DEF SeqFollowsFile
  <1> QED
    BY <1>1, <1>2, <1>3, Typed

-------------------------------------------------------------------------------
(* What a step that moves one call leaves of the rest. *)

LEMMA BecomeCall ==
    ASSUME NEW p \in Procs, NEW call \in RoomCalls, proc \in [Procs -> RoomCalls],
           Become(p, call)
    PROVE  /\ proc' \in [Procs -> RoomCalls]
           /\ proc'[p] = call
           /\ \A q \in Procs : q # p => proc'[q] = proc[q]
  BY DEF Become

LEMMA MoveCall ==
    ASSUME NEW p \in Procs,
           NEW place \in {"locked", "posted"}, proc \in [Procs -> RoomCalls],
           Move(p, place)
    PROVE  /\ proc' \in [Procs -> RoomCalls]
           /\ proc'[p].at = place
           /\ proc'[p].tool = proc[p].tool
           /\ proc'[p].agent = proc[p].agent
           /\ proc'[p].lines = proc[p].lines
           /\ proc'[p].lastRead = proc[p].lastRead
           /\ \A q \in Procs : q # p => proc'[q] = proc[q]
  <1>1. proc[p] \in RoomCalls
    OBVIOUS
  <1>2. [proc[p] EXCEPT !.at = place] \in RoomCalls
    BY <1>1 DEF RoomCalls
  <1>3. proc' = [proc EXCEPT ![p] = [proc[p] EXCEPT !.at = place]]
    BY DEF Move
  <1> QED
    BY <1>1, <1>2, <1>3 DEF RoomCalls

\* A call inside the lock is the only one, and the log ends in a whole line.
LEMMA Alone ==
    ASSUME LockInv, NEW p \in Procs, InsideLock(p)
    PROVE  /\ lock = p
           /\ ~torn
           /\ \A q \in Procs : q # p => ~InsideLock(q)
  BY DEF LockInv, Exclusion, TornIsLocked, InsideLock

\* A step that touches neither file keeps what is said of the files alone.
LEMMA FilesKept ==
    ASSUME IInv, UNCHANGED <<log, agents, handed>>
    PROVE  SeqFollowsFile' /\ CursorNeverSkips' /\ DoneByAgents' /\ DoneIsInformed'
  BY DEF IInv, LockInv, SeqFollowsFile, CursorNeverSkips, DoneByAgents, DoneIsInformed

-------------------------------------------------------------------------------
(* Every action preserves the invariant. *)

LEMMA InitEstablishes == RoomInit => IInv
  <1> SUFFICES ASSUME RoomInit PROVE IInv
    OBVIOUS
  <1> USE RoomsAssumption DEF RoomInit
  <1>1. RoomTypeOK
    <2>1. <<>> \in Seq(Events) /\ NoAgent \in AgentRows /\ Resting("idle") \in RoomCalls
      BY EmptySeq, RestingCall DEF AgentRows, NoAgent
    <2>2. log \in Seq(Events) /\ agents \in [Agents -> AgentRows] /\ proc \in [Procs -> RoomCalls]
      BY <2>1
    <2>3. handed \in [Agents -> SUBSET Nat]
      OBVIOUS
    <2> QED
      BY <2>2, <2>3 DEF RoomTypeOK
  <1>2. \A p \in Procs : proc[p].at = "idle"
    BY RestingCall
  <1>3. Exclusion /\ TornIsLocked /\ ReadIsCurrent /\ PostedIsInLog
    BY <1>2 DEF Exclusion, InsideLock, TornIsLocked, ReadIsCurrent, PostedIsInLog
  <1>4. Len(log) = 0
    OBVIOUS
  <1>5. SeqFollowsFile /\ DoneByAgents /\ DoneIsInformed
    BY <1>4 DEF SeqFollowsFile, DoneByAgents, DoneIsInformed
  <1>6. CursorNeverSkips
    BY DEF CursorNeverSkips, NoAgent
  <1> QED
    BY <1>1, <1>3, <1>5, <1>6 DEF IInv, LockInv

LEMMA EnterPreserves ==
    ASSUME IInv, NEW p \in Procs, NEW tool \in Tools, NEW agent \in Agents,
           Enter(p, tool, agent)
    PROVE  IInv'
  <1> DEFINE call == [at |-> "waiting", tool |-> tool, agent |-> agent,
                      lines |-> 0, lastRead |-> 0]
  <1>1. LockInv /\ RoomTypeOK
    BY DEF IInv, LockInv
  <1>2. call \in RoomCalls /\ call.at = "waiting" /\ call.agent = agent /\ call.tool = tool
    BY DEF RoomCalls
  <1>3. /\ proc[p].at = "idle"
        /\ Become(p, call)
        /\ dir' \in BOOLEAN
        /\ UNCHANGED <<log, torn, agents, lock, handed, deaths>>
    BY <1>1 DEF Enter, RoomTypeOK
  <1> HIDE DEF call
  <1>4. /\ proc' \in [Procs -> RoomCalls]
        /\ proc'[p] = call
        /\ \A q \in Procs : q # p => proc'[q] = proc[q]
    BY <1>1, <1>2, <1>3, BecomeCall DEF RoomTypeOK
  <1>5. RoomTypeOK'
    BY <1>1, <1>3, <1>4 DEF RoomTypeOK
  <1>6. Exclusion' /\ TornIsLocked'
    BY <1>1, <1>2, <1>3, <1>4 DEF LockInv, Exclusion, InsideLock, TornIsLocked
  <1>7. ReadIsCurrent'
    BY <1>1, <1>2, <1>3, <1>4 DEF LockInv, ReadIsCurrent
  <1>8. PostedIsInLog'
    BY <1>2, <1>3, <1>4 DEF IInv, PostedIsInLog
  <1> QED
    BY <1>3, <1>5, <1>6, <1>7, <1>8, FilesKept DEF IInv, LockInv

LEMMA AcquireLockPreserves ==
    ASSUME IInv, NEW p \in Procs, AcquireLock(p)
    PROVE  IInv'
  <1>1. LockInv /\ RoomTypeOK
    BY DEF IInv, LockInv
  <1>2. /\ proc[p].at = "waiting" /\ lock = NoProc /\ lock' = p
        /\ Move(p, "locked")
        /\ UNCHANGED <<dir, log, torn, agents, handed, deaths>>
    BY DEF AcquireLock, LockIsFree
  <1>3. /\ proc' \in [Procs -> RoomCalls]
        /\ proc'[p].at = "locked"
        /\ proc'[p].tool = proc[p].tool
        /\ proc'[p].agent = proc[p].agent
        /\ \A q \in Procs : q # p => proc'[q] = proc[q]
    BY <1>1, <1>2, MoveCall DEF RoomTypeOK
  <1>4. \A q \in Procs : ~InsideLock(q)
    BY <1>1, <1>2, RoomsAssumption DEF LockInv, Exclusion
  <1>5. RoomTypeOK'
    BY <1>1, <1>2, <1>3 DEF RoomTypeOK
  <1>6. Exclusion'
    BY <1>2, <1>3, <1>4 DEF Exclusion, InsideLock
  <1>7. TornIsLocked'
    BY <1>1, <1>2, RoomsAssumption DEF LockInv, TornIsLocked
  <1>8. ReadIsCurrent'
    BY <1>1, <1>2, <1>3, <1>4 DEF LockInv, ReadIsCurrent, InsideLock
  <1>9. PostedIsInLog'
    BY <1>2, <1>3 DEF IInv, PostedIsInLog
  <1> QED
    BY <1>2, <1>5, <1>6, <1>7, <1>8, <1>9, FilesKept DEF IInv, LockInv

LEMMA LockTimeoutPreserves ==
    ASSUME IInv, NEW p \in Procs, LockTimeout(p)
    PROVE  IInv'
  <1>1. LockInv /\ RoomTypeOK
    BY DEF IInv, LockInv
  <1>2. /\ proc[p].at = "waiting"
        /\ Become(p, Resting("idle"))
        /\ UNCHANGED <<dir, log, torn, agents, lock, handed, deaths>>
    BY DEF LockTimeout
  <1>3. /\ proc' \in [Procs -> RoomCalls]
        /\ proc'[p].at = "idle"
        /\ \A q \in Procs : q # p => proc'[q] = proc[q]
    BY <1>1, <1>2, RestingCall, BecomeCall DEF RoomTypeOK
  <1>4. RoomTypeOK'
    BY <1>1, <1>2, <1>3 DEF RoomTypeOK
  <1>5. Exclusion' /\ TornIsLocked'
    BY <1>1, <1>2, <1>3 DEF LockInv, Exclusion, InsideLock, TornIsLocked
  <1>6. ReadIsCurrent' /\ PostedIsInLog'
    BY <1>1, <1>2, <1>3 DEF IInv, LockInv, ReadIsCurrent, PostedIsInLog
  <1> QED
    BY <1>2, <1>4, <1>5, <1>6, FilesKept DEF IInv, LockInv

LEMMA LeavePreserves ==
    ASSUME IInv, NEW p \in Procs, Leave(p)
    PROVE  IInv'
  <1>1. LockInv /\ RoomTypeOK
    BY DEF IInv, LockInv
  <1>2. /\ InsideLock(p) /\ lock' = NoProc
        /\ Become(p, Resting("idle"))
        /\ UNCHANGED <<dir, log, torn, agents, handed, deaths>>
    BY DEF Leave, InsideLock
  <1>3. /\ proc' \in [Procs -> RoomCalls]
        /\ proc'[p].at = "idle"
        /\ \A q \in Procs : q # p => proc'[q] = proc[q]
    BY <1>1, <1>2, RestingCall, BecomeCall DEF RoomTypeOK
  <1>4. ~torn /\ \A q \in Procs : q # p => ~InsideLock(q)
    BY <1>1, <1>2, Alone
  <1>5. RoomTypeOK'
    BY <1>1, <1>2, <1>3 DEF RoomTypeOK
  <1>6. Exclusion' /\ TornIsLocked'
    BY <1>2, <1>3, <1>4 DEF Exclusion, InsideLock, TornIsLocked
  <1>7. ReadIsCurrent' /\ PostedIsInLog'
    BY <1>1, <1>2, <1>3 DEF IInv, LockInv, ReadIsCurrent, PostedIsInLog
  <1> QED
    BY <1>2, <1>5, <1>6, <1>7, FilesKept DEF IInv, LockInv

\* A call that is done under the lock, whatever it did to the files.
LEMMA DoneUnderLock ==
    ASSUME IInv, NEW p \in Procs, InsideLock(p), Become(p, Resting("leaving")),
           lock' = lock, torn' = FALSE
    PROVE  /\ proc' \in [Procs -> RoomCalls]
           /\ Exclusion' /\ TornIsLocked' /\ ReadIsCurrent' /\ PostedIsInLog'
  <1>1. LockInv /\ RoomTypeOK
    BY DEF IInv, LockInv
  <1>2. /\ proc' \in [Procs -> RoomCalls]
        /\ proc'[p].at = "leaving"
        /\ \A q \in Procs : q # p => proc'[q] = proc[q]
    BY <1>1, RestingCall, BecomeCall DEF RoomTypeOK
  <1>3. lock = p /\ \A q \in Procs : q # p => ~InsideLock(q)
    BY <1>1, Alone
  <1>4. Exclusion' /\ TornIsLocked'
    BY <1>2, <1>3 DEF Exclusion, InsideLock, TornIsLocked
  <1>5. ReadIsCurrent' /\ PostedIsInLog'
    BY <1>1, <1>2, <1>3 DEF LockInv, ReadIsCurrent, PostedIsInLog, InsideLock
  <1> QED
    BY <1>2, <1>4, <1>5

LEMMA CreateRoomPreserves ==
    ASSUME IInv, NEW p \in Procs, CreateRoom(p)
    PROVE  IInv'
  <1>1. LockInv /\ RoomTypeOK
    BY DEF IInv, LockInv
  <1>2. InsideLock(p) /\ ~torn
    BY <1>1, Alone DEF CreateRoom, InsideLock
  <1>3. /\ Become(p, Resting("leaving"))
        /\ UNCHANGED <<dir, agents, lock, handed, deaths>>
    BY DEF CreateRoom
  <1> DEFINE first == [seq |-> 1, type |-> "room_created", from |-> Everyone,
                       to |-> Everyone, override |-> FALSE]
  <1>4. CASE EventsFileExists
    <2>1. UNCHANGED <<log, torn>>
      BY <1>4 DEF CreateRoom
    <2>2. torn' = FALSE
      BY <1>1, <1>2, <2>1 DEF RoomTypeOK
    <2>3. /\ proc' \in [Procs -> RoomCalls]
          /\ Exclusion' /\ TornIsLocked' /\ ReadIsCurrent' /\ PostedIsInLog'
      BY <1>2, <1>3, <2>2, DoneUnderLock
    <2>4. RoomTypeOK'
      BY <1>1, <1>3, <2>1, <2>3 DEF RoomTypeOK
    <2> QED
      BY <1>3, <2>1, <2>3, <2>4, FilesKept DEF IInv, LockInv
  <1>5. CASE ~EventsFileExists
    <2>1. Post(first) /\ log = <<>>
      BY <1>5 DEF CreateRoom, EventsFileExists
    <2>2. first \in Events /\ first.seq = 1 /\ first.type = "room_created"
      BY DEF Events
    <2> HIDE DEF first
    <2>3. Len(log) = 0
      BY <2>1
    <2>4. /\ log' \in Seq(Events) /\ Len(log') = 1 /\ log'[1] = first
          /\ torn' = FALSE /\ SeqFollowsFile'
      <3>1. first.seq = Len(log) + 1
        BY <2>2, <2>3
      <3> QED
        BY <1>1, <1>2, <2>1, <2>2, <2>3, <3>1, PostAppends
    <2>5. /\ proc' \in [Procs -> RoomCalls]
          /\ Exclusion' /\ TornIsLocked' /\ ReadIsCurrent' /\ PostedIsInLog'
      BY <1>2, <1>3, <2>4, DoneUnderLock
    <2>6. RoomTypeOK'
      BY <1>1, <1>3, <2>4, <2>5 DEF RoomTypeOK
    <2>7. CursorNeverSkips'
      BY <1>3 DEF IInv, CursorNeverSkips
    <2>8. \A i \in 1..Len(log') : log'[i].type # "job_done"
      BY <2>2, <2>4
    <2>9. DoneByAgents' /\ DoneIsInformed'
      BY <2>8 DEF DoneByAgents, DoneIsInformed
    <2> QED
      BY <2>4, <2>5, <2>6, <2>7, <2>9 DEF IInv, LockInv
  <1> QED
    BY <1>4, <1>5

LEMMA LoadPreserves ==
    ASSUME IInv, NEW p \in Procs, Load(p)
    PROVE  IInv'
  <1>1. LockInv /\ RoomTypeOK
    BY DEF IInv, LockInv
  <1> DEFINE call == [proc[p] EXCEPT !.at = "loaded", !.lines = Len(log),
                      !.lastRead = agents[proc[p].agent].lastReadSeq]
  <1>2. /\ proc[p].at = "locked"
        /\ Become(p, call)
        /\ UNCHANGED <<dir, log, torn, agents, lock, handed, deaths>>
    BY DEF Load
  <1>3. proc[p].agent \in Agents /\ proc[p].tool \in Tools
    BY <1>1, <1>2 DEF LockInv, ReadIsCurrent
  <1>4. Len(log) \in Nat /\ agents[proc[p].agent].lastReadSeq \in Nat /\ proc[p] \in RoomCalls
    BY <1>1, <1>3, Typed
  <1>5. /\ call \in RoomCalls
        /\ call.at = "loaded"
        /\ call.tool = proc[p].tool
        /\ call.agent = proc[p].agent
        /\ call.lines = Len(log)
        /\ call.lastRead = agents[proc[p].agent].lastReadSeq
    BY <1>4 DEF RoomCalls
  <1> HIDE DEF call
  <1>6. /\ proc' \in [Procs -> RoomCalls]
        /\ proc'[p] = call
        /\ \A q \in Procs : q # p => proc'[q] = proc[q]
    BY <1>1, <1>2, <1>5, BecomeCall DEF RoomTypeOK
  <1>7. lock = p /\ ~torn /\ \A q \in Procs : q # p => ~InsideLock(q)
    BY <1>1, <1>2, Alone DEF InsideLock
  <1>8. RoomTypeOK'
    BY <1>1, <1>2, <1>6 DEF RoomTypeOK
  <1>9. Exclusion' /\ TornIsLocked'
    BY <1>2, <1>6, <1>7 DEF Exclusion, InsideLock, TornIsLocked
  <1>10. ReadIsCurrent'
    BY <1>1, <1>2, <1>3, <1>5, <1>6 DEF LockInv, ReadIsCurrent
  <1>11. PostedIsInLog'
    BY <1>2, <1>5, <1>6 DEF IInv, PostedIsInLog
  <1> QED
    BY <1>2, <1>8, <1>9, <1>10, <1>11, FilesKept DEF IInv, LockInv

\* The append of room_job_start, room_send and room_job_done.
LEMMA PostUnderLock ==
    ASSUME IInv, NEW p \in Procs, proc[p].at = "loaded",
           NEW event \in Events, event.seq = NextSeq(proc[p].lines),
           event.from = proc[p].agent, Post(event), Move(p, "posted"),
           UNCHANGED <<dir, agents, lock, handed, deaths>>
    PROVE  /\ LockInv' /\ PostedIsInLog' /\ CursorNeverSkips' /\ DoneByAgents'
           /\ Len(log) \in Nat /\ Len(log') = Len(log) + 1
           /\ log'[Len(log')] = event
           /\ \A i \in 1..Len(log) : log'[i] = log[i]
           /\ proc[p].agent \in Agents
           /\ proc[p].lines = Len(log)
           /\ proc[p].lastRead = agents[proc[p].agent].lastReadSeq
  <1>1. LockInv /\ RoomTypeOK
    BY DEF IInv, LockInv
  <1>2. /\ proc[p].agent \in Agents /\ proc[p].tool \in Tools
        /\ proc[p].lines = Len(log)
        /\ proc[p].lastRead = agents[proc[p].agent].lastReadSeq
    BY <1>1 DEF LockInv, ReadIsCurrent
  <1>3. lock = p /\ ~torn /\ \A q \in Procs : q # p => ~InsideLock(q)
    BY <1>1, Alone DEF InsideLock
  <1>4. event.seq = Len(log) + 1
    BY <1>1, <1>2, NextIsNext
  <1>5. /\ log' \in Seq(Events)
        /\ Len(log') = Len(log) + 1
        /\ log'[Len(log')] = event
        /\ \A i \in 1..Len(log) : log'[i] = log[i]
        /\ torn' = FALSE
        /\ SeqFollowsFile'
    BY <1>1, <1>3, <1>4, PostAppends
  <1>6. /\ proc' \in [Procs -> RoomCalls]
        /\ proc'[p].at = "posted"
        /\ proc'[p].tool = proc[p].tool
        /\ proc'[p].agent = proc[p].agent
        /\ proc'[p].lines = proc[p].lines
        /\ proc'[p].lastRead = proc[p].lastRead
        /\ \A q \in Procs : q # p => proc'[q] = proc[q]
    BY <1>1, MoveCall DEF RoomTypeOK
  <1>7. RoomTypeOK'
    BY <1>1, <1>5, <1>6 DEF RoomTypeOK
  <1>8. Exclusion' /\ TornIsLocked'
    BY <1>3, <1>5, <1>6 DEF Exclusion, InsideLock, TornIsLocked
  <1>9. ReadIsCurrent'
    BY <1>1, <1>2, <1>3, <1>6 DEF LockInv, ReadIsCurrent, InsideLock
  <1>10. PostedIsInLog'
    BY <1>2, <1>3, <1>5, <1>6 DEF PostedIsInLog, InsideLock
  <1>11. CursorNeverSkips'
    BY DEF IInv, CursorNeverSkips
  <1>12. DoneByAgents'
    BY <1>1, <1>2, <1>5, Typed DEF IInv, DoneByAgents
  <1> QED
    BY <1>1, <1>2, <1>5, <1>7, <1>8, <1>9, <1>10, <1>11, <1>12, Typed DEF LockInv

LEMMA PostEventPreserves ==
    ASSUME IInv, NEW p \in Procs, PostEvent(p)
    PROVE  IInv'
  <1>1. PICK event : /\ event \in Events
                     /\ event.seq = NextSeq(proc[p].lines)
                     /\ event.from = proc[p].agent
                     /\ event.type # "job_done"
                     /\ Post(event)
    <2>1. LockInv /\ proc[p].at = "loaded"
      BY DEF IInv, PostEvent
    <2>2. proc[p].agent \in Agents /\ NextSeq(proc[p].lines) \in Nat
      BY <2>1, NextIsNext, Typed DEF LockInv, ReadIsCurrent
    <2>3. CASE proc[p].tool = "room_job_start"
      BY <2>2, <2>3 DEF PostEvent, Events
    <2>4. CASE proc[p].tool = "room_send"
      <3>1. PICK to \in Agents \cup {Everyone} :
               Post([seq |-> NextSeq(proc[p].lines), type |-> "message",
                     from |-> proc[p].agent, to |-> to, override |-> FALSE])
        BY <2>4 DEF PostEvent
      <3> QED
        BY <2>2, <3>1 DEF Events
    <2> QED
      BY <2>3, <2>4 DEF PostEvent
  <1>2. /\ proc[p].at = "loaded" /\ Move(p, "posted")
        /\ UNCHANGED <<dir, agents, lock, handed, deaths>>
    BY DEF PostEvent
  <1>3. /\ LockInv' /\ PostedIsInLog' /\ CursorNeverSkips' /\ DoneByAgents'
        /\ Len(log) \in Nat /\ Len(log') = Len(log) + 1
        /\ log'[Len(log')] = event
        /\ \A i \in 1..Len(log) : log'[i] = log[i]
    BY <1>1, <1>2, PostUnderLock
  <1>4. DoneIsInformed'
    <2> SUFFICES ASSUME NEW i \in 1..Len(log'),
                        log'[i].type = "job_done", ~log'[i].override,
                        NEW j \in 1..(i - 1),
                        IsMessageRelevantTo(log'[j], log'[i].from)
                 PROVE  log'[j].seq \in handed'[log'[i].from]
      BY DEF DoneIsInformed, IsMessageRelevantTo
    <2>1. i \in 1..Len(log) /\ j \in 1..Len(log)
      BY <1>1, <1>3
    <2> QED
      BY <1>2, <1>3, <2>1 DEF IInv, DoneIsInformed
  <1> QED
    BY <1>3, <1>4 DEF IInv

LEMMA PostJobDonePreserves ==
    ASSUME IInv, NEW p \in Procs, NEW allowUnread \in BOOLEAN, PostJobDone(p, allowUnread)
    PROVE  IInv'
  <1> DEFINE event == [seq |-> NextSeq(proc[p].lines), type |-> "job_done",
                       from |-> proc[p].agent, to |-> Everyone, override |-> allowUnread]
             agent == proc[p].agent
  <1>1. LockInv /\ proc[p].at = "loaded"
    BY DEF IInv, PostJobDone
  <1>2. agent \in Agents /\ NextSeq(proc[p].lines) \in Nat
    BY <1>1, NextIsNext, Typed DEF LockInv, ReadIsCurrent
  <1>3. /\ event \in Events /\ event.seq = NextSeq(proc[p].lines)
        /\ event.from = agent /\ event.override = allowUnread
    BY <1>2 DEF Events
  <1>4. /\ Post(event) /\ Move(p, "posted")
        /\ UnreadRelevant(p) = {} \/ allowUnread
        /\ UNCHANGED <<dir, agents, lock, handed, deaths>>
    BY DEF PostJobDone
  <1> HIDE DEF event
  <1>5. /\ LockInv' /\ PostedIsInLog' /\ CursorNeverSkips' /\ DoneByAgents'
        /\ Len(log) \in Nat /\ Len(log') = Len(log) + 1
        /\ log'[Len(log')] = event
        /\ \A i \in 1..Len(log) : log'[i] = log[i]
        /\ proc[p].lines = Len(log)
        /\ proc[p].lastRead = agents[agent].lastReadSeq
    BY <1>1, <1>3, <1>4, PostUnderLock
  <1>6. DoneIsInformed'
    <2> SUFFICES ASSUME NEW i \in 1..Len(log'),
                        log'[i].type = "job_done", ~log'[i].override,
                        NEW j \in 1..(i - 1),
                        IsMessageRelevantTo(log'[j], log'[i].from)
                 PROVE  log'[j].seq \in handed'[log'[i].from]
      BY DEF DoneIsInformed, IsMessageRelevantTo
    <2>1. j \in 1..Len(log) /\ log'[j] = log[j]
      BY <1>5
    <2>2. CASE i \in 1..Len(log)
      BY <1>4, <1>5, <2>1, <2>2 DEF IInv, DoneIsInformed
    <2>3. CASE i = Len(log')
      <3>1. log'[i] = event /\ ~allowUnread /\ log'[i].from = agent
        BY <1>3, <1>5, <2>3
      <3>2. ~(log[j].seq > proc[p].lastRead)
        BY <1>4, <1>5, <2>1, <3>1 DEF UnreadRelevant
      <3>3. log[j].seq = j
        BY <1>1, <2>1 DEF LockInv, SeqFollowsFile
      <3>4. j \in 1..agents[agent].lastReadSeq
        BY <1>1, <1>2, <1>5, <2>1, <3>2, <3>3, Typed
      <3>5. j \in handed[agent]
        BY <1>2, <3>4 DEF IInv, CursorNeverSkips
      <3> QED
        BY <1>4, <2>1, <3>1, <3>3, <3>5
    <2> QED
      BY <1>5, <2>2, <2>3
  <1> QED
    BY <1>5, <1>6 DEF IInv

LEMMA RefuseJobDonePreserves ==
    ASSUME IInv, NEW p \in Procs, RefuseJobDone(p)
    PROVE  IInv'
  <1>1. /\ LockInv /\ RoomTypeOK /\ InsideLock(p) /\ Become(p, Resting("leaving"))
        /\ UNCHANGED <<dir, log, torn, agents, lock, handed, deaths>>
    BY DEF IInv, LockInv, RefuseJobDone, InsideLock
  <1>2. torn' = FALSE
    BY <1>1, Alone DEF RoomTypeOK
  <1>3. /\ proc' \in [Procs -> RoomCalls]
        /\ Exclusion' /\ TornIsLocked' /\ ReadIsCurrent' /\ PostedIsInLog'
    BY <1>1, <1>2, DoneUnderLock
  <1>4. RoomTypeOK'
    BY <1>1, <1>3 DEF RoomTypeOK
  <1> QED
    BY <1>1, <1>3, <1>4, FilesKept DEF IInv, LockInv

\* A rewritten table changes the row of one agent.
LEMMA RowOfOneAgent ==
    ASSUME RoomTypeOK, NEW agent \in Agents, NEW row \in AgentRows,
           agents' = [agents EXCEPT ![agent] = row]
    PROVE  /\ agents' \in [Agents -> AgentRows]
           /\ agents'[agent] = row
           /\ \A a \in Agents : a # agent => agents'[a] = agents[a]
  BY DEF RoomTypeOK

LEMMA SaveAgentKeepsCursors ==
    ASSUME LockInv, NEW p \in Procs, SaveAgent(p)
    PROVE  /\ agents' \in [Agents -> AgentRows]
           /\ \A a \in Agents : agents'[a].lastReadSeq = agents[a].lastReadSeq
  <1> DEFINE old == agents[proc[p].agent]
             status == CASE proc[p].tool = "room_job_start" -> "active"
                         [] proc[p].tool = "room_job_done" -> "done"
                         [] old.status = "absent" -> "active"
                         [] OTHER -> old.status
             row == [status |-> status, lastReadSeq |-> proc[p].lastRead]
  <1>1. /\ proc[p].at = "posted"
        /\ agents' = [agents EXCEPT ![proc[p].agent] = row]
    BY DEF SaveAgent
  <1>2. /\ proc[p].agent \in Agents
        /\ proc[p].lastRead = agents[proc[p].agent].lastReadSeq
        /\ proc[p].lastRead \in Nat
        /\ old.status \in {"absent", "active", "done"}
    BY <1>1, Typed DEF LockInv, ReadIsCurrent, AgentRows
  <1>3. status \in {"absent", "active", "done"}
    BY <1>2
  <1> HIDE DEF status
  <1>4. row \in AgentRows /\ row.lastReadSeq = agents[proc[p].agent].lastReadSeq
    BY <1>2, <1>3 DEF AgentRows
  <1> HIDE DEF row
  <1> QED
    BY <1>1, <1>2, <1>4, RowOfOneAgent DEF LockInv

LEMMA SaveAgentPreserves ==
    ASSUME IInv, NEW p \in Procs, SaveAgent(p)
    PROVE  IInv'
  <1>1. /\ LockInv /\ RoomTypeOK /\ InsideLock(p) /\ Become(p, Resting("leaving"))
        /\ UNCHANGED <<dir, log, torn, lock, handed, deaths>>
    BY DEF IInv, LockInv, SaveAgent, InsideLock
  <1>2. torn' = FALSE
    BY <1>1, Alone DEF RoomTypeOK
  <1>3. /\ proc' \in [Procs -> RoomCalls]
        /\ Exclusion' /\ TornIsLocked' /\ ReadIsCurrent' /\ PostedIsInLog'
    BY <1>1, <1>2, DoneUnderLock
  <1>4. /\ agents' \in [Agents -> AgentRows]
        /\ \A a \in Agents : agents'[a].lastReadSeq = agents[a].lastReadSeq
    BY <1>1, SaveAgentKeepsCursors
  <1>5. RoomTypeOK'
    BY <1>1, <1>3, <1>4 DEF RoomTypeOK
  <1>6. CursorNeverSkips'
    BY <1>1, <1>4 DEF IInv, CursorNeverSkips
  <1>7. SeqFollowsFile' /\ DoneByAgents' /\ DoneIsInformed'
    BY <1>1 DEF IInv, LockInv, SeqFollowsFile, DoneByAgents, DoneIsInformed
  <1> QED
    BY <1>3, <1>5, <1>6, <1>7 DEF IInv, LockInv

\* room_read returns the numbers after the cursor, at most `limit` of them.
LEMMA ReturnedSeqs ==
    ASSUME LockInv, NEW p \in Procs, proc[p].at = "loaded",
           NEW after \in 0..MaxEvents, NEW limit \in Limits
    PROVE  {log[i].seq : i \in Returned(p, after, limit)} =
           {i \in 1..Len(log) : after < i /\ i <= after + limit}
  <1>1. /\ Len(log) \in Nat /\ after \in Nat /\ limit \in Nat \ {0}
        /\ proc[p].lines = Len(log)
        /\ \A i \in 1..Len(log) : log[i].seq = i
    BY Typed, RoomsAssumption DEF LockInv, ReadIsCurrent, SeqFollowsFile
  <1>2. ASSUME NEW i \in 1..Len(log)
        PROVE  i \in Returned(p, after, limit) <=> after < i /\ i <= after + limit
    <2>1. CASE i <= after + limit
      BY <1>1, <2>1 DEF Returned
    <2>2. CASE i > after + limit
      <3> DEFINE j == i - limit
      <3>1. j \in 1..Len(log) /\ j <= i - limit /\ ~(j <= after)
        BY <1>1, <2>2
      <3> HIDE DEF j
      <3>2. log[j].seq = j
        BY <1>1, <3>1
      <3>3. i \notin Returned(p, after, limit)
        BY <1>1, <3>1, <3>2 DEF Returned
      <3> QED
        BY <1>1, <2>2, <3>3
    <2> QED
      BY <1>1, <2>1, <2>2
  <1>3. Returned(p, after, limit) \subseteq 1..Len(log)
    BY <1>1 DEF Returned
  <1> QED
    BY <1>1, <1>2, <1>3

\* The cursor moves forward, to a number returned if it moves.
LEMMA AdvancedCursor ==
    ASSUME NEW p \in Procs, proc[p].lastRead \in Nat,
           NEW length \in Nat, NEW after \in Nat, NEW limit \in Nat,
           NEW seqs, \A i : i \in seqs <=> i \in 1..length /\ after < i /\ i <= after + limit
    PROVE  /\ CursorAfter(p, seqs) \in seqs \cup {proc[p].lastRead}
           /\ CursorAfter(p, seqs) \in Nat
           /\ CursorAfter(p, seqs) >= proc[p].lastRead
  <1> DEFINE all == seqs \cup {proc[p].lastRead}
             Largest(n) == \A m \in all : m <= n
             top == IF length <= after + limit THEN length ELSE after + limit
  <1>1. \E n \in all : Largest(n)
    <2>1. CASE top \in seqs /\ top > proc[p].lastRead
      BY <2>1
    <2>2. CASE ~(top \in seqs /\ top > proc[p].lastRead)
      BY <2>2
    <2> QED
      BY <2>1, <2>2
  <1>2. CursorAfter(p, seqs) = CHOOSE n \in all : Largest(n)
    BY DEF CursorAfter
  <1>3. all \subseteq Nat
    OBVIOUS
  <1>4. CursorAfter(p, seqs) \in all /\ Largest(CursorAfter(p, seqs))
    <2> HIDE DEF all, Largest
    <2> QED
      BY <1>1, <1>2
  <1> QED
    BY <1>3, <1>4

\* What room_read does to the table and to the history.
LEMMA ReadEventsFiles ==
    ASSUME IInv, NEW p \in Procs, NEW after \in 0..MaxEvents,
           NEW markRead \in BOOLEAN, NEW limit \in Limits,
           ReadEvents(p, after, markRead, limit)
    PROVE  /\ agents' \in [Agents -> AgentRows]
           /\ handed' \in [Agents -> SUBSET Nat]
           /\ \A a \in Agents : agents'[a].lastReadSeq >= agents[a].lastReadSeq
           /\ \A a \in Agents : handed[a] \subseteq handed'[a]
           /\ CursorNeverSkips'
  <1> DEFINE agent == proc[p].agent
             seqs == {log[i].seq : i \in Returned(p, after, limit)}
             status == IF agents[agent].status = "absent" THEN "active"
                       ELSE agents[agent].status
             row == [status |-> status, lastReadSeq |-> CursorAfter(p, seqs)]
  <1>1. /\ LockInv /\ RoomTypeOK /\ proc[p].at = "loaded" /\ CursorNeverSkips
        /\ Len(log) \in Nat /\ after \in Nat /\ limit \in Nat
    BY Typed, RoomsAssumption DEF IInv, LockInv, ReadEvents
  <1>2. /\ agent \in Agents
        /\ proc[p].lastRead = agents[agent].lastReadSeq
        /\ proc[p].lastRead \in Nat
        /\ agents[agent].status \in {"absent", "active", "done"}
    BY <1>1, Typed DEF LockInv, ReadIsCurrent, AgentRows
  <1>3. seqs = {i \in 1..Len(log) : after < i /\ i <= after + limit}
    BY <1>1, ReturnedSeqs
  <1>4. /\ \/ markRead /\ MayMark(p, after) /\ agents' = [agents EXCEPT ![agent] = row]
           \/ agents' = agents
        /\ \/ markRead /\ ~MayMark(p, after) /\ handed' = handed
           \/ handed' = [handed EXCEPT ![agent] = @ \cup seqs]
    BY DEF ReadEvents
  <1>5. seqs \in SUBSET Nat
    BY <1>1, <1>3
  <1> HIDE DEF seqs
  <1>6. /\ CursorAfter(p, seqs) \in seqs \cup {proc[p].lastRead}
        /\ CursorAfter(p, seqs) \in Nat
        /\ CursorAfter(p, seqs) >= proc[p].lastRead
    <2>1. \A i : i \in seqs <=> i \in 1..Len(log) /\ after < i /\ i <= after + limit
      BY <1>3
    <2> QED
      BY <1>1, <1>2, <2>1, AdvancedCursor
  <1>7. status \in {"absent", "active", "done"}
    BY <1>2
  <1> HIDE DEF status
  <1>8. row \in AgentRows /\ row.lastReadSeq = CursorAfter(p, seqs)
    BY <1>6, <1>7 DEF AgentRows
  <1> HIDE DEF row
  <1>9. /\ handed' \in [Agents -> SUBSET Nat]
        /\ \A a \in Agents : handed[a] \subseteq handed'[a]
    BY <1>1, <1>2, <1>4, <1>5 DEF RoomTypeOK
  <1>10. CASE agents' = agents
    BY <1>1, <1>9, <1>10, Typed DEF CursorNeverSkips, RoomTypeOK
  <1>11. CASE markRead /\ MayMark(p, after) /\ agents' = [agents EXCEPT ![agent] = row]
    <2>1. /\ agents' \in [Agents -> AgentRows]
          /\ agents'[agent] = row
          /\ \A a \in Agents : a # agent => agents'[a] = agents[a]
      BY <1>1, <1>2, <1>8, <1>11, RowOfOneAgent
    <2>2. \A a \in Agents : agents'[a].lastReadSeq >= agents[a].lastReadSeq
      BY <1>1, <1>2, <1>6, <1>8, <2>1, Typed
    <2>3. handed'[agent] = handed[agent] \cup seqs
      BY <1>1, <1>2, <1>4, <1>11 DEF RoomTypeOK
    <2>4. 1..CursorAfter(p, seqs) \subseteq handed[agent] \cup seqs
      <3> SUFFICES ASSUME NEW k \in 1..CursorAfter(p, seqs), k \notin handed[agent]
                   PROVE  k \in seqs
        OBVIOUS
      <3>1. k > proc[p].lastRead /\ after <= proc[p].lastRead
        BY <1>1, <1>2, <1>6, <1>11 DEF CursorNeverSkips, MayMark
      <3>2. CursorAfter(p, seqs) \in seqs
        BY <1>2, <1>6, <3>1
      <3> QED
        BY <1>1, <1>2, <1>3, <1>6, <3>1, <3>2
    <2>5. CursorNeverSkips'
      BY <1>1, <1>8, <1>9, <2>1, <2>3, <2>4 DEF CursorNeverSkips
    <2> QED
      BY <1>9, <2>1, <2>2, <2>5
  <1> QED
    BY <1>4, <1>10, <1>11

LEMMA ReadEventsPreserves ==
    ASSUME IInv, NEW p \in Procs, NEW after \in 0..MaxEvents,
           NEW markRead \in BOOLEAN, NEW limit \in Limits,
           ReadEvents(p, after, markRead, limit)
    PROVE  IInv'
  <1>1. /\ LockInv /\ RoomTypeOK /\ InsideLock(p) /\ Become(p, Resting("leaving"))
        /\ UNCHANGED <<dir, log, torn, lock, deaths>>
    BY DEF IInv, LockInv, ReadEvents, InsideLock
  <1>2. torn' = FALSE
    BY <1>1, Alone DEF RoomTypeOK
  <1>3. /\ proc' \in [Procs -> RoomCalls]
        /\ Exclusion' /\ TornIsLocked' /\ ReadIsCurrent' /\ PostedIsInLog'
    BY <1>1, <1>2, DoneUnderLock
  <1>4. /\ agents' \in [Agents -> AgentRows]
        /\ handed' \in [Agents -> SUBSET Nat]
        /\ \A a \in Agents : handed[a] \subseteq handed'[a]
        /\ CursorNeverSkips'
    BY ReadEventsFiles
  <1>5. RoomTypeOK'
    BY <1>1, <1>3, <1>4 DEF RoomTypeOK
  <1>6. SeqFollowsFile' /\ DoneByAgents'
    BY <1>1 DEF IInv, LockInv, SeqFollowsFile, DoneByAgents
  <1>7. DoneIsInformed'
    BY <1>1, <1>4 DEF IInv, DoneByAgents, DoneIsInformed
  <1> QED
    BY <1>3, <1>4, <1>5, <1>6, <1>7 DEF IInv, LockInv

LEMMA DiePreserves ==
    ASSUME IInv, NEW p \in Procs, RoomDie(p)
    PROVE  IInv'
  <1>1. /\ LockInv /\ RoomTypeOK
        /\ proc[p].at # "dead"
        /\ deaths' = deaths + 1
        /\ Become(p, Resting("dead"))
        /\ UNCHANGED <<dir, log, lock, handed>>
    BY DEF IInv, LockInv, RoomDie
  <1>2. /\ proc' \in [Procs -> RoomCalls]
        /\ proc'[p].at = "dead"
        /\ \A q \in Procs : q # p => proc'[q] = proc[q]
    BY <1>1, RestingCall, BecomeCall DEF RoomTypeOK
  <1>3. \/ UNCHANGED <<torn, agents>>
        \/ InsideLock(p) /\ torn' = TRUE /\ agents' = agents
        \/ InsideLock(p) /\ agents' = [a \in Agents |-> NoAgent] /\ torn' = torn
    BY DEF RoomDie, Appending, RewritingAgents, InsideLock
  <1>4. InsideLock(p) => lock = p /\ \A q \in Procs : q # p => ~InsideLock(q)
    BY <1>1, Alone
  <1>5. RoomTypeOK'
    <2>1. NoAgent \in AgentRows
      BY DEF NoAgent, AgentRows
    <2>2. agents' \in [Agents -> AgentRows] /\ torn' \in BOOLEAN
      BY <1>1, <1>3, <2>1 DEF RoomTypeOK
    <2> QED
      BY <1>1, <1>2, <2>2 DEF RoomTypeOK
  <1>6. Exclusion' /\ TornIsLocked'
    BY <1>1, <1>2, <1>3, <1>4 DEF LockInv, Exclusion, InsideLock, TornIsLocked
  <1>7. ReadIsCurrent'
    BY <1>1, <1>2, <1>3, <1>4 DEF LockInv, ReadIsCurrent, InsideLock
  <1>8. PostedIsInLog'
    BY <1>1, <1>2 DEF IInv, PostedIsInLog
  <1>9. CursorNeverSkips'
    BY <1>1, <1>3 DEF IInv, CursorNeverSkips, NoAgent
  <1>10. SeqFollowsFile' /\ DoneByAgents' /\ DoneIsInformed'
    BY <1>1 DEF IInv, LockInv, SeqFollowsFile, DoneByAgents, DoneIsInformed
  <1> QED
    BY <1>5, <1>6, <1>7, <1>8, <1>9, <1>10 DEF IInv, LockInv

LEMMA StutterPreserves ==
    ASSUME IInv, UNCHANGED roomVars
    PROVE  IInv'
  BY DEF roomVars, IInv, LockInv, RoomTypeOK, Exclusion, InsideLock, TornIsLocked, ReadIsCurrent,
         SeqFollowsFile, PostedIsInLog, CursorNeverSkips, DoneByAgents, DoneIsInformed,
         IsMessageRelevantTo

-------------------------------------------------------------------------------
\* What the theorems below rest on holds always.
THEOREM Invariance == RoomSpec => []IInv
  <1>1. IInv /\ [RoomNext]_roomVars => IInv'
    <2> SUFFICES ASSUME IInv, [RoomNext]_roomVars PROVE IInv'
      OBVIOUS
    <2>1. CASE UNCHANGED roomVars
      BY <2>1, StutterPreserves
    <2>2. CASE RoomNext
      <3>1. PICK p \in Procs : \/ \E tool \in Tools, agent \in Agents : Enter(p, tool, agent)
                               \/ CallStep(p)
                               \/ RoomDie(p)
        BY <2>2 DEF RoomNext
      <3>2. CASE \E tool \in Tools, agent \in Agents : Enter(p, tool, agent)
        BY <3>2, EnterPreserves
      <3>3. CASE CallStep(p)
        BY <3>3, AcquireLockPreserves, LockTimeoutPreserves, CreateRoomPreserves,
           LoadPreserves, PostEventPreserves, PostJobDonePreserves, RefuseJobDonePreserves,
           SaveAgentPreserves, ReadEventsPreserves, LeavePreserves DEF CallStep
      <3>4. CASE RoomDie(p)
        BY <3>4, DiePreserves
      <3> QED
        BY <3>1, <3>2, <3>3, <3>4
    <2> QED
      BY <2>1, <2>2
  <1> QED
    BY <1>1, InitEstablishes, PTL DEF RoomSpec

\* The files and the calls stay what the code makes them (rooms/types.ts).
THEOREM Typing == RoomSpec => []RoomTypeOK
  <1>1. IInv => RoomTypeOK
    BY DEF IInv, LockInv
  <1> QED
    BY <1>1, Invariance, PTL

\* The events are numbered in the order of the file, without a gap (nextSeq,
\* appendEventLine under withRoomLock).
THEOREM MonotonicSeq == RoomSpec => []SeqFollowsFile
  <1>1. IInv => SeqFollowsFile
    BY DEF IInv, LockInv
  <1> QED
    BY <1>1, Invariance, PTL

\* A call that goes on after its append has its event in the log: no append is
\* glued to a line a killed process left torn (appendEventLine).
THEOREM NoLostPost == RoomSpec => []PostedIsInLog
  <1>1. IInv => PostedIsInLog
    BY DEF IInv
  <1> QED
    BY <1>1, Invariance, PTL

\* Every event up to an agent's cursor was returned to that agent (room_read).
THEOREM NoSkippedEvent == RoomSpec => []CursorNeverSkips
  <1>1. IInv => CursorNeverSkips
    BY DEF IInv
  <1> QED
    BY <1>1, Invariance, PTL

\* An agent that is done without allowUnread was handed every message relevant
\* to it (room_job_done).
THEOREM InformedDone == RoomSpec => []DoneIsInformed
  <1>1. IInv => DoneIsInformed
    BY DEF IInv
  <1> QED
    BY <1>1, Invariance, PTL

\* No tool call moves a cursor back; only a kill within the rewrite of the
\* table does, and then nobody gets the lock again (room_read, room_send).
THEOREM AdvancingCursors == RoomSpec => CursorsOnlyAdvance
  <1> DEFINE Step == \A a \in Agents :
                        agents'[a].lastReadSeq < agents[a].lastReadSeq =>
                            \E p \in Procs : lock = p /\ lock' = p /\ proc'[p].at = "dead"
  <1>1. ASSUME IInv, IInv', [RoomNext]_roomVars PROVE Step
    <2>1. \A a \in Agents : agents[a].lastReadSeq \in Nat
      BY <1>1, Typed DEF IInv
    <2>2. CASE agents' = agents
      BY <2>1, <2>2
    <2>3. CASE \E p \in Procs : SaveAgent(p)
      BY <1>1, <2>1, <2>3, SaveAgentKeepsCursors DEF IInv
    <2>4. CASE \E p \in Procs, after \in 0..MaxEvents, markRead \in BOOLEAN, limit \in Limits :
                 ReadEvents(p, after, markRead, limit)
      <3>1. \A a \in Agents : agents'[a].lastReadSeq >= agents[a].lastReadSeq
        BY <1>1, <2>4, ReadEventsFiles
      <3>2. \A a \in Agents : agents'[a].lastReadSeq \in Nat
        BY <1>1 DEF IInv, LockInv, RoomTypeOK, AgentRows
      <3> QED
        BY <2>1, <3>1, <3>2
    <2>5. CASE \E p \in Procs : RoomDie(p) /\ RewritingAgents(p)
      <3>1. PICK p \in Procs : RoomDie(p) /\ RewritingAgents(p)
        BY <2>5
      <3>2. lock = p
        BY <1>1, <3>1, Alone DEF IInv, RewritingAgents, InsideLock
      <3>3. lock' = lock /\ Become(p, Resting("dead")) /\ proc \in [Procs -> RoomCalls]
        BY <1>1, <3>1 DEF RoomDie, IInv, LockInv, RoomTypeOK
      <3>4. proc'[p].at = "dead"
        BY <3>3, RestingCall, BecomeCall
      <3> QED
        BY <3>2, <3>3, <3>4
    <2> QED
      BY <1>1, <2>2, <2>3, <2>4, <2>5
      DEF RoomNext, roomVars, CallStep, Enter, AcquireLock, LockTimeout, CreateRoom, Load, PostEvent,
          PostJobDone, RefuseJobDone, Leave, RoomDie
  <1>2. CursorsOnlyAdvance <=> [][Step]_roomVars
    BY DEF CursorsOnlyAdvance
  <1> QED
    BY <1>1, <1>2, Invariance, PTL DEF RoomSpec

===============================================================================

--------------------------------- MODULE Rooms ---------------------------------
(***************************************************************************)
(* One workflow room (extensions/workflow/rooms): an append-only log of     *)
(* numbered events and a table of agents with their read cursors, two files *)
(* that the pi processes of a workflow share.  A tool call takes the lock   *)
(* file, reads, appends, rewrites the table and removes the lock file; the  *)
(* calls of different processes interleave between those accesses, a call   *)
(* that waits too long for the lock fails, and a process may be killed      *)
(* anywhere: a headless delegate past its timeout is.                       *)
(*                                                                          *)
(* Abstracted: the text of an event, the role and the time stamps.  The log *)
(* is append-only, so what a call has read of it is a number of lines.      *)
(* room_status reads without the lock and changes nothing: it is left out.  *)
(* Choosing the room (parameter, environment, current.json) comes before    *)
(* all of this and is left out as well.                                     *)
(***************************************************************************)
EXTENDS Integers, Sequences, FiniteSets

CONSTANTS
    Procs,          \* the pi processes
    Agents,         \* the agent ids they act as; an id may be shared
    Everyone,       \* the addressee of a broadcast
    NoProc,         \* holder of a lock that is free
    Limits,         \* the limits a room_read may ask for
    MaxEvents,      \* bound: length of the log
    MaxDeaths       \* bound: processes killed

ASSUME RoomsAssumption ==
    /\ Everyone \notin Agents
    /\ NoProc \notin Procs
    /\ Limits \subseteq Nat \ {0}
    /\ MaxEvents \in Nat
    /\ MaxDeaths \in Nat

VARIABLES
    dir,        \* the room's directory exists
    log,        \* events.jsonl
    torn,       \* the file ends in the part of a line
    agents,     \* agents.json
    lock,       \* the process whose .lock file is there
    proc,       \* each process: the tool call it is in
    handed,     \* history: the sequence numbers returned to each agent
    deaths

roomVars == <<dir, log, torn, agents, lock, proc, handed, deaths>>

-------------------------------------------------------------------------------
Tools == {"room_create", "room_job_start", "room_send", "room_read", "room_job_done"}

Events == [seq : Nat,
           type : {"room_created", "job_start", "message", "job_done"},
           from : Agents \cup {Everyone},     \* Everyone stands for the brain
           to : Agents \cup {Everyone},
           override : BOOLEAN]                \* history: done with allowUnread

AgentRows == [status : {"absent", "active", "done"}, lastReadSeq : Nat]

NoAgent == [status |-> "absent", lastReadSeq |-> 0]

RoomCalls == [at : {"idle", "waiting", "locked", "loaded", "posted", "leaving", "dead"},
          tool : Tools \cup {"none"}, agent : Agents \cup {Everyone},
          lines : Nat,          \* how much of the log the call has read
          lastRead : Nat]       \* the agent's cursor as the call has read it

\* A process outside a call.
Resting(place) == [at |-> place, tool |-> "none", agent |-> Everyone,
                   lines |-> 0, lastRead |-> 0]

\* isMessageRelevantTo: somebody else's message, to everyone or to the agent.
IsMessageRelevantTo(event, agent) ==
    /\ event.type = "message"
    /\ event.from # agent
    /\ event.to \in {Everyone, agent}

EventsFileExists == log # <<>> \/ torn

\* nextSeq of the first lines of the log: one more than the largest number.
NextSeq(lines) ==
    CHOOSE n \in 1..(lines + 1) :
        /\ \A i \in 1..lines : log[i].seq < n
        /\ n = 1 \/ \E i \in 1..lines : log[i].seq = n - 1

\* appendEventLine: after a torn line the new one is glued to it, and
\* readEventsFile skips the two as one malformed line.
Post(event) ==
    /\ log' = IF torn THEN log ELSE Append(log, event)
    /\ torn' = FALSE

Become(p, call) == proc' = [proc EXCEPT ![p] = call]
Move(p, place) == proc' = [proc EXCEPT ![p].at = place]

-------------------------------------------------------------------------------
RoomInit ==
    /\ dir = FALSE
    /\ log = <<>>
    /\ torn = FALSE
    /\ agents = [a \in Agents |-> NoAgent]
    /\ lock = NoProc
    /\ proc = [p \in Procs |-> Resting("idle")]
    /\ handed = [a \in Agents |-> {}]
    /\ deaths = 0

(* A tool call. *)

\* The log has room for one event of every call, which keeps it in its bound.
WithinBound ==
    Len(log) + Cardinality({p \in Procs : proc[p].at \notin {"idle", "dead"}}) < MaxEvents

\* The checks before the lock: does the room exist?  room_create makes it.
Enter(p, tool, agent) ==
    /\ proc[p].at = "idle"
    /\ tool # "room_read" => WithinBound
    /\ tool \in {"room_job_start", "room_send"} => dir
    /\ tool \in {"room_read", "room_job_done"} => EventsFileExists
    /\ dir' = (dir \/ tool = "room_create")
    /\ Become(p, [at |-> "waiting", tool |-> tool, agent |-> agent,
                  lines |-> 0, lastRead |-> 0])
    /\ UNCHANGED <<log, torn, agents, lock, handed, deaths>>

LockIsFree == lock = NoProc

AcquireLock(p) ==
    /\ proc[p].at = "waiting"
    /\ LockIsFree
    /\ lock' = p
    /\ Move(p, "locked")
    /\ UNCHANGED <<dir, log, torn, agents, handed, deaths>>

\* "Room lock timeout": the call fails without having done anything.
LockTimeout(p) ==
    /\ proc[p].at = "waiting"
    /\ lock # NoProc
    /\ Become(p, Resting("idle"))
    /\ UNCHANGED <<dir, log, torn, agents, lock, handed, deaths>>

\* room_create under the lock: the first event, if there is no log yet.
CreateRoom(p) ==
    /\ proc[p].at = "locked"
    /\ proc[p].tool = "room_create"
    /\ IF EventsFileExists
       THEN UNCHANGED <<log, torn>>
       ELSE Post([seq |-> 1, type |-> "room_created", from |-> Everyone,
                  to |-> Everyone, override |-> FALSE])
    /\ Become(p, Resting("leaving"))
    /\ UNCHANGED <<dir, agents, lock, handed, deaths>>

\* readEventsFile and readAgentsFile.
Load(p) ==
    /\ proc[p].at = "locked"
    /\ proc[p].tool # "room_create"
    /\ Become(p, [proc[p] EXCEPT !.at = "loaded", !.lines = Len(log),
                  !.lastRead = agents[proc[p].agent].lastReadSeq])
    /\ UNCHANGED <<dir, log, torn, agents, lock, handed, deaths>>

\* room_job_start and room_send append their event ...
PostEvent(p) ==
    /\ proc[p].at = "loaded"
    /\ \/ /\ proc[p].tool = "room_job_start"
          /\ Post([seq |-> NextSeq(proc[p].lines), type |-> "job_start",
                   from |-> proc[p].agent, to |-> Everyone, override |-> FALSE])
       \/ /\ proc[p].tool = "room_send"
          /\ \E to \in Agents \cup {Everyone} :
               Post([seq |-> NextSeq(proc[p].lines), type |-> "message",
                     from |-> proc[p].agent, to |-> to, override |-> FALSE])
    /\ Move(p, "posted")
    /\ UNCHANGED <<dir, agents, lock, handed, deaths>>

\* Mutant of UnreadRelevant: broadcasts do not count.
UnreadRelevantDirected(p) ==
    {i \in 1..proc[p].lines :
        /\ log[i].seq > proc[p].lastRead
        /\ log[i].to # Everyone
        /\ IsMessageRelevantTo(log[i], proc[p].agent)}

\* The messages room_job_done and room_read count as unread.
UnreadRelevant(p) ==
    {i \in 1..proc[p].lines :
        /\ log[i].seq > proc[p].lastRead
        /\ IsMessageRelevantTo(log[i], proc[p].agent)}

\* ... and so does room_job_done, unless it has to refuse.
PostJobDone(p, allowUnread) ==
    /\ proc[p].at = "loaded"
    /\ proc[p].tool = "room_job_done"
    /\ UnreadRelevant(p) = {} \/ allowUnread
    /\ Post([seq |-> NextSeq(proc[p].lines), type |-> "job_done",
             from |-> proc[p].agent, to |-> Everyone, override |-> allowUnread])
    /\ Move(p, "posted")
    /\ UNCHANGED <<dir, agents, lock, handed, deaths>>

RefuseJobDone(p) ==
    /\ proc[p].at = "loaded"
    /\ proc[p].tool = "room_job_done"
    /\ UnreadRelevant(p) # {}
    /\ Become(p, Resting("leaving"))
    /\ UNCHANGED <<dir, log, torn, agents, lock, handed, deaths>>

\* The row of the agent after its event: only a start or a done sets the status.
SaveAgent(p) ==
    /\ proc[p].at = "posted"
    /\ LET row == agents[proc[p].agent]
           status == CASE proc[p].tool = "room_job_start" -> "active"
                       [] proc[p].tool = "room_job_done" -> "done"
                       [] row.status = "absent" -> "active"
                       [] OTHER -> row.status
       IN  agents' = [agents EXCEPT ![proc[p].agent] =
               [status |-> status, lastReadSeq |-> proc[p].lastRead]]
    /\ Become(p, Resting("leaving"))
    /\ UNCHANGED <<dir, log, torn, lock, handed, deaths>>

\* What room_read returns: the first events after the cursor.
Returned(p, after, limit) ==
    {i \in 1..proc[p].lines :
        /\ log[i].seq > after
        /\ \A j \in 1..proc[p].lines :
             j <= i - limit => log[j].seq <= after}

\* markRead moves the cursor to the largest number returned, if it is larger.
CursorAfter(p, seqs) ==
    CHOOSE n \in seqs \cup {proc[p].lastRead} :
        \A m \in seqs \cup {proc[p].lastRead} : m <= n

\* Mutant of MayMark: any afterSeq is accepted.
MayMarkAnything(p, after) == TRUE

\* Marking as read what an afterSeq beyond the own cursor skips is refused.
MayMark(p, after) == after <= proc[p].lastRead

ReadEvents(p, after, markRead, limit) ==
    /\ proc[p].at = "loaded"
    /\ proc[p].tool = "room_read"
    /\ LET agent == proc[p].agent
           seqs == {log[i].seq : i \in Returned(p, after, limit)}
           status == IF agents[agent].status = "absent" THEN "active"
                     ELSE agents[agent].status
       IN  /\ IF markRead /\ MayMark(p, after)
              THEN agents' = [agents EXCEPT ![agent] =
                       [status |-> status, lastReadSeq |-> CursorAfter(p, seqs)]]
              ELSE UNCHANGED agents
           /\ IF markRead /\ ~MayMark(p, after)
              THEN UNCHANGED handed
              ELSE handed' = [handed EXCEPT ![agent] = @ \cup seqs]
    /\ Become(p, Resting("leaving"))
    /\ UNCHANGED <<dir, log, torn, lock, deaths>>

\* The `finally` of withRoomLock removes the lock file.
Leave(p) ==
    /\ proc[p].at = "leaving"
    /\ lock' = NoProc
    /\ Become(p, Resting("idle"))
    /\ UNCHANGED <<dir, log, torn, agents, handed, deaths>>

-------------------------------------------------------------------------------
(* A process is killed.  An append it was in may leave part of its line, and *)
(* a rewrite of agents.json it was in leaves a file readAgentsFile takes for *)
(* an empty table; the lock file stays.                                      *)

Appending(p) ==
    \/ proc[p].at = "locked" /\ proc[p].tool = "room_create"
    \/ proc[p].at = "loaded" /\ proc[p].tool # "room_read"

RewritingAgents(p) ==
    \/ proc[p].at = "posted"
    \/ proc[p].at = "loaded" /\ proc[p].tool = "room_read"

RoomDie(p) ==
    /\ proc[p].at # "dead"
    /\ deaths < MaxDeaths
    /\ deaths' = deaths + 1
    /\ Become(p, Resting("dead"))
    /\ \/ UNCHANGED <<torn, agents>>
       \/ Appending(p) /\ torn' = TRUE /\ UNCHANGED agents
       \/ RewritingAgents(p) /\ agents' = [a \in Agents |-> NoAgent] /\ UNCHANGED torn
    /\ UNCHANGED <<dir, log, lock, handed>>

\* The steps a call goes through by itself once it was made.
CallStep(p) ==
    \/ AcquireLock(p) \/ LockTimeout(p) \/ CreateRoom(p) \/ Load(p) \/ PostEvent(p)
    \/ (\E allowUnread \in BOOLEAN : PostJobDone(p, allowUnread))
    \/ RefuseJobDone(p) \/ SaveAgent(p)
    \/ (\E after \in 0..MaxEvents, markRead \in BOOLEAN, limit \in Limits :
            ReadEvents(p, after, markRead, limit))
    \/ Leave(p)

RoomNext ==
    \E p \in Procs :
        \/ \E tool \in Tools, agent \in Agents : Enter(p, tool, agent)
        \/ CallStep(p)
        \/ RoomDie(p)

RoomSpec == RoomInit /\ [][RoomNext]_roomVars

-------------------------------------------------------------------------------
(* Properties. *)

InsideLock(p) == proc[p].at \in {"locked", "loaded", "posted", "leaving"}

\* The files and the calls stay what the code makes them.
RoomTypeOK ==
    /\ dir \in BOOLEAN /\ torn \in BOOLEAN
    /\ log \in Seq(Events)
    /\ agents \in [Agents -> AgentRows]
    /\ lock \in Procs \cup {NoProc}
    /\ proc \in [Procs -> RoomCalls]
    /\ handed \in [Agents -> SUBSET Nat]
    /\ deaths \in Nat

\* "Append-only, monotonic seq": the events of all processes are numbered in
\* the order of the file, without a gap and without a number given twice.
SeqFollowsFile == \A i \in 1..Len(log) : log[i].seq = i

\* appendEventLine is never glued to a torn line: a call that goes on after
\* its append has its event in the log.
PostedIsInLog ==
    \A p \in Procs : proc[p].at = "posted" =>
        /\ Len(log) = proc[p].lines + 1
        /\ log[Len(log)].from = proc[p].agent

\* "Never past unreturned ones": whatever the afterSeq, the limit and the other
\* calls, all events up to an agent's cursor were returned to that agent.
CursorNeverSkips ==
    \A a \in Agents : 1..agents[a].lastReadSeq \subseteq handed[a]

\* An agent that is done without allowUnread has been handed every message that
\* was relevant to it when it was done, those of calls racing with it included.
DoneIsInformed ==
    \A i \in 1..Len(log) :
        log[i].type = "job_done" /\ ~log[i].override =>
            \A j \in 1..(i - 1) :
                IsMessageRelevantTo(log[j], log[i].from) =>
                    log[j].seq \in handed[log[i].from]

\* A cursor moves back only with the process that was killed rewriting the
\* table, and nobody gets to write with such a cursor.
CursorsOnlyAdvance ==
    [][\A a \in Agents :
        agents'[a].lastReadSeq < agents[a].lastReadSeq =>
            \E p \in Procs : lock = p /\ lock' = p /\ proc'[p].at = "dead"]_roomVars

===============================================================================

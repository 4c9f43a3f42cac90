------------------------------ MODULE RepoIndex ------------------------------
(***************************************************************************)
(* The index of a repository (src/index): the table of files that several   *)
(* pi processes bring up to date from the working tree, syncRepo, and in    *)
(* which the keeper writes the card of a file.                              *)
(*                                                                          *)
(* A sync reads the table, scans the tree, reads the cards it may reuse,    *)
(* and only then takes the write lock and writes what it has seen.  The     *)
(* tree may be edited between any two of its reads, and another process may *)
(* have committed a later scan in between.                                  *)
(*                                                                          *)
(* A content stands for its hash.  Size and modification time are one       *)
(* stamp, and no two edits leave a file with the same stamp.  What is       *)
(* excluded from the index, languages, imports, counts and the context      *)
(* version are left out, and so is what a card says: a card is the hash of  *)
(* the content it was made for.                                             *)
(***************************************************************************)
EXTENDS Naturals, TLC

CONSTANTS
    Paths,          \* files that may be there
    Contents,       \* what they may contain
    Processes,      \* pi processes that share the database
    Nothing,        \* no file, no row, no card
    MaxEdits,       \* bound: edits of the tree
    MaxFailures       \* bound: syncs that fail and processes that die within one

ASSUME RepoIndexAssumption ==
    /\ Nothing \notin Contents
    /\ MaxEdits \in Nat /\ MaxFailures \in Nat

VARIABLES
    tree,           \* the working tree: content, stamp, whether git has it unmerged
    rows,           \* the table of files
    process,        \* each process: the sync or the card it is at
    edits, failures

indexVars == <<tree, rows, process, edits, failures>>

Idle == [at |-> "idle"]
Synced == [at |-> "synced"]

File(content, stamp, unmerged) == [content |-> content, stamp |-> stamp, unmerged |-> unmerged]

IndexInit ==
    /\ tree \in [Paths -> {File(c, 0, FALSE) : c \in Contents} \cup {Nothing}]
    /\ rows = [f \in Paths |-> Nothing]
    /\ process = [p \in Processes |-> Idle]
    /\ edits = 0
    /\ failures = 0

-------------------------------------------------------------------------------
(* The table *)

Row(hash, stamp, freshness, source) ==
    [hash |-> hash, stamp |-> stamp, deleted |-> FALSE, freshness |-> freshness, source |-> source]

LiveRows == {f \in Paths : rows[f] # Nothing /\ ~rows[f].deleted}

\* cardReuseMap: the card of any fresh row, also of a file that is gone, by its hash.
Reusable == {<<rows[f].hash, rows[f].source>> :
                f \in {g \in Paths : /\ rows[g] # Nothing
                                     /\ rows[g].freshness = "fresh" /\ rows[g].source # Nothing}}

\* Mutant of KeptCard: a card stays fresh whatever became of its file.
KeptCardAlways(f, seen) == Row(seen.hash, seen.stamp, "fresh", rows[f].source)

\* The row of a file whose row has a card: the card must be for what was seen.
KeptCard(f, seen) ==
    IF rows[f].source = seen.hash THEN Row(seen.hash, seen.stamp, "fresh", rows[f].source)
    ELSE Row(seen.hash, seen.stamp, "stale", Nothing)

\* What the row of a file that was seen may become.
Upserts(f, sync) ==
    LET seen == sync.seen[f]
        card == IF rows[f] = Nothing THEN Nothing ELSE rows[f].source
    IN  IF f \in sync.unmerged THEN {Row(seen.hash, seen.stamp, "stale", card)}
        ELSE IF f \in DOMAIN sync.known
        THEN {IF card = Nothing THEN Row(seen.hash, seen.stamp, "missing", Nothing)
              ELSE KeptCard(f, seen)}
        ELSE LET cards == {pair[2] : pair \in {q \in sync.reuse : q[1] = seen.hash}}
             IN  IF cards = {} THEN {Row(seen.hash, seen.stamp, "missing", Nothing)}
                 ELSE {Row(seen.hash, seen.stamp, "fresh", source) : source \in cards}

-------------------------------------------------------------------------------
(* syncRepo *)

\* The git state, the known rows and the list of files.  Nothing another process
\* commits in between could be seen in the list.
StartSync(p) ==
    /\ process[p] \in {Idle, Synced}
    /\ process' = [process EXCEPT ![p] =
          [at |-> "scanning",
           unmerged |-> {f \in Paths : tree[f] # Nothing /\ tree[f].unmerged},
           known |-> [f \in LiveRows |-> [hash |-> rows[f].hash, stamp |-> rows[f].stamp]],
           todo |-> {f \in Paths : tree[f] # Nothing},
           stat |-> Nothing,
           seen |-> <<>>]]
    /\ UNCHANGED <<tree, rows, edits, failures>>

\* The hash is reused if the stamp is the known one.  A file that is gone is passed over.
StatFile(p) ==
    /\ process[p].at = "scanning" /\ process[p].stat = Nothing
    /\ \E f \in process[p].todo :
          LET sync == [process[p] EXCEPT !.todo = @ \ {f}]
          IN  process' = [process EXCEPT ![p] =
                IF tree[f] = Nothing THEN sync
                ELSE IF f \in DOMAIN sync.known /\ sync.known[f].stamp = tree[f].stamp
                THEN [sync EXCEPT !.seen = @ @@ (f :> sync.known[f])]
                ELSE [sync EXCEPT !.stat = [file |-> f, stamp |-> tree[f].stamp]]]
    /\ UNCHANGED <<tree, rows, edits, failures>>

\* readAndHash: the content of now under the stamp of before.
ReadFile(p) ==
    /\ process[p].at = "scanning" /\ process[p].stat # Nothing
    /\ LET f == process[p].stat.file
           seen == IF tree[f] = Nothing THEN process[p].seen
                   ELSE process[p].seen @@
                            (f :> [hash |-> tree[f].content, stamp |-> process[p].stat.stamp])
       IN  process' = [process EXCEPT ![p].stat = Nothing, ![p].seen = seen]
    /\ UNCHANGED <<tree, rows, edits, failures>>

ReadCards(p) ==
    /\ process[p].at = "scanning" /\ process[p].stat = Nothing /\ process[p].todo = {}
    /\ process' = [process EXCEPT ![p] =
          [at |-> "scanned", unmerged |-> process[p].unmerged, known |-> process[p].known,
           seen |-> process[p].seen, reuse |-> Reusable]]
    /\ UNCHANGED <<tree, rows, edits, failures>>

Removed(sync) == DOMAIN sync.known \ DOMAIN sync.seen

\* From BEGIN IMMEDIATE to COMMIT.
CommitSync(p) ==
    /\ process[p].at = "scanned"
    /\ LET sync == process[p]
       IN  \E upserted \in [DOMAIN sync.seen -> UNION {Upserts(f, sync) : f \in DOMAIN sync.seen}] :
              /\ \A f \in DOMAIN sync.seen : upserted[f] \in Upserts(f, sync)
              /\ rows' = [f \in Paths |->
                    IF f \in DOMAIN sync.seen THEN upserted[f]
                    ELSE IF f \in Removed(sync) THEN [rows[f] EXCEPT !.deleted = TRUE]
                    ELSE rows[f]]
    /\ process' = [process EXCEPT ![p] = Synced]
    /\ UNCHANGED <<tree, edits, failures>>

\* A statement throws, the database is busy, or the process dies and starts again.
SyncFails(p) ==
    /\ process[p] \notin {Idle, Synced}
    /\ failures < MaxFailures
    /\ failures' = failures + 1
    /\ process' = [process EXCEPT ![p] = Idle]
    /\ UNCHANGED <<tree, rows, edits>>

-------------------------------------------------------------------------------
(* The keeper's part (module Keeper), which an agent's end begins after a sync of its *)
(* own: a file is picked with the hash of its row, for lack of a fresh card or because *)
(* evidence names it, and its card is written later, over whatever the row has become. *)
(* A run cards one file here.                                                         *)

SelectFile(p) ==
    /\ process[p] = Synced
    /\ \E f \in LiveRows :
          process' = [process EXCEPT ![p] =
                         [at |-> "carding", file |-> f, source |-> rows[f].hash]]
    /\ UNCHANGED <<tree, rows, edits, failures>>

WriteFileCard(p) ==
    /\ process[p].at = "carding"
    /\ rows' = [rows EXCEPT ![process[p].file].freshness = "fresh",
                            ![process[p].file].source = process[p].source]
    /\ process' = [process EXCEPT ![p] = Idle]
    /\ UNCHANGED <<tree, edits, failures>>

\* The user, the agents and git change the tree.
EditTree(f) ==
    /\ edits < MaxEdits
    /\ edits' = edits + 1
    /\ \/ tree[f] # Nothing /\ tree' = [tree EXCEPT ![f] = Nothing]
       \/ \E content \in Contents, unmerged \in BOOLEAN :
             tree' = [tree EXCEPT ![f] = File(content, edits', unmerged)]
    /\ UNCHANGED <<rows, process, failures>>

SyncStep(p) == StartSync(p) \/ StatFile(p) \/ ReadFile(p) \/ ReadCards(p) \/ CommitSync(p)

IndexNext ==
    \/ \E p \in Processes : SyncStep(p) \/ SyncFails(p) \/ SelectFile(p) \/ WriteFileCard(p)
    \/ \E f \in Paths : EditTree(f)

\* A session that is used calls tools, and every edit, write or command, and every
\* prompt, begins a sync (src/index.ts); a sync that has begun waits for nobody.
IndexSpec ==
    /\ IndexInit /\ [][IndexNext]_indexVars
    /\ \A p \in Processes : WF_indexVars(SyncStep(p)) /\ WF_indexVars(WriteFileCard(p))

-------------------------------------------------------------------------------
\* The table has the files of the tree with their contents, and no card that
\* passes for fresh was made for another content.
IndexIsFaithful ==
    \A f \in Paths :
        /\ f \in LiveRows <=> tree[f] # Nothing
        /\ f \in LiveRows =>
              /\ rows[f].hash = tree[f].content
              /\ rows[f].freshness = "fresh" => rows[f].source = rows[f].hash

(* When the tree comes to rest the index catches up with it and stays so, whatever *)
(* edits, later scans, cards and failures have come between the steps of syncs: no *)
(* older scan and no late card has the last word (sync.ts, scanner.ts: scanRepo).  *)
IndexCatchesUp == <>[]IndexIsFaithful

===============================================================================

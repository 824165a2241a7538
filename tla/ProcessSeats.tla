----------------------------- MODULE ProcessSeats -----------------------------
(***************************************************************************)
(* The process seats of a license on one machine: createProcess,           *)
(* startProcessHeartbeat, deleteProcess and listMachineProcesses of        *)
(* src/client.ts.  Applications come, ping, stop or die; the server frees  *)
(* no seat of its own accord; whoever sweeps walks the list and deletes    *)
(* the rows whose last ping is older than the window.  Time passes in ping *)
(* intervals.                                                              *)
(***************************************************************************)
EXTENDS Integers, FiniteSets, FiniteSetsExt

CONSTANTS
  Apps,          \* applications on the machine
  Pids,          \* the operating system's process ids
  Launches,      \* bound: which application can get which pid
  NoApp,
  MaxProcesses,  \* policy.max_processes
  Window,        \* PROCESS_HEARTBEAT_WINDOW_MS, in ping intervals
  PageCap,       \* the server's largest page
  DefaultPage,   \* its page when the request names no limit
  MAX_PAGE_SIZE,
  Limits,        \* opts.limit of a sweep
  NoLimit,
  MaxId          \* bound: rows ever created

ASSUME ConstantsAssumption ==
  /\ Launches \subseteq Apps \X Pids
  /\ NoApp \notin Apps
  /\ {MaxProcesses, Window, PageCap, DefaultPage, MAX_PAGE_SIZE} \subseteq Nat \ {0}
  /\ MAX_PAGE_SIZE <= PageCap
  /\ DefaultPage <= PageCap
  /\ Limits \subseteq 1..PageCap \cup {NoLimit}
  /\ NoLimit \notin Nat
  /\ MaxId \in Nat

VARIABLES
  rows,   \* the server's rows: [id, pid, age]
  lastId, \* ids grow with creation (UUIDv7)
  app,    \* of each application: [pc, pid, id]
  posts,  \* POST /processes on their way: [app, pid]
  reply,  \* to each application, the answer on its way
  sweep,  \* a sweep under way: [pc, limit, after, full, doomed]
  quiet,  \* ghost: intervals since the row of a running app heard of it
  owed    \* ghost: rows there and out of their window since the sweep began

vars == <<rows, lastId, app, posts, reply, sweep, quiet, owed>>

NoId == 0
Off == [pc |-> "off", pid |-> NoId, id |-> NoId]
NoReply == [verdict |-> "none", id |-> NoId]
NoSweep == [pc |-> "idle", limit |-> NoLimit, after |-> 0, full |-> FALSE, doomed |-> {}]

Ids == {row.id : row \in rows}
Live(a) == app[a].pc # "off"

\* A row that is gone has been silent for good.
AgeOf(id) ==
  IF id \in Ids THEN (CHOOSE row \in rows : row.id = id).age ELSE Window

Init ==
  /\ rows = {}
  /\ lastId = 0
  /\ app = [a \in Apps |-> Off]
  /\ posts = {}
  /\ reply = [a \in Apps |-> NoReply]
  /\ sweep = NoSweep
  /\ quiet = [a \in Apps |-> 0]
  /\ owed = {}

-----------------------------------------------------------------------------
\* Mutant: a number is sent as it is.
ToPidAsGiven(pid) == pid

\* toPidString: callers hold a pid as a number or as its digits.
ToPidString(pid) == pid.digits

\* An application starts and registers its process.  No two live ones have
\* the same pid.
CreateProcess(a, pid) ==
  /\ ~Live(a)
  /\ \A b \in Apps : Live(b) => app[b].pid # pid
  /\ lastId + Cardinality(posts) <= MaxId
  /\ app' = [app EXCEPT ![a] = [pc |-> "creating", pid |-> pid, id |-> NoId]]
  /\ \E type \in {"number", "string"} :
       posts' = posts \cup
         {[app |-> a, pid |-> ToPidString([type |-> type, digits |-> pid])]}
  /\ UNCHANGED <<rows, lastId, reply, sweep, quiet, owed>>

\* The server's handler: one row per pid, as many as the policy allows.
HandlePost(post) ==
  LET verdict ==
        IF \E row \in rows : row.pid = post.pid THEN "PID_TAKEN"
        ELSE IF Cardinality(rows) >= MaxProcesses THEN "TOO_MANY_PROCESSES"
        ELSE "created"
      id == IF verdict = "created" THEN lastId + 1 ELSE NoId
  IN /\ post \in posts
     /\ id <= MaxId
     /\ posts' = posts \ {post}
     /\ rows' = rows \cup {[id |-> i, pid |-> post.pid, age |-> 0] : i \in {id} \ {NoId}}
     /\ lastId' = IF verdict = "created" THEN id ELSE lastId
     /\ reply' = IF post.app = NoApp THEN reply
                 ELSE [reply EXCEPT ![post.app] = [verdict |-> verdict, id |-> id]]
     /\ UNCHANGED <<app, sweep, quiet, owed>>

\* The answer arrives: a created process starts its heartbeat at once, a
\* refused one has no seat.
Answered(a) ==
  /\ app[a].pc = "creating"
  /\ reply[a] # NoReply
  /\ app' = [app EXCEPT ![a] = IF reply[a].verdict = "created"
                               THEN [@ EXCEPT !.pc = "running", !.id = reply[a].id]
                               ELSE Off]
  /\ quiet' = [quiet EXCEPT ![a] = IF reply[a].verdict = "created"
                                   THEN AgeOf(reply[a].id) ELSE 0]
  /\ reply' = [reply EXCEPT ![a] = NoReply]
  /\ UNCHANGED <<rows, lastId, posts, sweep, owed>>

\* An application is gone, and nobody waits for its request any more.
Leaves(a) ==
  /\ app' = [app EXCEPT ![a] = Off]
  /\ posts' = {IF post.app = a THEN [post EXCEPT !.app = NoApp] ELSE post : post \in posts}
  /\ reply' = [reply EXCEPT ![a] = NoReply]
  /\ quiet' = [quiet EXCEPT ![a] = 0]

\* The request times out, or its connection fails: a POST /processes is not
\* sent again, and the application gives up.
GiveUp(a) ==
  /\ app[a].pc = "creating"
  /\ Leaves(a)
  /\ UNCHANGED <<rows, lastId, sweep, owed>>

\* It is killed between createProcess and deleteProcess.
Crash(a) ==
  /\ app[a].pc = "running"
  /\ Leaves(a)
  /\ UNCHANGED <<rows, lastId, sweep, owed>>

\* deleteProcess on the way out, lost or not; a 404 is ignored.
DeleteProcess(a) ==
  /\ app[a].pc = "running"
  /\ Leaves(a)
  /\ \/ /\ rows' = {row \in rows : row.id # app[a].id}
        /\ owed' = owed \ {app[a].id}
     \/ UNCHANGED <<rows, owed>>
  /\ UNCHANGED <<lastId, sweep>>

-----------------------------------------------------------------------------
\* Mutant: a ping that fails stops the timer.
KeepsPinging(a) == quiet[a] = 0

\* startProcessHeartbeat: a failed ping is swallowed and the timer goes on.
Pings(a) == app[a].pc = "running"

\* One interval passes.  Every pinging application pings its row; some of
\* the pings are lost, and one for a deleted row answers 404.
Tick ==
  \E lost \in SUBSET {a \in Apps : Pings(a)} :
    LET heard == {app[a].id : a \in {b \in Apps : Pings(b)} \ lost} IN
    /\ rows' = {[row EXCEPT !.age = IF row.id \in heard THEN 0
                                    ELSE Min({@ + 1, Window})] : row \in rows}
    /\ quiet' = [a \in Apps |->
         IF app[a].pc # "running" THEN quiet[a]
         ELSE IF quiet[a] = Window THEN Window
         ELSE IF a \in lost THEN quiet[a] + 1
         ELSE 0]
    /\ owed' = owed \ heard
    /\ UNCHANGED <<lastId, app, posts, reply, sweep>>

-----------------------------------------------------------------------------
(* A sweep.                                                                *)

\* PROCESS_HEARTBEAT_WINDOW_MS has passed since the last ping.
IsStale(row) == row.age >= Window

SweepBegins ==
  /\ sweep.pc \in {"idle", "done"}
  /\ \E limit \in Limits :
       sweep' = [NoSweep EXCEPT !.pc = "listing", !.limit = limit]
  /\ owed' = {row.id : row \in {r \in rows : IsStale(r)}}
  /\ UNCHANGED <<rows, lastId, app, posts, reply, quiet>>

\* Mutant: no limit is sent unless the caller names one.
ListLimitOmitted(limit) == IF limit = NoLimit THEN DefaultPage ELSE limit

\* The limit listMachineProcesses has the server apply.
ListLimit(limit) ==
  Min({IF limit = NoLimit THEN MAX_PAGE_SIZE ELSE limit, PageCap})

\* Mutant: the cursor is not sent, as on the entitlements' route.
PageAfterIgnored(after) == 0

\* page[after]
PageAfter(after) == after

\* The rows after the cursor, as many as a page holds.
Page ==
  LET rest == {row \in rows : row.id > PageAfter(sweep.after)}
  IN {row \in rest :
        Cardinality({r \in rest : r.id < row.id}) < ListLimit(sweep.limit)}

\* listMachineProcesses: a page shorter than what was asked for is the last.
ListMachineProcesses ==
  /\ sweep.pc = "listing"
  /\ sweep' = [sweep EXCEPT
       !.pc = "deleting",
       !.after = Max({row.id : row \in Page} \cup {@}),
       !.full = (Cardinality(Page) >=
                   IF sweep.limit = NoLimit THEN MAX_PAGE_SIZE ELSE sweep.limit),
       !.doomed = {row.id : row \in {r \in Page : IsStale(r)}}]
  /\ UNCHANGED <<rows, lastId, app, posts, reply, quiet, owed>>

\* deleteProcess for one row that was stale when it was listed.
SweepDeletes(id) ==
  /\ sweep.pc = "deleting"
  /\ id \in sweep.doomed
  /\ sweep' = [sweep EXCEPT !.doomed = @ \ {id}]
  /\ rows' = {row \in rows : row.id # id}
  /\ owed' = owed \ {id}
  /\ UNCHANGED <<lastId, app, posts, reply, quiet>>

\* The page is dealt with.
SweepGoesOn ==
  /\ sweep.pc = "deleting"
  /\ sweep.doomed = {}
  /\ sweep' = IF sweep.full THEN [sweep EXCEPT !.pc = "listing", !.full = FALSE]
              ELSE [NoSweep EXCEPT !.pc = "done"]
  /\ UNCHANGED <<rows, lastId, app, posts, reply, quiet, owed>>

SweepStep ==
  \/ ListMachineProcesses
  \/ \E id \in sweep.doomed : SweepDeletes(id)
  \/ SweepGoesOn

Next ==
  \/ \E launch \in Launches : CreateProcess(launch[1], launch[2])
  \/ \E post \in posts : HandlePost(post)
  \/ \E a \in Apps : Answered(a) \/ GiveUp(a) \/ Crash(a) \/ DeleteProcess(a)
  \/ Tick
  \/ SweepBegins
  \/ SweepStep

Spec == Init /\ [][Next]_vars

\* Time passes, and the machine is swept again and again.
FairSpec ==
  /\ Spec
  /\ WF_vars(Tick)
  /\ WF_vars(SweepBegins)
  /\ WF_vars(SweepStep)

-----------------------------------------------------------------------------
TypeOK ==
  /\ rows \subseteq [id: 1..lastId, pid: Pids, age: 0..Window]
  /\ \A r, s \in rows : r.id = s.id => r = s
  /\ lastId \in Nat
  /\ app \in [Apps -> [pc: {"off", "creating", "running"}, pid: Pids \cup {NoId},
                       id: 0..lastId]]
  /\ posts \subseteq [app: Apps \cup {NoApp}, pid: Pids]
  /\ reply \in [Apps -> [verdict: {"none", "created", "PID_TAKEN", "TOO_MANY_PROCESSES"},
                         id: 0..lastId]]
  /\ sweep \in [pc: {"idle", "listing", "deleting", "done"}, limit: Limits \cup {NoLimit},
                after: 0..lastId, full: BOOLEAN, doomed: SUBSET (1..lastId)]
  /\ quiet \in [Apps -> 0..Window]
  /\ owed \subseteq 1..lastId

\* A running application keeps its seat through any sweep, as long as its
\* pings were never lost for a whole window: a lost one alone costs nothing
\* (startProcessHeartbeat, "comfortably inside the window").
PingingKeepsTheSeat ==
  \A a \in Apps : app[a].pc = "running" /\ quiet[a] < Window => app[a].id \in Ids

\* When a sweep ends, every row that was out of its window when the sweep
\* began and did not come back to life is gone, although the sweep deletes
\* rows of the very list it walks (listMachineProcesses, a short page is the
\* only end-of-list signal).
SweepFreesAll == sweep.pc = "done" => owed = {}

\* A row no application holds or will be told of.
Orphan(id) ==
  /\ id \in Ids
  /\ \A a \in Apps : id \notin {app[a].id, reply[a].id}

\* Seats leaked by a crash, a lost answer or a lost delete come back to a
\* machine that is swept: no live row keeps the walk from those behind it
\* (deleteProcess, "the only way to free max_processes seats").
LeaksAreFreed ==
  \A id \in 1..MaxId : Orphan(id) ~> (id \notin Ids)
=============================================================================

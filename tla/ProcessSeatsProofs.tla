-------------------------- MODULE ProcessSeatsProofs --------------------------
(***************************************************************************)
(* Proofs about ProcessSeats, for any applications, pids, limits and       *)
(* windows: a sweep never takes the seat of an application that pings, and *)
(* leaves behind no row that was stale when it began.                      *)
(***************************************************************************)
EXTENDS ProcessSeats, FiniteSetTheorems, WellFoundedInduction, TLAPS

RowType == [id: 1..lastId, pid: Pids, age: 0..Window]

\* As much of the types as the seats hang on.
SeatTypes ==
  /\ lastId \in Nat
  /\ rows \subseteq RowType
  /\ posts \subseteq [app: Apps \cup {NoApp}, pid: Pids]
  /\ app \in [Apps -> [pc: {"off", "creating", "running"}, pid: Pids \cup {NoId},
                       id: 0..lastId]]
  /\ reply \in [Apps -> [verdict: {"none", "created", "PID_TAKEN", "TOO_MANY_PROCESSES"},
                         id: 0..lastId]]
  /\ quiet \in [Apps -> 0..Window]
  /\ sweep.doomed \subseteq 1..lastId

\* An id names one row, and one application holds it or is told of it.
IdsAreUnique ==
  /\ \A r, s \in rows : r.id = s.id => r = s
  /\ \A a \in Apps : (reply[a].verdict = "created") <=> (reply[a].id # NoId)
  /\ \A a, b \in Apps : a # b =>
       /\ app[a].pc = "running" /\ app[b].pc = "running" => app[a].id # app[b].id
       /\ reply[a].id # NoId => reply[a].id # reply[b].id
  /\ \A a, b \in Apps : reply[a].id # NoId /\ app[b].pc = "running" =>
       reply[a].id # app[b].id

\* The row of a pinging application is no older than its last ping.
RowHeardOf ==
  \A a \in Apps : app[a].pc = "running" /\ quiet[a] < Window =>
    \E row \in rows : row.id = app[a].id /\ row.age <= quiet[a]

\* What a sweep is about to delete has been silent for a window, although
\* the list it was found in is old by now.
DoomedAreSilent ==
  /\ \A a \in Apps : app[a].pc = "running" /\ app[a].id \in sweep.doomed =>
       quiet[a] = Window
  /\ \A a \in Apps : reply[a].id \in sweep.doomed =>
       \A row \in rows : row.id = reply[a].id => row.age = Window

SeatInv ==
  /\ SeatTypes
  /\ IdsAreUnique
  /\ RowHeardOf
  /\ DoomedAreSilent

-----------------------------------------------------------------------------
\* The smaller of two numbers.
LEMMA MinOfTwo ==
  ASSUME NEW x \in Nat, NEW y \in Nat
  PROVE  Min({x, y}) = IF x <= y THEN x ELSE y
<1> DEFINE m == IF x <= y THEN x ELSE y
<1>1. m \in {x, y} /\ \A z \in {x, y} : m <= z
  OBVIOUS
<1>2. \A n \in {x, y} : (\A z \in {x, y} : n <= z) => n = m
  OBVIOUS
<1> HIDE DEF m
<1>3. Min({x, y}) = m
  BY <1>1, <1>2 DEF Min
<1> QED BY <1>3 DEF m

\* The constants, as the proofs use them.
LEMMA Sizes == Window \in Nat \ {0} /\ NoApp \notin Apps /\ Launches \subseteq Apps \X Pids
BY ConstantsAssumption

LEMMA InitSeats == Init => SeatInv
<1> SUFFICES ASSUME Init
             PROVE  SeatInv
  OBVIOUS
<1> USE Sizes DEF Init, Off, NoReply, NoSweep, NoId
<1>1. SeatTypes
  BY DEF SeatTypes, RowType
<1>2. IdsAreUnique
  BY DEF IdsAreUnique
<1>3. RowHeardOf
  BY DEF RowHeardOf
<1>4. DoomedAreSilent
  BY DEF DoomedAreSilent
<1> QED BY <1>1, <1>2, <1>3, <1>4 DEF SeatInv

LEMMA CreateStep ==
  ASSUME SeatInv, NEW a \in Apps, NEW pid \in Pids, CreateProcess(a, pid)
  PROVE  SeatInv'
<1> USE DEF SeatInv
<1>1. /\ UNCHANGED <<rows, lastId, reply, sweep, quiet, owed>>
      /\ app' = [app EXCEPT ![a] = [pc |-> "creating", pid |-> pid, id |-> NoId]]
  BY DEF CreateProcess
<1>2. PICK type \in {"number", "string"} :
        posts' = posts \cup {[app |-> a, pid |-> ToPidString([type |-> type, digits |-> pid])]}
  BY DEF CreateProcess
<1>3. posts' \subseteq [app: Apps \cup {NoApp}, pid: Pids]
  BY <1>2 DEF SeatTypes, ToPidString
<1>4. SeatTypes'
  BY <1>1, <1>3 DEF SeatTypes, RowType, NoId
<1>5. \A b \in Apps : app'[b].pc = "running" => b # a /\ app'[b] = app[b]
  BY <1>1 DEF SeatTypes
<1>6. IdsAreUnique'
  BY <1>1, <1>5 DEF IdsAreUnique
<1>7. RowHeardOf'
  BY <1>1, <1>5 DEF RowHeardOf
<1>8. DoomedAreSilent'
  BY <1>1, <1>5 DEF DoomedAreSilent
<1> QED BY <1>4, <1>6, <1>7, <1>8

LEMMA PostStep ==
  ASSUME SeatInv, NEW post \in posts, HandlePost(post)
  PROVE  SeatInv'
<1> USE DEF SeatInv
<1> DEFINE verdict == IF \E row \in rows : row.pid = post.pid THEN "PID_TAKEN"
                      ELSE IF Cardinality(rows) >= MaxProcesses THEN "TOO_MANY_PROCESSES"
                      ELSE "created"
           id == IF verdict = "created" THEN lastId + 1 ELSE NoId
<1>1. /\ posts' = posts \ {post}
      /\ rows' = rows \cup {[id |-> i, pid |-> post.pid, age |-> 0] : i \in {id} \ {NoId}}
      /\ lastId' = IF verdict = "created" THEN id ELSE lastId
      /\ reply' = IF post.app = NoApp THEN reply
                  ELSE [reply EXCEPT ![post.app] = [verdict |-> verdict, id |-> id]]
      /\ UNCHANGED <<app, sweep, quiet, owed>>
  BY DEF HandlePost
<1>2. verdict \in {"created", "PID_TAKEN", "TOO_MANY_PROCESSES"}
  OBVIOUS
<1>3. lastId \in Nat /\ post.pid \in Pids /\ post.app \in Apps \cup {NoApp}
  BY DEF SeatTypes
<1>4. \/ verdict = "created" /\ id = lastId + 1
      \/ verdict # "created" /\ id = NoId
  OBVIOUS
<1> HIDE DEF verdict, id
<1>5. /\ lastId' \in Nat /\ lastId' >= lastId
      /\ id # NoId => id = lastId' /\ id > lastId
      /\ id \in 0..lastId'
  BY <1>1, <1>3, <1>4 DEF NoId
<1>6. \A row \in rows' : row \in rows \/ (id # NoId /\ row = [id |-> id, pid |-> post.pid, age |-> 0])
  BY <1>1
<1>7. rows \subseteq rows'
  BY <1>1
<1>8. SeatTypes'
  <2>1. rows' \subseteq RowType'
    BY <1>3, <1>5, <1>6, Sizes DEF SeatTypes, RowType, NoId
  <2>2. posts' \subseteq [app: Apps \cup {NoApp}, pid: Pids]
    BY <1>1 DEF SeatTypes
  <2>3. \A n \in 0..lastId : n \in 0..lastId'
    BY <1>3, <1>5
  <2>4. app' \in [Apps -> [pc: {"off", "creating", "running"}, pid: Pids \cup {NoId},
                           id: 0..lastId']]
    BY <1>1, <2>3 DEF SeatTypes
  <2>5. reply' \in [Apps -> [verdict: {"none", "created", "PID_TAKEN", "TOO_MANY_PROCESSES"},
                             id: 0..lastId']]
    BY <1>1, <1>2, <1>5, <2>3 DEF SeatTypes
  <2>6. sweep'.doomed \subseteq 1..lastId'
    BY <1>1, <1>3, <1>5 DEF SeatTypes
  <2> QED BY <1>1, <1>5, <2>1, <2>2, <2>4, <2>5, <2>6 DEF SeatTypes
<1>9. \A b \in Apps : \/ reply'[b] = reply[b]
                      \/ reply'[b] = [verdict |-> verdict, id |-> id] /\ b = post.app
  BY <1>1 DEF SeatTypes
<1>10. \A b \in Apps : app[b].id \in 0..lastId /\ reply[b].id \in 0..lastId
  BY DEF SeatTypes
<1>11. \A row \in rows : row.id \in 1..lastId
  BY DEF SeatTypes, RowType
<1>12. IdsAreUnique'
  <2>1. \A r, s \in rows' : r.id = s.id => r = s
    BY <1>3, <1>5, <1>6, <1>11 DEF IdsAreUnique
  <2>2. \A b \in Apps : (reply'[b].verdict = "created") <=> (reply'[b].id # NoId)
    BY <1>3, <1>4, <1>9 DEF IdsAreUnique, NoId
  <2>3. \A b, c \in Apps : b # c /\ reply'[b].id # NoId => reply'[b].id # reply'[c].id
    <3> SUFFICES ASSUME NEW b \in Apps, NEW c \in Apps, b # c, reply'[b].id # NoId
                 PROVE  reply'[b].id # reply'[c].id
      OBVIOUS
    <3>1. reply'[b] = reply[b] \/ reply'[c] = reply[c]
      BY <1>9
    <3>2. CASE reply'[b] = reply[b] /\ reply'[c] = reply[c]
      BY <3>2 DEF IdsAreUnique
    <3>3. CASE reply'[b] = reply[b] /\ reply'[c].id = id
      BY <1>3, <1>5, <1>10, <3>3
    <3>4. CASE reply'[c] = reply[c] /\ reply'[b].id = id
      BY <1>3, <1>5, <1>10, <3>4
    <3> QED BY <1>9, <3>1, <3>2, <3>3, <3>4
  <2>4. \A b, c \in Apps : reply'[b].id # NoId /\ app[c].pc = "running" => reply'[b].id # app[c].id
    BY <1>3, <1>5, <1>9, <1>10 DEF IdsAreUnique
  <2> QED BY <1>1, <2>1, <2>2, <2>3, <2>4 DEF IdsAreUnique
<1>13. RowHeardOf'
  BY <1>1, <1>7 DEF RowHeardOf
<1>14. DoomedAreSilent'
  <2>1. sweep.doomed \subseteq 1..lastId
    BY DEF SeatTypes
  <2>2. \A b \in Apps : reply'[b].id \in sweep.doomed => reply'[b] = reply[b]
    BY <1>3, <1>5, <1>9, <2>1 DEF NoId
  <2>3. \A row \in rows' : row.id \in sweep.doomed => row \in rows
    BY <1>3, <1>5, <1>6, <2>1
  <2> QED BY <1>1, <2>2, <2>3 DEF DoomedAreSilent
<1> QED BY <1>8, <1>12, <1>13, <1>14

LEMMA AnsweredStep ==
  ASSUME SeatInv, NEW a \in Apps, Answered(a)
  PROVE  SeatInv'
<1> USE DEF SeatInv
<1> DEFINE id == reply[a].id
<1>1. /\ UNCHANGED <<rows, lastId, posts, sweep, owed>>
      /\ app' = [app EXCEPT ![a] = IF reply[a].verdict = "created"
                                   THEN [@ EXCEPT !.pc = "running", !.id = reply[a].id]
                                   ELSE Off]
      /\ quiet' = [quiet EXCEPT ![a] = IF reply[a].verdict = "created"
                                       THEN AgeOf(reply[a].id) ELSE 0]
      /\ reply' = [reply EXCEPT ![a] = NoReply]
  BY DEF Answered
<1>2. /\ lastId \in Nat
      /\ \A b \in Apps : app[b].id \in 0..lastId /\ reply[b].id \in 0..lastId
      /\ \A row \in rows : row.id \in 1..lastId /\ row.age \in 0..Window
  BY DEF SeatTypes, RowType
<1>3. /\ AgeOf(id) \in 0..Window
      /\ AgeOf(id) < Window => \E row \in rows : row.id = id /\ row.age = AgeOf(id)
      /\ (\A row \in rows : row.id = id => row.age = Window) => AgeOf(id) = Window
  <2>1. CASE id \in Ids
    <3> DEFINE row == CHOOSE r \in rows : r.id = id
    <3>1. \E r \in rows : r.id = id
      BY <2>1 DEF Ids
    <3>2. row \in rows /\ row.id = id
      BY <3>1
    <3>3. AgeOf(id) = row.age
      BY <2>1 DEF AgeOf
    <3> HIDE DEF row
    <3> QED BY <1>2, <3>2, <3>3
  <2>2. CASE id \notin Ids
    BY <2>2, Sizes DEF AgeOf
  <2> QED BY <2>1, <2>2
<1>4. SeatTypes'
  <2>1. NoReply \in [verdict: {"none", "created", "PID_TAKEN", "TOO_MANY_PROCESSES"}, id: 0..lastId]
    BY <1>2 DEF NoReply, NoId
  <2>2. Off \in [pc: {"off", "creating", "running"}, pid: Pids \cup {NoId}, id: 0..lastId]
    BY <1>2 DEF Off, NoId
  <2>3. [app[a] EXCEPT !.pc = "running", !.id = reply[a].id]
          \in [pc: {"off", "creating", "running"}, pid: Pids \cup {NoId}, id: 0..lastId]
    BY <1>2 DEF SeatTypes
  <2>4. app' \in [Apps -> [pc: {"off", "creating", "running"}, pid: Pids \cup {NoId}, id: 0..lastId]]
    BY <1>1, <2>2, <2>3 DEF SeatTypes
  <2>5. quiet' \in [Apps -> 0..Window]
    BY <1>1, <1>3, Sizes DEF SeatTypes
  <2>6. reply' \in [Apps -> [verdict: {"none", "created", "PID_TAKEN", "TOO_MANY_PROCESSES"}, id: 0..lastId]]
    BY <1>1, <2>1 DEF SeatTypes
  <2> QED BY <1>1, <2>4, <2>5, <2>6 DEF SeatTypes, RowType
<1>5. \A b \in Apps \ {a} : app'[b] = app[b] /\ quiet'[b] = quiet[b] /\ reply'[b] = reply[b]
  BY <1>1 DEF SeatTypes
<1>6. reply'[a].id = NoId /\ reply'[a].verdict = "none"
  BY <1>1 DEF SeatTypes, NoReply
<1>7. app'[a].pc = "running" =>
        app'[a].id = id /\ quiet'[a] = AgeOf(id) /\ reply[a].verdict = "created"
  BY <1>1 DEF SeatTypes, Off
<1> HIDE DEF id
<1>8. app'[a].pc = "running" /\ id # NoId =>
        \A b \in Apps \ {a} : /\ app[b].pc = "running" => app[b].id # id
                              /\ reply[b].id # id
  BY DEF IdsAreUnique, id
<1>9. app'[a].pc = "running" => id # NoId
  <2>1. ASSUME reply[a].verdict = "created"
        PROVE  id # NoId
    BY <2>1 DEF IdsAreUnique, id
  <2> QED BY <1>7, <2>1
<1>10. IdsAreUnique'
  BY <1>1, <1>5, <1>6, <1>7, <1>8, <1>9 DEF IdsAreUnique
<1>11. RowHeardOf'
  BY <1>1, <1>2, <1>3, <1>5, <1>7 DEF RowHeardOf
<1>12. DoomedAreSilent'
  BY <1>1, <1>2, <1>3, <1>5, <1>6, <1>7 DEF DoomedAreSilent, SeatTypes, id, NoId
<1> QED BY <1>4, <1>10, <1>11, <1>12

\* An application leaves in one of three ways, and takes nothing along but
\* its own row.
LEMMA LeaveStep ==
  ASSUME SeatInv, NEW a \in Apps, Leaves(a), UNCHANGED <<lastId, sweep>>,
         app[a].pc \in {"creating", "running"},
         rows' = rows \/ (app[a].pc = "running" /\ rows' = {row \in rows : row.id # app[a].id})
  PROVE  SeatInv'
<1> USE DEF SeatInv
<1>1. /\ app' = [app EXCEPT ![a] = Off]
      /\ posts' = {IF post.app = a THEN [post EXCEPT !.app = NoApp] ELSE post : post \in posts}
      /\ reply' = [reply EXCEPT ![a] = NoReply]
      /\ quiet' = [quiet EXCEPT ![a] = 0]
  BY DEF Leaves
<1>2. lastId \in Nat /\ rows' \subseteq rows
  BY DEF SeatTypes
<1>3. SeatTypes'
  <2>1. Off \in [pc: {"off", "creating", "running"}, pid: Pids \cup {NoId}, id: 0..lastId]
    BY <1>2 DEF Off, NoId
  <2>2. NoReply \in [verdict: {"none", "created", "PID_TAKEN", "TOO_MANY_PROCESSES"}, id: 0..lastId]
    BY <1>2 DEF NoReply, NoId
  <2>3. app' \in [Apps -> [pc: {"off", "creating", "running"}, pid: Pids \cup {NoId}, id: 0..lastId]]
    BY <1>1, <2>1 DEF SeatTypes
  <2>4. reply' \in [Apps -> [verdict: {"none", "created", "PID_TAKEN", "TOO_MANY_PROCESSES"}, id: 0..lastId]]
    BY <1>1, <2>2 DEF SeatTypes
  <2>5. posts' \subseteq [app: Apps \cup {NoApp}, pid: Pids]
    <3>1. \A post \in posts : [post EXCEPT !.app = NoApp] \in [app: Apps \cup {NoApp}, pid: Pids]
      BY DEF SeatTypes
    <3> QED BY <1>1, <3>1 DEF SeatTypes
  <2>6. quiet' \in [Apps -> 0..Window]
    BY <1>1, Sizes DEF SeatTypes
  <2> QED BY <1>2, <2>3, <2>4, <2>5, <2>6 DEF SeatTypes, RowType
<1>4. \A b \in Apps : app'[b].pc = "running" => b # a
  BY <1>1 DEF SeatTypes, Off
<1>5. \A b \in Apps \ {a} : app'[b] = app[b] /\ quiet'[b] = quiet[b] /\ reply'[b] = reply[b]
  BY <1>1 DEF SeatTypes
<1>6. reply'[a].id = NoId /\ reply'[a].verdict = "none"
  BY <1>1 DEF SeatTypes, NoReply
<1>7. IdsAreUnique'
  BY <1>2, <1>4, <1>5, <1>6 DEF IdsAreUnique
<1>8. RowHeardOf'
  <2> SUFFICES ASSUME NEW b \in Apps, app'[b].pc = "running", quiet'[b] < Window
               PROVE  \E row \in rows' : row.id = app'[b].id /\ row.age <= quiet'[b]
    BY DEF RowHeardOf
  <2>1. b # a /\ app'[b] = app[b] /\ quiet'[b] = quiet[b]
    BY <1>4, <1>5
  <2>2. PICK row \in rows : row.id = app[b].id /\ row.age <= quiet[b]
    BY <2>1 DEF RowHeardOf
  <2>3. app[a].pc = "running" => row.id # app[a].id
    BY <2>1, <2>2 DEF IdsAreUnique
  <2>4. row \in rows'
    BY <2>3
  <2> QED BY <2>1, <2>2, <2>4
<1>9. DoomedAreSilent'
  <2>1. NoId \notin sweep.doomed
    BY DEF SeatTypes, NoId
  <2>2. \A b \in Apps : app'[b].pc = "running" /\ app'[b].id \in sweep.doomed => quiet'[b] = Window
    BY <1>4, <1>5 DEF DoomedAreSilent
  <2>3. \A b \in Apps : reply'[b].id \in sweep.doomed => reply'[b] = reply[b]
    BY <1>5, <1>6, <2>1
  <2> QED BY <1>2, <2>2, <2>3 DEF DoomedAreSilent
<1> QED BY <1>3, <1>7, <1>8, <1>9

LEMMA TickStep ==
  ASSUME SeatInv, Tick
  PROVE  SeatInv'
<1> USE DEF SeatInv
<1>1. PICK lost \in SUBSET {a \in Apps : Pings(a)} :
        LET heard == {app[a].id : a \in {b \in Apps : Pings(b)} \ lost} IN
        /\ rows' = {[row EXCEPT !.age = IF row.id \in heard THEN 0
                                        ELSE Min({@ + 1, Window})] : row \in rows}
        /\ quiet' = [a \in Apps |->
             IF app[a].pc # "running" THEN quiet[a]
             ELSE IF quiet[a] = Window THEN Window
             ELSE IF a \in lost THEN quiet[a] + 1
             ELSE 0]
        /\ owed' = owed \ heard
        /\ UNCHANGED <<lastId, app, posts, reply, sweep>>
  BY DEF Tick
<1> DEFINE heard == {app[a].id : a \in {b \in Apps : Pings(b)} \ lost}
           Older(row) == [row EXCEPT !.age = IF row.id \in heard THEN 0
                                             ELSE Min({@ + 1, Window})]
<1>2. rows' = {Older(row) : row \in rows} /\ UNCHANGED <<lastId, app, posts, reply, sweep>>
  BY <1>1
<1>3. \A a \in Apps : quiet'[a] = IF app[a].pc # "running" THEN quiet[a]
                                  ELSE IF quiet[a] = Window THEN Window
                                  ELSE IF a \in lost THEN quiet[a] + 1 ELSE 0
  BY <1>1
<1>4. \A row \in rows : row \in RowType /\ row.age \in 0..Window
  BY DEF SeatTypes, RowType
<1>5. ASSUME NEW row \in rows
      PROVE  /\ Older(row).id = row.id
             /\ Older(row) \in RowType
             /\ row.id \in heard => Older(row).age = 0
             /\ row.id \notin heard =>
                  Older(row).age = IF row.age + 1 <= Window THEN row.age + 1 ELSE Window
  <2>1. Min({row.age + 1, Window}) = IF row.age + 1 <= Window THEN row.age + 1 ELSE Window
    BY <1>4, Sizes, MinOfTwo
  <2> DEFINE age == IF row.id \in heard THEN 0 ELSE Min({row.age + 1, Window})
  <2>2. age \in 0..Window
    BY <1>4, <2>1, Sizes
  <2>3. Older(row) = [row EXCEPT !.age = age]
    OBVIOUS
  <2> HIDE DEF heard, Older, age
  <2>4. Older(row).id = row.id /\ Older(row).age = age /\ Older(row) \in RowType
    BY <1>4, <2>2, <2>3 DEF RowType
  <2>5. age = IF row.id \in heard THEN 0 ELSE Min({row.age + 1, Window})
    BY DEF age
  <2> QED BY <2>1, <2>4, <2>5
<1>6. \A a \in Apps : app[a].pc = "running" /\ a \notin lost => app[a].id \in heard
  BY DEF Pings
<1>7. \A i \in heard : \E a \in Apps : app[a].pc = "running" /\ i = app[a].id
  BY DEF Pings
<1> HIDE DEF heard, Older
<1>8. SeatTypes'
  <2>1. rows' \subseteq RowType'
    BY <1>2, <1>5 DEF RowType
  <2>2. \A a \in Apps : quiet[a] \in 0..Window
    BY DEF SeatTypes
  <2>3. \A a \in Apps : quiet'[a] \in 0..Window
    BY <1>3, <2>2, Sizes
  <2>4. quiet' \in [Apps -> 0..Window]
    <3>1. DOMAIN quiet' = Apps /\ quiet' = [a \in Apps |-> quiet'[a]]
      BY <1>1
    <3> QED BY <2>3, <3>1
  <2> QED BY <1>2, <2>1, <2>4 DEF SeatTypes
<1>9. IdsAreUnique'
  <2>1. \A r, s \in rows' : r.id = s.id => r = s
    BY <1>2, <1>5 DEF IdsAreUnique
  <2> QED BY <1>2, <2>1 DEF IdsAreUnique
<1>10. RowHeardOf'
  <2> SUFFICES ASSUME NEW a \in Apps, app[a].pc = "running", quiet'[a] < Window
               PROVE  \E row \in rows' : row.id = app[a].id /\ row.age <= quiet'[a]
    BY <1>2 DEF RowHeardOf
  <2>1. quiet[a] \in 0..Window /\ quiet[a] # Window
    BY <1>3 DEF SeatTypes
  <2>2. PICK row \in rows : row.id = app[a].id /\ row.age <= quiet[a]
    BY <2>1, Sizes DEF RowHeardOf
  <2>3. Older(row) \in rows' /\ Older(row).id = app[a].id
    BY <1>2, <1>5, <2>2
  <2>4. Older(row).age <= quiet'[a]
    <3>1. CASE row.id \in heard
      <4>1. quiet'[a] \in Nat
        BY <1>3, <2>1, Sizes
      <4> QED BY <1>5, <3>1, <4>1
    <3>2. CASE row.id \notin heard
      <4>1. a \in lost
        BY <1>6, <2>2, <3>2
      <4>2. quiet'[a] = quiet[a] + 1
        BY <1>3, <2>1, <4>1
      <4>3. row.age \in 0..Window
        BY <1>4
      <4> QED BY <1>5, <2>1, <2>2, <3>2, <4>2, <4>3, Sizes
    <3> QED BY <3>1, <3>2
  <2> QED BY <2>3, <2>4
<1>11. DoomedAreSilent'
  <2>1. \A a \in Apps : app[a].pc = "running" /\ app[a].id \in sweep.doomed => quiet'[a] = Window
    BY <1>3 DEF DoomedAreSilent
  <2>2. ASSUME NEW a \in Apps, reply[a].id \in sweep.doomed, NEW row \in rows, row.id = reply[a].id
        PROVE  Older(row).age = Window
    <3>1. row.age = Window /\ reply[a].id # NoId
      BY <2>2 DEF DoomedAreSilent, SeatTypes, NoId
    <3>2. row.id \notin heard
      BY <1>7, <2>2, <3>1 DEF IdsAreUnique
    <3> QED BY <1>5, <3>1, <3>2, Sizes
  <2> QED BY <1>2, <1>5, <2>1, <2>2 DEF DoomedAreSilent
<1> QED BY <1>8, <1>9, <1>10, <1>11

LEMMA ListStep ==
  ASSUME SeatInv, ListMachineProcesses
  PROVE  SeatInv'
<1> USE DEF SeatInv
<1>1. /\ UNCHANGED <<rows, lastId, app, posts, reply, quiet, owed>>
      /\ sweep'.doomed = {row.id : row \in {r \in Page : IsStale(r)}}
  BY DEF ListMachineProcesses
<1>2. \A i \in sweep'.doomed : \E row \in rows : row.id = i /\ row.age = Window
  <2>1. Page \subseteq rows
    BY DEF Page
  <2>2. \A row \in rows : row.age \in 0..Window
    BY DEF SeatTypes, RowType
  <2>3. \A row \in rows : IsStale(row) => row.age = Window
    BY <2>2, Sizes DEF IsStale
  <2> QED BY <1>1, <2>1, <2>3
<1>3. SeatTypes'
  <2>1. sweep'.doomed \subseteq 1..lastId
    BY <1>2 DEF SeatTypes, RowType
  <2> QED BY <1>1, <2>1 DEF SeatTypes, RowType
<1>4. DoomedAreSilent'
  <2>1. ASSUME NEW a \in Apps, app[a].pc = "running", app[a].id \in sweep'.doomed
        PROVE  quiet[a] = Window
    <3>1. PICK row \in rows : row.id = app[a].id /\ row.age = Window
      BY <1>2, <2>1
    <3>2. quiet[a] \in 0..Window
      BY DEF SeatTypes
    <3>3. ~(quiet[a] < Window)
      <4>1. SUFFICES ASSUME quiet[a] < Window
                     PROVE  FALSE
        OBVIOUS
      <4>2. PICK r \in rows : r.id = app[a].id /\ r.age <= quiet[a]
        BY <2>1, <4>1 DEF RowHeardOf
      <4>3. r = row
        BY <3>1, <4>2 DEF IdsAreUnique
      <4> QED BY <3>1, <3>2, <4>1, <4>2, <4>3, Sizes
    <3> QED BY <3>2, <3>3, Sizes
  <2>2. \A a \in Apps : reply[a].id \in sweep'.doomed =>
          \A row \in rows : row.id = reply[a].id => row.age = Window
    BY <1>2 DEF IdsAreUnique
  <2> QED BY <1>1, <2>1, <2>2 DEF DoomedAreSilent
<1> QED BY <1>1, <1>3, <1>4 DEF IdsAreUnique, RowHeardOf

LEMMA SweepDeleteStep ==
  ASSUME SeatInv, NEW id \in sweep.doomed, SweepDeletes(id)
  PROVE  SeatInv'
<1> USE DEF SeatInv
<1>1. /\ UNCHANGED <<lastId, app, posts, reply, quiet>>
      /\ sweep'.doomed \subseteq sweep.doomed
      /\ rows' = {row \in rows : row.id # id}
  <2>1. sweep' = [sweep EXCEPT !.doomed = @ \ {id}]
    BY DEF SweepDeletes
  <2>2. sweep'.doomed = {} \/ sweep'.doomed = sweep.doomed \/ sweep'.doomed = sweep.doomed \ {id}
    BY <2>1
  <2> QED BY <2>2 DEF SweepDeletes
<1>2. SeatTypes'
  BY <1>1 DEF SeatTypes, RowType
<1>3. IdsAreUnique'
  BY <1>1 DEF IdsAreUnique
<1>4. RowHeardOf'
  <2> SUFFICES ASSUME NEW a \in Apps, app[a].pc = "running", quiet[a] < Window
               PROVE  \E row \in rows' : row.id = app[a].id /\ row.age <= quiet[a]
    BY <1>1 DEF RowHeardOf
  <2>1. app[a].id # id
    BY Sizes DEF DoomedAreSilent
  <2> QED BY <1>1, <2>1 DEF RowHeardOf
<1>5. DoomedAreSilent'
  BY <1>1 DEF DoomedAreSilent
<1> QED BY <1>2, <1>3, <1>4, <1>5

\* A step that touches neither rows nor applications, and dooms nothing new.
LEMMA SweepQuietStep ==
  ASSUME SeatInv, UNCHANGED <<rows, lastId, app, posts, reply, quiet>>,
         sweep'.doomed \subseteq sweep.doomed
  PROVE  SeatInv'
<1> USE DEF SeatInv
<1>1. SeatTypes'
  BY DEF SeatTypes, RowType
<1>2. DoomedAreSilent'
  BY DEF DoomedAreSilent
<1> QED BY <1>1, <1>2 DEF IdsAreUnique, RowHeardOf

LEMMA NextSeats ==
  ASSUME SeatInv, [Next]_vars
  PROVE  SeatInv'
<1>1. ASSUME NEW launch \in Launches, CreateProcess(launch[1], launch[2])
      PROVE  SeatInv'
  BY <1>1, CreateStep, Sizes
<1>2. ASSUME NEW post \in posts, HandlePost(post)
      PROVE  SeatInv'
  BY <1>2, PostStep
<1>3. ASSUME NEW a \in Apps, Answered(a) \/ GiveUp(a) \/ Crash(a) \/ DeleteProcess(a)
      PROVE  SeatInv'
  <2>1. CASE Answered(a)
    BY <2>1, AnsweredStep
  <2>2. CASE GiveUp(a)
    BY <2>2, LeaveStep DEF GiveUp
  <2>3. CASE Crash(a)
    BY <2>3, LeaveStep DEF Crash
  <2>4. CASE DeleteProcess(a)
    BY <2>4, LeaveStep DEF DeleteProcess
  <2> QED BY <1>3, <2>1, <2>2, <2>3, <2>4
<1>4. CASE Tick
  BY <1>4, TickStep
<1>5. CASE SweepBegins
  <2>1. sweep'.doomed = {}
    BY <1>5 DEF SweepBegins, NoSweep
  <2> QED BY <1>5, <2>1, SweepQuietStep DEF SweepBegins
<1>6. CASE SweepStep
  <2>1. CASE ListMachineProcesses
    BY <2>1, ListStep
  <2>2. ASSUME NEW id \in sweep.doomed, SweepDeletes(id)
        PROVE  SeatInv'
    BY <2>2, SweepDeleteStep
  <2>3. CASE SweepGoesOn
    <3>1. sweep'.doomed \subseteq sweep.doomed
      BY <2>3 DEF SweepGoesOn, NoSweep
    <3> QED BY <2>3, <3>1, SweepQuietStep DEF SweepGoesOn
  <2> QED BY <1>6, <2>1, <2>2, <2>3 DEF SweepStep
<1>7. CASE UNCHANGED vars
  BY <1>7, SweepQuietStep DEF vars
<1> QED BY <1>1, <1>2, <1>3, <1>4, <1>5, <1>6, <1>7 DEF Next

\* However a sweep interleaves with launches, crashes, lost pings and its own
\* stale pages, it never deletes the row of an application whose pings were
\* heard within the window.
THEOREM SweepSparesThePinging == Spec => []PingingKeepsTheSeat
<1>1. SeatInv => PingingKeepsTheSeat
  BY DEF SeatInv, RowHeardOf, PingingKeepsTheSeat, Ids
<1> QED BY <1>1, InitSeats, NextSeats, PTL DEF Spec
-----------------------------------------------------------------------------
(* What a sweep leaves behind.                                             *)

SweepTypes ==
  /\ sweep \in [pc: {"idle", "listing", "deleting", "done"}, limit: Limits \cup {NoLimit},
                after: 0..lastId, full: BOOLEAN, doomed: SUBSET (1..lastId)]
  /\ owed \subseteq 1..lastId

\* The rows a sweep still owes are there, and still stale.
OwedAreThere ==
  \A i \in owed : \E row \in rows : row.id = i /\ row.age = Window

\* They lie behind the cursor, or on the page that is being dealt with.
OwedAreAhead ==
  /\ sweep.pc \in {"idle", "done"} => owed = {}
  /\ sweep.pc = "listing" => \A i \in owed : i > sweep.after
  /\ sweep.pc = "deleting" =>
       \A i \in owed : i \in sweep.doomed \/ (sweep.full /\ i > sweep.after)

SweepInv ==
  /\ SweepTypes
  /\ OwedAreThere
  /\ OwedAreAhead

\* Every set of numbers that is not empty has a least one.
LEMMA LeastOf ==
  ASSUME NEW S \in SUBSET Nat, S # {}
  PROVE  \E x \in S : \A y \in S : x <= y
<1>1. PICK x \in S : \A y \in S : ~(<<y, x>> \in OpToRel(<, Nat))
  BY NatLessThanWellFounded, WFMin
<1>2. \A y \in S : ~(y < x)
  BY <1>1 DEF OpToRel
<1> QED BY <1>2

\* A bounded one has a greatest, and Max finds it.
LEMMA MaxOf ==
  ASSUME NEW n \in Nat, NEW S \in SUBSET (0..n), S # {}
  PROVE  Max(S) \in S /\ \A y \in S : Max(S) >= y
<1> DEFINE T == {n - y : y \in S}
<1>1. T \subseteq Nat /\ T # {}
  <2>1. \A y \in S : n - y \in Nat
    OBVIOUS
  <2>2. PICK y \in S : TRUE
    OBVIOUS
  <2>3. n - y \in T
    OBVIOUS
  <2> QED BY <2>1, <2>3
<1>2. PICK x \in T : \A z \in T : x <= z
  BY <1>1, LeastOf
<1>3. PICK m \in S : x = n - m
  BY <1>2
<1>4. \A y \in S : m >= y
  BY <1>2, <1>3
<1> QED BY <1>4 DEF Max

LEMMA PageSizes ==
  /\ MAX_PAGE_SIZE \in Nat /\ PageCap \in Nat /\ MAX_PAGE_SIZE <= PageCap
  /\ Limits \subseteq 1..PageCap \cup {NoLimit} /\ NoLimit \notin Nat
BY ConstantsAssumption

\* The server applies the limit the sweep reckons with.
LEMMA LimitIsApplied ==
  ASSUME NEW limit \in Limits \cup {NoLimit}
  PROVE  /\ ListLimit(limit) \in Nat
         /\ ListLimit(limit) = IF limit = NoLimit THEN MAX_PAGE_SIZE ELSE limit
<1> DEFINE asked == IF limit = NoLimit THEN MAX_PAGE_SIZE ELSE limit
<1>1. asked \in Nat /\ asked <= PageCap /\ PageCap \in Nat
  BY PageSizes
<1> HIDE DEF asked
<1>2. Min({asked, PageCap}) = asked
  BY <1>1, MinOfTwo
<1> QED BY <1>1, <1>2 DEF ListLimit, asked

LEMMA RowsAreFinite ==
  ASSUME SeatInv
  PROVE  IsFiniteSet(rows)
<1> DEFINE f == [r \in rows |-> r.id]
<1>1. f \in Injection(rows, 1..lastId)
  BY DEF SeatInv, SeatTypes, RowType, IdsAreUnique, Injection, IsInjective
<1>2. IsFiniteSet(1..lastId)
  BY FS_Interval DEF SeatInv, SeatTypes
<1> QED BY <1>1, <1>2, FS_Injection

\* What a page leaves out lies behind all it holds, and the page is full.
LEMMA PageIsInOrder ==
  ASSUME SeatInv, SweepInv, NEW row \in rows, row.id > sweep.after, row \notin Page
  PROVE  /\ \A r \in Page : r.id < row.id
         /\ Cardinality(Page) >= ListLimit(sweep.limit)
<1> DEFINE rest == {r \in rows : r.id > sweep.after}
           Before(r) == {q \in rest : q.id < r.id}
           L == ListLimit(sweep.limit)
<1>1. Page = {r \in rest : Cardinality(Before(r)) < L}
  BY DEF Page, PageAfter
<1>2. L \in Nat
  BY LimitIsApplied DEF SweepInv, SweepTypes
<1>3. \A r \in rest : r \in rows /\ r.id \in Nat
  BY DEF SeatInv, SeatTypes, RowType
<1>4. IsFiniteSet(rest) /\ \A r \in rest : IsFiniteSet(Before(r)) /\ Cardinality(Before(r)) \in Nat
  <2>1. IsFiniteSet(rest)
    BY RowsAreFinite, FS_Subset
  <2>2. \A r \in rest : IsFiniteSet(Before(r))
    BY <2>1, FS_Subset
  <2> QED BY <2>1, <2>2, FS_CardinalityType
<1>5. \A r, s \in rest : r.id = s.id => r = s
  BY DEF SeatInv, IdsAreUnique
<1>6. row \in rest
  OBVIOUS
<1> HIDE DEF rest, L
<1>7. ASSUME NEW r \in Page
      PROVE  r.id < row.id
  <2>1. r \in rest /\ Cardinality(Before(r)) < L /\ ~(Cardinality(Before(row)) < L)
    BY <1>1, <1>6
  <2>2. SUFFICES ASSUME row.id <= r.id
                 PROVE  FALSE
    BY <1>3, <1>6, <2>1
  <2>3. Before(row) \subseteq Before(r)
    BY <1>3, <1>6, <2>1, <2>2
  <2>4. Cardinality(Before(row)) <= Cardinality(Before(r))
    BY <1>4, <2>1, <2>3, FS_Subset
  <2> QED BY <1>2, <1>4, <1>6, <2>1, <2>4
<1>8. Cardinality(Page) >= L
  <2> DEFINE Out == {r.id : r \in rest \ Page}
  <2>1. Out \in SUBSET Nat /\ Out # {}
    BY <1>3, <1>6
  <2>2. PICK i \in Out : \A j \in Out : i <= j
    BY <2>1, LeastOf
  <2>3. PICK u \in rest \ Page : u.id = i
    BY <2>2
  <2>4. Before(u) \subseteq Page
    BY <1>3, <2>2, <2>3
  <2>5. ~(Cardinality(Before(u)) < L)
    BY <1>1, <2>3
  <2>6. IsFiniteSet(Page)
    BY <1>1, <1>4, FS_Subset
  <2>7. Cardinality(Before(u)) <= Cardinality(Page) /\ Cardinality(Page) \in Nat
    BY <2>4, <2>6, FS_Subset, FS_CardinalityType
  <2> QED BY <1>2, <1>4, <2>3, <2>5, <2>7
<1> QED BY <1>7, <1>8 DEF L
LEMMA InitSweep == Init => SweepInv
BY Sizes DEF Init, NoSweep, SweepInv, SweepTypes, OwedAreThere, OwedAreAhead

\* What was owed is on the page now, or behind a full one.
LEMMA ListSweeps ==
  ASSUME SeatInv, SweepInv, ListMachineProcesses
  PROVE  SweepInv'
<1> DEFINE seen == {row.id : row \in Page} \cup {sweep.after}
           stale == {row.id : row \in {r \in Page : IsStale(r)}}
           full == (Cardinality(Page) >=
                      IF sweep.limit = NoLimit THEN MAX_PAGE_SIZE ELSE sweep.limit)
<1>1. /\ sweep.pc = "listing"
      /\ sweep' = [sweep EXCEPT !.pc = "deleting", !.after = Max(seen), !.full = full,
                                !.doomed = stale]
      /\ UNCHANGED <<rows, lastId, owed>>
  BY DEF ListMachineProcesses
<1>2. /\ Page \subseteq rows /\ sweep.after \in 0..lastId /\ lastId \in Nat
      /\ \A r \in rows : r.id \in 1..lastId
  BY DEF Page, SeatInv, SeatTypes, RowType, SweepInv, SweepTypes
<1>3. Max(seen) \in seen /\ seen \subseteq 0..lastId
  <2>1. seen \subseteq 0..lastId /\ seen # {}
    BY <1>2
  <2> QED BY <1>2, <2>1, MaxOf
<1>4. stale \subseteq 1..lastId
  BY <1>2
<1>5. full = (Cardinality(Page) >= ListLimit(sweep.limit)) /\ full \in BOOLEAN
  BY LimitIsApplied DEF SweepInv, SweepTypes
<1> HIDE DEF stale, full
<1>6. /\ sweep'.pc = "deleting" /\ sweep'.after = Max(seen) /\ sweep'.full = full
      /\ sweep'.doomed = stale /\ sweep'.limit = sweep.limit
  BY <1>1 DEF SweepInv, SweepTypes
<1>7. SweepTypes'
  BY <1>1, <1>3, <1>4, <1>5 DEF SweepInv, SweepTypes
<1>8. OwedAreThere'
  BY <1>1 DEF SweepInv, OwedAreThere
<1>9. ASSUME NEW i \in owed
      PROVE  i \in stale \/ (full /\ i > Max(seen))
  <2>1. PICK row \in rows : row.id = i /\ row.age = Window
    BY DEF SweepInv, OwedAreThere
  <2>2. row.id > sweep.after
    BY <1>1, <2>1 DEF SweepInv, OwedAreAhead
  <2>3. CASE row \in Page
    BY <2>1, <2>3, Sizes DEF stale, IsStale
  <2>4. CASE row \notin Page
    <3>1. (\A r \in Page : r.id < row.id) /\ full
      BY <1>5, <2>2, <2>4, PageIsInOrder
    <3>2. \A k \in seen : k < row.id
      BY <2>2, <3>1
    <3> HIDE DEF seen
    <3> QED BY <1>2, <1>3, <2>1, <3>1, <3>2
  <2> QED BY <2>3, <2>4
<1>10. OwedAreAhead'
  BY <1>1, <1>6, <1>9 DEF OwedAreAhead
<1> QED BY <1>7, <1>8, <1>10 DEF SweepInv

\* A step that takes no owed row leaves the sweep as it was.
LEMMA SweepUndisturbed ==
  ASSUME SweepInv, sweep' = sweep, owed' \subseteq owed,
         lastId \in Nat, lastId' \in Nat, lastId <= lastId',
         \A i \in owed' : \E row \in rows' : row.id = i /\ row.age = Window
  PROVE  SweepInv'
<1>1. 0..lastId \subseteq 0..lastId' /\ 1..lastId \subseteq 1..lastId'
  OBVIOUS
<1>2. SweepTypes'
  BY <1>1 DEF SweepInv, SweepTypes
<1>3. OwedAreThere' /\ OwedAreAhead'
  BY DEF SweepInv, OwedAreThere, OwedAreAhead
<1> QED BY <1>2, <1>3 DEF SweepInv

LEMMA TickSweeps ==
  ASSUME SeatInv, SweepInv, Tick
  PROVE  SweepInv'
<1>1. PICK lost \in SUBSET {a \in Apps : Pings(a)} :
        LET heard == {app[a].id : a \in {b \in Apps : Pings(b)} \ lost} IN
        /\ rows' = {[row EXCEPT !.age = IF row.id \in heard THEN 0
                                        ELSE Min({@ + 1, Window})] : row \in rows}
        /\ owed' = owed \ heard
        /\ UNCHANGED <<lastId, sweep>>
  BY DEF Tick
<1> DEFINE heard == {app[a].id : a \in {b \in Apps : Pings(b)} \ lost}
           Older(row) == [row EXCEPT !.age = IF row.id \in heard THEN 0
                                             ELSE Min({@ + 1, Window})]
<1>2. rows' = {Older(row) : row \in rows} /\ owed' = owed \ heard
  BY <1>1
<1>3. Min({Window + 1, Window}) = Window
  BY Sizes, MinOfTwo
<1>4. ASSUME NEW row \in rows, row.id \notin heard, row.age = Window
      PROVE  Older(row).id = row.id /\ Older(row).age = Window
  <2>1. row \in RowType
    BY DEF SeatInv, SeatTypes
  <2>2. Older(row) = [row EXCEPT !.age = Window]
    BY <1>3, <1>4
  <2> QED BY <2>1, <2>2 DEF RowType
<1> HIDE DEF heard, Older
<1>5. \A i \in owed' : \E row \in rows' : row.id = i /\ row.age = Window
  BY <1>2, <1>4 DEF SweepInv, OwedAreThere
<1>6. lastId \in Nat /\ lastId' = lastId /\ sweep' = sweep
  BY <1>1 DEF SeatInv, SeatTypes
<1> QED BY <1>2, <1>5, <1>6, SweepUndisturbed

LEMMA NextSweeps ==
  ASSUME SeatInv, SweepInv, [Next]_vars
  PROVE  SweepInv'
<1>0. lastId \in Nat /\ \A row \in rows : row.id \in 1..lastId /\ row.age \in 0..Window
  BY DEF SeatInv, SeatTypes, RowType
<1>1. ASSUME UNCHANGED <<rows, lastId, sweep, owed>>
      PROVE  SweepInv'
  <2>1. \A i \in owed' : \E row \in rows' : row.id = i /\ row.age = Window
    BY <1>1 DEF SweepInv, OwedAreThere
  <2>2. sweep' = sweep /\ owed' = owed /\ lastId' = lastId /\ lastId \in Nat
    BY <1>0, <1>1
  <2> QED BY <2>1, <2>2, SweepUndisturbed
<1>2. ASSUME NEW post \in posts, HandlePost(post)
      PROVE  SweepInv'
  <2>1. rows \subseteq rows' /\ UNCHANGED <<sweep, owed>>
    BY <1>2 DEF HandlePost
  <2>2. lastId' \in Nat /\ lastId <= lastId'
    BY <1>0, <1>2 DEF HandlePost
  <2> QED BY <1>0, <2>1, <2>2, SweepUndisturbed DEF SweepInv, OwedAreThere
<1>3. ASSUME NEW a \in Apps, DeleteProcess(a)
      PROVE  SweepInv'
  <2>1. UNCHANGED <<lastId, sweep>>
    BY <1>3 DEF DeleteProcess
  <2>2. CASE UNCHANGED <<rows, owed>>
    BY <1>1, <2>1, <2>2
  <2>3. CASE rows' = {row \in rows : row.id # app[a].id} /\ owed' = owed \ {app[a].id}
    BY <1>0, <2>1, <2>3, SweepUndisturbed DEF SweepInv, OwedAreThere
  <2> QED BY <1>3, <2>2, <2>3 DEF DeleteProcess
<1>4. CASE SweepBegins
  <2>1. PICK limit \in Limits : sweep' = [NoSweep EXCEPT !.pc = "listing", !.limit = limit]
    BY <1>4 DEF SweepBegins
  <2>2. owed' = {row.id : row \in {r \in rows : IsStale(r)}} /\ UNCHANGED <<rows, lastId>>
    BY <1>4 DEF SweepBegins
  <2>3. sweep'.pc = "listing" /\ sweep'.after = 0 /\ SweepTypes'
    <3>1. sweep' = [pc |-> "listing", limit |-> limit, after |-> 0, full |-> FALSE, doomed |-> {}]
      BY <2>1 DEF NoSweep
    <3>2. owed' \subseteq 1..lastId' /\ 0 \in 0..lastId'
      BY <1>0, <2>2
    <3>3. SweepTypes'
      BY <3>1, <3>2 DEF SweepTypes
    <3> QED BY <3>1, <3>3
  <2>4. OwedAreThere'
    BY <1>0, <2>2, Sizes DEF OwedAreThere, IsStale
  <2>5. \A i \in owed' : i > 0
    BY <1>0, <2>2
  <2> QED BY <2>3, <2>4, <2>5 DEF SweepInv, OwedAreAhead
<1>5. ASSUME NEW id \in sweep.doomed, SweepDeletes(id)
      PROVE  SweepInv'
  <2>1. /\ sweep' = [sweep EXCEPT !.doomed = @ \ {id}]
        /\ rows' = {row \in rows : row.id # id}
        /\ owed' = owed \ {id}
        /\ lastId' = lastId
        /\ sweep.pc = "deleting"
    BY <1>5 DEF SweepDeletes
  <2>2. SweepTypes'
    BY <2>1 DEF SweepInv, SweepTypes
  <2>3. OwedAreThere'
    BY <2>1 DEF SweepInv, OwedAreThere
  <2>4. /\ sweep'.pc = "deleting" /\ sweep'.after = sweep.after /\ sweep'.full = sweep.full
        /\ sweep'.doomed = sweep.doomed \ {id}
    BY <2>1 DEF SweepInv, SweepTypes
  <2>5. OwedAreAhead'
    BY <2>1, <2>4 DEF SweepInv, OwedAreAhead
  <2> QED BY <2>2, <2>3, <2>5 DEF SweepInv
<1>6. CASE SweepGoesOn
  <2>1. sweep.pc = "deleting" /\ sweep.doomed = {} /\ UNCHANGED <<rows, lastId, owed>>
    BY <1>6 DEF SweepGoesOn
  <2>2. CASE sweep.full
    <3>1. sweep' = [sweep EXCEPT !.pc = "listing", !.full = FALSE]
      BY <1>6, <2>2 DEF SweepGoesOn
    <3>2. sweep'.pc = "listing" /\ sweep'.after = sweep.after
      BY <3>1 DEF SweepInv, SweepTypes
    <3>3. SweepTypes'
      BY <2>1, <3>1 DEF SweepInv, SweepTypes
    <3> QED BY <2>1, <3>2, <3>3 DEF SweepInv, OwedAreThere, OwedAreAhead
  <2>3. CASE ~sweep.full
    <3>1. sweep' = [NoSweep EXCEPT !.pc = "done"]
      BY <1>6, <2>3 DEF SweepGoesOn
    <3>2. sweep'.pc = "done" /\ owed' = {}
      BY <2>1, <2>3, <3>1 DEF NoSweep, SweepInv, OwedAreAhead
    <3>3. sweep' = [pc |-> "done", limit |-> NoLimit, after |-> 0, full |-> FALSE, doomed |-> {}]
      BY <3>1 DEF NoSweep
    <3>4. 0 \in 0..lastId'
      BY <1>0, <2>1
    <3>5. SweepTypes'
      BY <3>2, <3>3, <3>4 DEF SweepTypes
    <3> QED BY <3>2, <3>5 DEF SweepInv, OwedAreThere, OwedAreAhead
  <2> QED BY <2>2, <2>3
<1>7. CASE Tick
  BY <1>7, TickSweeps
<1>8. CASE ListMachineProcesses
  BY <1>8, ListSweeps
<1> QED
  BY <1>1, <1>2, <1>3, <1>4, <1>5, <1>6, <1>7, <1>8
  DEF Next, SweepStep, CreateProcess, Answered, GiveUp, Crash, vars

\* The walk deletes rows of the very list it reads, by a cursor that may name
\* a row that is gone, while rows come, go and turn stale: it still leaves
\* none of those that were stale when it began and stayed so.
THEOREM SweepFreesTheStale == Spec => []SweepFreesAll
<1>1. SweepInv => SweepFreesAll
  BY DEF SweepInv, OwedAreAhead, SweepFreesAll
<1> QED BY <1>1, InitSeats, NextSeats, InitSweep, NextSweeps, PTL DEF Spec

\* Type correctness of the seats, the applications and the sweep.
THEOREM TypeCorrect == Spec => []TypeOK
<1>1. SeatInv /\ SweepInv => TypeOK
  BY DEF SeatInv, SeatTypes, RowType, IdsAreUnique, SweepInv, SweepTypes, TypeOK
<1> QED BY <1>1, InitSeats, NextSeats, InitSweep, NextSweeps, PTL DEF Spec
=============================================================================

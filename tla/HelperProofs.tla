---------------------------- MODULE HelperProofs ----------------------------
(***************************************************************************)
(* Theorems about Helper, for any number of runs, processes, command lines *)
(* and accounts: what the helper does is what it was asked to do, to whom  *)
(* it was to be done, is audited, and what the caller is told is true. And *)
(* about StorageScan, which MCHelper puts beside it, for any trees, any    *)
(* database and any limits: what a scan reports is what is there.          *)
(***************************************************************************)
EXTENDS MCHelper, SumTheorems

-----------------------------------------------------------------------------
(* The command line *)

\* The operations anybody asks for.
Shaped(o) ==
    \/ \E p, t, s : o = Operation("process-signal", p, t, s, 0)
    \/ \E p, t, n : o = Operation("renice", p, t, "none", n)
    \/ \E p : o = Operation("process-detail", p, 0, "none", 0)
    \/ \E n \in Reads \ {"process-detail"} : o = Plain(n)

\* Of three flags with different keys, each is found.
LEMMA ThreeFlags ==
    ASSUME NEW k1, NEW k2, NEW k3, NEW v1, NEW v2, NEW v3,
           k1 # k2, k1 # k3, k2 # k3
    PROVE  LET flags == << <<k1, v1>>, <<k2, v2>>, <<k3, v3>> >>
           IN  /\ Keys(flags) = {k1, k2, k3}
               /\ Value(flags, k1) = v1
               /\ Value(flags, k2) = v2
               /\ Value(flags, k3) = v3
<1> DEFINE flags == << <<k1, v1>>, <<k2, v2>>, <<k3, v3>> >>
<1>1. DOMAIN flags = {1, 2, 3}
  OBVIOUS
<1>2. /\ flags[1] = <<k1, v1>> /\ flags[2] = <<k2, v2>> /\ flags[3] = <<k3, v3>>
  OBVIOUS
<1>3. /\ flags[1][1] = k1 /\ flags[2][1] = k2 /\ flags[3][1] = k3
      /\ flags[1][2] = v1 /\ flags[2][2] = v2 /\ flags[3][2] = v3
  BY <1>2
<1> HIDE DEF flags
<1>4. Keys(flags) = {k1, k2, k3}
  BY <1>1, <1>3 DEF Keys
<1>5. /\ (CHOOSE i \in DOMAIN flags : flags[i][1] = k1) = 1
      /\ (CHOOSE i \in DOMAIN flags : flags[i][1] = k2) = 2
      /\ (CHOOSE i \in DOMAIN flags : flags[i][1] = k3) = 3
  BY <1>1, <1>3
<1> QED
  BY <1>3, <1>4, <1>5 DEF Value, flags

LEMMA OneFlag ==
    ASSUME NEW k, NEW v
    PROVE  Keys(<< <<k, v>> >>) = {k} /\ Value(<< <<k, v>> >>, k) = v
<1> DEFINE flags == << <<k, v>> >>
<1>1. DOMAIN flags = {1} /\ flags[1] = <<k, v>>
  OBVIOUS
<1>2. flags[1][1] = k /\ flags[1][2] = v
  BY <1>1
<1> HIDE DEF flags
<1>3. (CHOOSE i \in DOMAIN flags : flags[i][1] = k) = 1
  BY <1>1, <1>2
<1> QED
  BY <1>1, <1>2, <1>3 DEF Keys, Value, flags

LEMMA NoFlag == Keys(<< >>) = {}
BY DEF Keys

\* An operation goes through the command line and back (to_argv, parse_argv).
LEMMA RoundTrip ==
    ASSUME NEW o, Shaped(o)
    PROVE  Parsed(ToArgv(o)) = o
<1>1. CASE \E p, t, s : o = Operation("process-signal", p, t, s, 0)
  <2>1. PICK p, t, s : o = Operation("process-signal", p, t, s, 0)
    BY <1>1
  <2> DEFINE flags == << <<"pid", p>>, <<"starttime", t>>, <<"signal", s>> >>
  <2>2. ToArgv(o) = [sub |-> "process-signal", flags |-> flags]
    BY <2>1 DEF ToArgv, Operation
  <2>3. /\ Keys(flags) = {"pid", "starttime", "signal"}
        /\ Value(flags, "pid") = p /\ Value(flags, "starttime") = t
        /\ Value(flags, "signal") = s
    BY ThreeFlags
  <2> HIDE DEF flags
  <2> QED
    BY <2>1, <2>2, <2>3 DEF Parsed, Operation
<1>2. CASE \E p, t, n : o = Operation("renice", p, t, "none", n)
  <2>1. PICK p, t, n : o = Operation("renice", p, t, "none", n)
    BY <1>2
  <2> DEFINE flags == << <<"pid", p>>, <<"starttime", t>>, <<"nice", n>> >>
  <2>2. ToArgv(o) = [sub |-> "renice", flags |-> flags]
    BY <2>1 DEF ToArgv, Operation
  <2>3. /\ Keys(flags) = {"pid", "starttime", "nice"}
        /\ Value(flags, "pid") = p /\ Value(flags, "starttime") = t
        /\ Value(flags, "nice") = n
    BY ThreeFlags
  <2> HIDE DEF flags
  <2> QED
    BY <2>1, <2>2, <2>3 DEF Parsed, Operation
<1>3. CASE \E p : o = Operation("process-detail", p, 0, "none", 0)
  <2>1. PICK p : o = Operation("process-detail", p, 0, "none", 0)
    BY <1>3
  <2> DEFINE flags == << <<"pid", p>> >>
  <2>2. ToArgv(o) = [sub |-> "process-detail", flags |-> flags]
    BY <2>1 DEF ToArgv, Operation
  <2>3. Keys(flags) = {"pid"} /\ Value(flags, "pid") = p
    BY OneFlag
  <2> HIDE DEF flags
  <2> QED
    BY <2>1, <2>2, <2>3 DEF Parsed, Operation
<1>4. CASE \E n \in Reads \ {"process-detail"} : o = Plain(n)
  <2>1. PICK n \in Reads \ {"process-detail"} : o = Plain(n)
    BY <1>4
  <2>2. n \in {"capability", "user-memory", "storage-users", "storage-user-detail"}
    BY DEF Reads, Scans
  <2> DEFINE flags == IF n = "storage-user-detail" THEN << <<"user", "name">> >> ELSE << >>
  <2>3. ToArgv(o) = [sub |-> n, flags |-> flags]
    BY <2>1, <2>2 DEF ToArgv, Operation, Plain
  <2>4. Keys(flags) = {} \/ Keys(flags) = {"user"}
    BY OneFlag, NoFlag
  <2> HIDE DEF flags
  <2> QED
    BY <2>1, <2>3, <2>4 DEF Parsed, Operation, Plain
<1> QED
  BY <1>1, <1>2, <1>3, <1>4 DEF Shaped

\* What somebody asks for is such an operation.
LEMMA AskableShaped ==
    ASSUME TypeOK, NEW o \in Askable
    PROVE  /\ Shaped(o) /\ o \in Tasks /\ o.name # "none"
           /\ o.name \in Mutations \cup {"process-detail"} => o.pid \in Pids
<1> USE ProcessAssumption, AskedAssumption
<1>1. CASE \E p \in Pids, s \in Signals : o = Operation("process-signal", p, procs[p], s, 0)
  <2>1. PICK p \in Pids, s \in Signals : o = Operation("process-signal", p, procs[p], s, 0)
    BY <1>1
  <2>2. p \in Int /\ procs[p] \in Int
    BY DEF TypeOK
  <2>3. o \in Tasks /\ o.name # "none" /\ o.pid \in Pids
    BY <2>1, <2>2 DEF Operation, Tasks, Mutations
  <2>4. Shaped(o)
    BY <2>1 DEF Shaped
  <2> QED
    BY <2>3, <2>4
<1>2. CASE \E p \in Pids, n \in Nices : o = Operation("renice", p, procs[p], "none", n)
  <2>1. PICK p \in Pids, n \in Nices : o = Operation("renice", p, procs[p], "none", n)
    BY <1>2
  <2>2. p \in Int /\ procs[p] \in Int /\ n \in Int
    BY DEF TypeOK
  <2>3. o \in Tasks /\ o.name # "none" /\ o.pid \in Pids
    BY <2>1, <2>2 DEF Operation, Tasks, Mutations
  <2>4. Shaped(o)
    BY <2>1 DEF Shaped
  <2> QED
    BY <2>3, <2>4
<1>3. CASE \E p \in Pids : o = Operation("process-detail", p, 0, "none", 0)
  <2>1. PICK p \in Pids : o = Operation("process-detail", p, 0, "none", 0)
    BY <1>3
  <2>2. p \in Int
    OBVIOUS
  <2>3. o \in Tasks /\ o.name # "none" /\ o.pid \in Pids
    BY <2>1, <2>2 DEF Operation, Tasks, Reads
  <2>4. Shaped(o)
    BY <2>1 DEF Shaped
  <2> QED
    BY <2>3, <2>4
<1>4. CASE \E n \in Reads \ {"process-detail"} : o = Plain(n)
  BY <1>4 DEF Shaped, Operation, Plain, Tasks, Reads, Scans, Mutations
<1> QED
  BY <1>1, <1>2, <1>3, <1>4 DEF Askable

\* What a command line of either kind is parsed to.
LEMMA ParsedTyped ==
    ASSUME TypeOK, NEW r \in Runs, Parses(Argv(r)),
           hand[r] = 0 => /\ Shaped(asked[r])
                          /\ asked[r].name \in Mutations \cup {"process-detail"}
                                => asked[r].pid \in Pids
    PROVE  /\ Parsed(Argv(r)) \in Tasks
           /\ Parsed(Argv(r)).name \in Mutations \cup Reads
           /\ Parsed(Argv(r)).name = "process-signal"
                => Parsed(Argv(r)).signal \in SafeSignals
           /\ Parsed(Argv(r)).name \in Mutations \cup {"process-detail"}
                => Parsed(Argv(r)).pid \in Pids
           /\ hand[r] = 0 => Parsed(Argv(r)) = asked[r]
<1> DEFINE argv == Argv(r)
           flags == argv.flags
           o == Parsed(argv)
<1>1. /\ o.name = argv.sub
      /\ o.pid = IF "pid" \in Keys(flags) THEN Value(flags, "pid") ELSE 0
      /\ o.starttime = IF "starttime" \in Keys(flags) THEN Value(flags, "starttime") ELSE 0
      /\ o.signal = IF "signal" \in Keys(flags) THEN Value(flags, "signal") ELSE "none"
      /\ o.nice = IF "nice" \in Keys(flags) THEN Value(flags, "nice") ELSE 0
      /\ o = Operation(o.name, o.pid, o.starttime, o.signal, o.nice)
  BY DEF Parsed, Operation
<1>2. o.name \in Mutations \cup Reads
  BY <1>1 DEF Parses
<1>3. /\ o.name = "process-signal" => o.signal \in SafeSignals
      /\ o.name # "process-signal" => o.signal = "none"
  BY <1>1, <1>2 DEF Parses, Allowed, Mutations, Reads, Scans
<1>4. CASE hand[r] = 0
  <2>1. o = asked[r]
    BY <1>4, RoundTrip DEF Argv
  <2>2. o \in Tasks
    BY <2>1 DEF TypeOK
  <2> QED
    BY <1>2, <1>3, <1>4, <2>1, <2>2
<1>5. CASE hand[r] # 0
  <2>1. argv = HandArgv[hand[r]] /\ hand[r] \in DOMAIN HandArgv
    BY <1>5, HandAssumption DEF TypeOK, Argv
  <2>2. ASSUME NEW key \in {"pid", "starttime", "nice"}, key \in Keys(flags)
        PROVE  /\ Value(flags, key) \in Int
               /\ key = "pid" => Value(flags, key) \in Pids \/ Value(flags, key) <= 0
    <3>1. \E i \in DOMAIN flags : flags[i][1] = key
      BY <2>2 DEF Keys
    <3>2. PICK i \in DOMAIN flags : flags[i][1] = key /\ Value(flags, key) = flags[i][2]
      BY <3>1 DEF Value
    <3> QED
      BY <2>1, <2>2, <3>2, HandAssumption
  <2> HIDE DEF argv, flags, o
  <2>3. o.pid \in Int /\ o.starttime \in Int /\ o.nice \in Int
    BY <1>1, <2>2
  <2>4. o.name \in Mutations \cup {"process-detail"} => o.pid \in Pids
    <3>1. SUFFICES ASSUME o.name \in Mutations \cup {"process-detail"}
                   PROVE  o.pid \in Pids
      OBVIOUS
    <3>2. "pid" \in Allowed(argv.sub)
      BY <1>1, <3>1 DEF Allowed, Mutations
    <3>3. "pid" \in Keys(flags) /\ Value(flags, "pid") > 0
      BY <3>2 DEF Parses, argv, flags
    <3> QED
      BY <1>1, <2>2, <3>3
  <2>5. o \in Tasks
    BY <1>1, <1>2, <1>3, <2>3 DEF Tasks, Operation
  <2> QED
    BY <1>2, <1>3, <1>5, <2>4, <2>5 DEF o, argv
<1> QED
  BY <1>4, <1>5

-----------------------------------------------------------------------------
(* The inductive invariant: what is known of one run *)

Early == {"none", "sudo", "start"}
Working == {"stat", "owner", "act", "accounts", "scan", "read"}
OnProcess == Mutations \cup {"process-detail"}

\* Who started it, with what, and what it can have been told.
CallerOK(r) ==
    /\ client[r] = "idle" => pc[r] = "none" /\ hand[r] = 0 /\ asked[r] = NoTask
    /\ client[r] = "byhand" => hand[r] # 0 /\ asked[r] = NoTask
    /\ client[r] \in {"waiting", "killing", "told", "gone"} =>
          /\ hand[r] = 0
          /\ Shaped(asked[r])
          /\ asked[r].name # "none"
          /\ asked[r].name \in OnProcess => asked[r].pid \in Pids
    /\ client[r] = "told" => pc[r] \in {"none", "ended"}
    /\ client[r] # "told" => result[r] = "none"
    /\ client[r] = "waiting" /\ pc[r] = "ended" => out[r] # "none"

\* Before its first step the helper has done and said nothing.
EarlyOK(r) ==
    pc[r] \in Early =>
        /\ task[r] = NoTask /\ victim[r] = 0 /\ verdict[r] = "none"
        /\ audited[r] = "none" /\ out[r] = "none"

\* While it works it has done and said nothing, and has checked its task.
WorkOK(r) ==
    pc[r] \in Working =>
        /\ victim[r] = 0 /\ verdict[r] = "none" /\ audited[r] = "none" /\ out[r] = "none"
        /\ pc[r] \in {"stat", "owner"} => task[r].name \in OnProcess
        /\ pc[r] = "act" => task[r].name \in Mutations
        /\ pc[r] \in {"accounts", "scan"} => task[r].name \in Scans
        /\ pc[r] = "read" => task[r].name \in Reads
        /\ pc[r] \in {"stat", "owner", "act"} => task[r].pid \in Pids
        /\ task[r].name = "process-signal" => task[r].signal \in SafeSignals
        /\ task[r].name = "renice" => task[r].nice \in 0 .. 19

\* What an act leaves behind, and what is said of it.
ActOK(r) ==
    /\ victim[r] # 0 =>
          /\ pc[r] \in {"audit", "emit", "ended"}
          /\ verdict[r] = "ok"
          /\ \/ /\ task[r].name = "process-signal"
                /\ task[r].signal \in SafeSignals
                /\ task[r].pid # 1
             \/ /\ task[r].name = "renice"
                /\ task[r].nice \in 0 .. 19
          /\ pc[r] # "audit" => audited[r] = "ok"
          /\ victim[r] = task[r].starttime \/ victim[r] >= checked[r]
    /\ verdict[r] = "ok" /\ task[r].name \in Mutations => victim[r] # 0
    /\ verdict[r] \in {"ok", "failed"} => task[r].name # "none"
    /\ audited[r] = "ok" => victim[r] # 0

AnswerOK(r) ==
    /\ pc[r] = "audit" =>
          /\ task[r].name \in Mutations
          /\ verdict[r] \in {"ok", "failed"}
          /\ audited[r] = "none" /\ out[r] = "none"
    /\ pc[r] = "emit" => verdict[r] # "none" /\ out[r] = "none"
    /\ out[r] # "none" => pc[r] = "ended"
    /\ out[r] = "ok" => verdict[r] = "ok"
    /\ out[r] = "error" => verdict[r] # "ok"
    /\ out[r] = "refused" => verdict[r] = "none" /\ victim[r] = 0

\* A process that has the id and is not the one named has it since the check.
NamedOK(r) ==
    /\ checked[r] <= born
    /\ pc[r] \in {"owner", "act"} /\ task[r].name \in Mutations =>
          \/ procs[task[r].pid] \in {0, task[r].starttime}
          \/ procs[task[r].pid] >= checked[r]

TaskOK(r) == task[r] # NoTask /\ hand[r] = 0 => task[r] = asked[r]

\* The seconds spent are those of the accounts that are done.
SpentOK(r) ==
    /\ left[r] <= users[r]
    /\ spent[r] <= (users[r] - left[r]) * PerUser(task[r], users[r])
    /\ users[r] > 0 => task[r].name \in Scans
    /\ task[r].name # "storage-users" => users[r] <= 1
    /\ pc[r] \in Early \cup {"accounts"} => users[r] = 0

\* A call that ran out of time had a reason to.
TimeOK(r) ==
    client[r] = "killing" \/ result[r] = "timeout" =>
        late[r] \/ spent[r] >= LimitOf(asked[r])

RunOK(r) ==
    /\ CallerOK(r) /\ EarlyOK(r) /\ WorkOK(r) /\ ActOK(r) /\ AnswerOK(r)
    /\ NamedOK(r) /\ TaskOK(r) /\ SpentOK(r) /\ TimeOK(r)

\* Start times of ids grow.
Ages == \A p \in Pids : procs[p] < born

IInv == TypeOK /\ Ages /\ \A r \in Runs : RunOK(r)

LEMMA NoTaskTyped == NoTask \in Tasks /\ NoTask.name = "none"
BY DEF NoTask, Plain, Operation, Tasks

LEMMA PerUserNat ==
    ASSUME NEW o, NEW n \in Nat
    PROVE  PerUser(o, n) \in Nat
BY TimeAssumption DEF PerUser

\* Nothing of a run changes.
Untouched(r) ==
    /\ client'[r] = client[r] /\ asked'[r] = asked[r] /\ result'[r] = result[r]
    /\ pc'[r] = pc[r] /\ hand'[r] = hand[r] /\ task'[r] = task[r]
    /\ checked'[r] = checked[r] /\ victim'[r] = victim[r]
    /\ verdict'[r] = verdict[r] /\ audited'[r] = audited[r] /\ out'[r] = out[r]
    /\ users'[r] = users[r] /\ left'[r] = left[r] /\ spent'[r] = spent[r]
    /\ (late'[r] <=> late[r])

LEMMA StaysOK ==
    ASSUME NEW r \in Runs, RunOK(r), Untouched(r), procs' = procs, born' = born
    PROVE  RunOK(r)'
<1> USE DEF Untouched
<1>1. CallerOK(r)' /\ TaskOK(r)' /\ TimeOK(r)'
  BY DEF RunOK, CallerOK, TaskOK, TimeOK
<1>2. EarlyOK(r)' /\ WorkOK(r)'
  BY DEF RunOK, EarlyOK, WorkOK
<1>3. ActOK(r)' /\ AnswerOK(r)' /\ NamedOK(r)'
  BY DEF RunOK, ActOK, AnswerOK, NamedOK
<1>4. SpentOK(r)'
  BY DEF RunOK, SpentOK
<1> QED
  BY <1>1, <1>2, <1>3, <1>4 DEF RunOK

-----------------------------------------------------------------------------
(* The calling thread and sudo *)

LEMMA AsksOK ==
    ASSUME TypeOK, NEW r \in Runs, RunOK(r), NEW o \in Askable, Asks(r, o)
    PROVE  TypeOK' /\ RunOK(r)' /\ \A q \in Runs \ {r} : Untouched(q)
<1> USE DEF Asks, table, effects, log, scan
<1>1. /\ Shaped(o) /\ o \in Tasks /\ o.name # "none"
      /\ o.name \in OnProcess => o.pid \in Pids
  BY AskableShaped DEF OnProcess
<1>2. TypeOK'
  BY <1>1, ZenonT(30) DEF TypeOK, HelperPoints
<1>3. \A q \in Runs \ {r} : Untouched(q)
  BY DEF Untouched, TypeOK
<1>4. /\ client[r] = "idle" /\ pc[r] = "none" /\ hand[r] = 0 /\ result[r] = "none"
      /\ asked'[r] = o /\ hand'[r] = 0
      /\ \/ client'[r] = "waiting" /\ pc'[r] = "sudo" /\ result'[r] = "none"
         \/ client'[r] = "told" /\ pc'[r] = "none" /\ result'[r] = "failed"
  BY DEF TypeOK, RunOK, CallerOK
<1>5. CallerOK(r)' /\ TimeOK(r)'
  BY <1>1, <1>4 DEF CallerOK, TimeOK
<1>6. EarlyOK(r)' /\ WorkOK(r)' /\ ActOK(r)' /\ AnswerOK(r)' /\ TaskOK(r)'
  BY <1>4 DEF RunOK, EarlyOK, WorkOK, ActOK, AnswerOK, TaskOK, Early, Working
<1>7. NamedOK(r)' /\ SpentOK(r)'
  BY <1>4 DEF RunOK, NamedOK, SpentOK, Early
<1> QED
  BY <1>2, <1>3, <1>5, <1>6, <1>7 DEF RunOK

LEMMA StartedByHandOK ==
    ASSUME TypeOK, NEW r \in Runs, RunOK(r), NEW i \in DOMAIN HandArgv, StartedByHand(r, i)
    PROVE  TypeOK' /\ RunOK(r)' /\ \A q \in Runs \ {r} : Untouched(q)
<1> USE DEF StartedByHand, table, caller, effects, log, scan
<1>1. TypeOK'
  BY HandAssumption, SMTT(30) DEF TypeOK, HelperPoints
<1>2. \A q \in Runs \ {r} : Untouched(q)
  BY DEF Untouched, TypeOK
<1>3. /\ client[r] = "idle" /\ client'[r] = "byhand"
      /\ pc[r] = "none" /\ result[r] = "none" /\ asked[r] = NoTask
      /\ hand'[r] = i /\ i # 0 /\ pc'[r] = "start"
  BY HandAssumption DEF TypeOK, RunOK, CallerOK
<1>4. CallerOK(r)' /\ TimeOK(r)' /\ TaskOK(r)'
  BY <1>3 DEF RunOK, CallerOK, TimeOK, TaskOK, EarlyOK, Early
<1>5. EarlyOK(r)' /\ WorkOK(r)'
  BY <1>3 DEF RunOK, EarlyOK, WorkOK, Early, Working
<1>6. ActOK(r)' /\ AnswerOK(r)'
  BY <1>3 DEF RunOK, EarlyOK, ActOK, AnswerOK, Early
<1>7. NamedOK(r)' /\ SpentOK(r)'
  BY <1>3 DEF RunOK, NamedOK, SpentOK, EarlyOK, Early
<1> QED
  BY <1>1, <1>2, <1>4, <1>5, <1>6, <1>7 DEF RunOK

LEMMA SudoDecidesOK ==
    ASSUME TypeOK, NEW r \in Runs, RunOK(r), SudoDecides(r)
    PROVE  TypeOK' /\ RunOK(r)' /\ \A q \in Runs \ {r} : Untouched(q)
<1> USE DEF SudoDecides, table, caller, effects, log, scan
<1>1. TypeOK'
  BY ZenonT(30) DEF TypeOK, HelperPoints
<1>2. \A q \in Runs \ {r} : Untouched(q)
  BY DEF Untouched, TypeOK
<1>3. /\ pc[r] = "sudo"
      /\ \/ pc'[r] = "start" /\ out'[r] = out[r]
         \/ pc'[r] = "ended" /\ out'[r] = "refused"
  BY DEF TypeOK
<1>4. CallerOK(r)' /\ TimeOK(r)' /\ TaskOK(r)'
  BY <1>3 DEF RunOK, CallerOK, TimeOK, TaskOK, EarlyOK, Early
<1>5. EarlyOK(r)' /\ WorkOK(r)'
  BY <1>3 DEF RunOK, EarlyOK, WorkOK, Early, Working
<1>6. ActOK(r)' /\ AnswerOK(r)'
  BY <1>3 DEF RunOK, EarlyOK, ActOK, AnswerOK, Early
<1>7. NamedOK(r)' /\ SpentOK(r)'
  BY <1>3 DEF RunOK, NamedOK, SpentOK, EarlyOK, Early
<1> QED
  BY <1>1, <1>2, <1>4, <1>5, <1>6, <1>7 DEF RunOK

LEMMA BlocksOK ==
    ASSUME TypeOK, NEW r \in Runs, RunOK(r), Blocks(r)
    PROVE  TypeOK' /\ RunOK(r)' /\ \A q \in Runs \ {r} : Untouched(q)
<1> USE DEF Blocks, table, caller, effects, log, scan
<1>1. TypeOK'
  BY DEF TypeOK, HelperPoints
<1>2. \A q \in Runs \ {r} : Untouched(q)
  BY DEF Untouched, TypeOK
<1>3. late'[r]
  BY DEF TypeOK
<1>4. CallerOK(r)' /\ TimeOK(r)' /\ TaskOK(r)'
  BY <1>3 DEF RunOK, CallerOK, TimeOK, TaskOK, EarlyOK, Early
<1>5. EarlyOK(r)' /\ WorkOK(r)'
  BY <1>3 DEF RunOK, EarlyOK, WorkOK, Early, Working
<1>6. ActOK(r)' /\ AnswerOK(r)'
  BY <1>3 DEF RunOK, EarlyOK, ActOK, AnswerOK, Early
<1>7. NamedOK(r)' /\ SpentOK(r)'
  BY <1>3 DEF RunOK, NamedOK, SpentOK, EarlyOK, Early
<1> QED
  BY <1>1, <1>2, <1>4, <1>5, <1>6, <1>7 DEF RunOK

LEMMA TimeLimitOK ==
    ASSUME TypeOK, NEW r \in Runs, RunOK(r), TimeLimit(r)
    PROVE  TypeOK' /\ RunOK(r)' /\ \A q \in Runs \ {r} : Untouched(q)
<1> USE DEF TimeLimit, table, caller, effects, log, scan
<1>1. TypeOK'
  BY DEF TypeOK, HelperPoints
<1>2. \A q \in Runs \ {r} : Untouched(q)
  BY DEF Untouched, TypeOK
<1>3. /\ client[r] = "waiting" /\ client'[r] = "killing" /\ pc[r] # "ended"
      /\ late[r] \/ spent[r] >= LimitOf(asked[r])
      /\ \/ pc[r] = "sudo" /\ pc'[r] = "ended"
         \/ pc'[r] = pc[r]
  BY DEF TypeOK
<1>4. CallerOK(r)' /\ TimeOK(r)' /\ TaskOK(r)'
  BY <1>3 DEF RunOK, CallerOK, TimeOK, TaskOK, EarlyOK, Early
<1>5. EarlyOK(r)' /\ WorkOK(r)'
  BY <1>3 DEF RunOK, EarlyOK, WorkOK, Early, Working
<1>6. ActOK(r)' /\ AnswerOK(r)'
  BY <1>3 DEF RunOK, EarlyOK, ActOK, AnswerOK, Early
<1>7. NamedOK(r)' /\ SpentOK(r)'
  BY <1>3 DEF RunOK, NamedOK, SpentOK, EarlyOK, Early
<1> QED
  BY <1>1, <1>2, <1>4, <1>5, <1>6, <1>7 DEF RunOK

LEMMA WaitEndsOK ==
    ASSUME TypeOK, NEW r \in Runs, RunOK(r), WaitEnds(r)
    PROVE  TypeOK' /\ RunOK(r)' /\ \A q \in Runs \ {r} : Untouched(q)
<1> USE DEF WaitEnds, Told, table, caller, effects, log, scan
<1>1. TypeOK'
  BY DEF TypeOK, HelperPoints
<1>2. \A q \in Runs \ {r} : Untouched(q)
  BY DEF Untouched, TypeOK
<1>3. /\ client[r] = "killing" /\ client'[r] = "told"
      /\ pc[r] = "ended" /\ result'[r] = "timeout"
  BY DEF TypeOK
<1>4. CallerOK(r)' /\ TimeOK(r)' /\ TaskOK(r)'
  BY <1>3 DEF RunOK, CallerOK, TimeOK, TaskOK, EarlyOK, Early
<1>5. EarlyOK(r)' /\ WorkOK(r)'
  BY <1>3 DEF RunOK, EarlyOK, WorkOK, Early, Working
<1>6. ActOK(r)' /\ AnswerOK(r)'
  BY <1>3 DEF RunOK, EarlyOK, ActOK, AnswerOK, Early
<1>7. NamedOK(r)' /\ SpentOK(r)'
  BY <1>3 DEF RunOK, NamedOK, SpentOK, EarlyOK, Early
<1> QED
  BY <1>1, <1>2, <1>4, <1>5, <1>6, <1>7 DEF RunOK

LEMMA ReturnsOK ==
    ASSUME TypeOK, NEW r \in Runs, RunOK(r), Returns(r)
    PROVE  TypeOK' /\ RunOK(r)' /\ \A q \in Runs \ {r} : Untouched(q)
<1> USE DEF Returns, Told, table, caller, effects, log, scan
<1>1. TypeOK'
  BY DEF TypeOK, HelperPoints
<1>2. \A q \in Runs \ {r} : Untouched(q)
  BY DEF Untouched, TypeOK
<1>3. /\ client[r] = "waiting" /\ client'[r] = "told"
      /\ pc[r] = "ended" /\ result'[r] \in {"ok", "refused", "failed"}
  BY DEF TypeOK
<1>4. CallerOK(r)' /\ TimeOK(r)' /\ TaskOK(r)'
  BY <1>3 DEF RunOK, CallerOK, TimeOK, TaskOK, EarlyOK, Early
<1>5. EarlyOK(r)' /\ WorkOK(r)'
  BY <1>3 DEF RunOK, EarlyOK, WorkOK, Early, Working
<1>6. ActOK(r)' /\ AnswerOK(r)'
  BY <1>3 DEF RunOK, EarlyOK, ActOK, AnswerOK, Early
<1>7. NamedOK(r)' /\ SpentOK(r)'
  BY <1>3 DEF RunOK, NamedOK, SpentOK, EarlyOK, Early
<1> QED
  BY <1>1, <1>2, <1>4, <1>5, <1>6, <1>7 DEF RunOK

LEMMA ForgottenOK ==
    ASSUME TypeOK, NEW r \in Runs, RunOK(r), Forgotten(r)
    PROVE  TypeOK' /\ RunOK(r)' /\ \A q \in Runs \ {r} : Untouched(q)
<1> USE DEF Forgotten, table, caller, effects, log, scan
<1>1. TypeOK'
  <2>1. /\ client' \in [Runs -> {"idle", "waiting", "killing", "told", "gone", "byhand"}]
        /\ asked' \in [Runs -> Tasks] /\ task' \in [Runs -> Tasks]
        /\ hand' \in [Runs -> 0 .. Len(HandArgv)]
    BY NoTaskTyped, HandAssumption DEF TypeOK
  <2>2. /\ checked' \in [Runs -> 0 .. MaxStart + 2]
        /\ victim' \in [Runs -> 0 .. MaxStart]
        /\ users' \in [Runs -> Nat] /\ left' \in [Runs -> Nat] /\ spent' \in [Runs -> Nat]
        /\ late' \in [Runs -> BOOLEAN]
    BY ProcessAssumption DEF TypeOK
  <2>3. /\ procs' \in [Pids -> 0 .. MaxStart] /\ born' \in 2 .. MaxStart + 2
        /\ result' \in [Runs -> {"none", "ok", "failed", "refused", "timeout"}]
        /\ pc' \in [Runs -> HelperPoints \cup {"none", "sudo", "ended"}]
        /\ verdict' \in [Runs -> {"none", "ok", "failed", "error"}]
        /\ audited' \in [Runs -> {"none", "ok", "failed", "rejected"}]
        /\ out' \in [Runs -> {"none", "ok", "error", "refused"}]
    BY DEF TypeOK
  <2> QED
    BY <2>1, <2>2, <2>3 DEF TypeOK
<1>2. \A q \in Runs \ {r} : Untouched(q)
  BY DEF Untouched, TypeOK
<1>3. /\ client'[r] = "idle" /\ result'[r] = "none" /\ asked'[r] = NoTask
      /\ hand'[r] = 0 /\ pc'[r] = "none" /\ task'[r] = NoTask
      /\ checked'[r] = 0 /\ victim'[r] = 0 /\ verdict'[r] = "none"
      /\ audited'[r] = "none" /\ out'[r] = "none"
      /\ users'[r] = 0 /\ left'[r] = 0 /\ spent'[r] = 0 /\ ~late'[r]
  BY DEF TypeOK
<1>4. CallerOK(r)' /\ TimeOK(r)' /\ TaskOK(r)'
  BY <1>3 DEF RunOK, CallerOK, TimeOK, TaskOK, EarlyOK, Early
<1>5. EarlyOK(r)' /\ WorkOK(r)'
  BY <1>3 DEF RunOK, EarlyOK, WorkOK, Early, Working
<1>6. ActOK(r)' /\ AnswerOK(r)'
  BY <1>3 DEF RunOK, EarlyOK, ActOK, AnswerOK, Early
<1>7. NamedOK(r)' /\ SpentOK(r)'
  <2>1. spent'[r] <= (users'[r] - left'[r]) * PerUser(task'[r], users'[r])
    BY <1>3, PerUserNat
  <2> QED
    BY <1>1, <1>3, <2>1 DEF NamedOK, SpentOK, Early, TypeOK
<1> QED
  BY <1>1, <1>2, <1>4, <1>5, <1>6, <1>7 DEF RunOK

-----------------------------------------------------------------------------
(* The helper process *)

\* After its work a mutation is audited, anything else answered at once.
LEMMA AfterWorkIs ==
    ASSUME NEW o
    PROVE  /\ o.name \in Mutations => AfterWork(o, "work") = "audit"
           /\ o.name \notin Mutations => AfterWork(o, "work") = "emit"
           /\ o.name \in Mutations => AfterWork(o, "audit") = "emit"
           /\ AfterWork(o, "emit") = "ended"
BY DEF AfterWork

LEMMA AfterWorkTyped ==
    ASSUME NEW o, NEW now
    PROVE  AfterWork(o, now) \in {"ended", "audit", "emit"}
BY DEF AfterWork

LEMMA ReadsStatOK ==
    ASSUME TypeOK, NEW r \in Runs, RunOK(r), Ages, ReadsStat(r)
    PROVE  TypeOK' /\ RunOK(r)' /\ \A q \in Runs \ {r} : Untouched(q)
<1> USE DEF ReadsStat, At, Ends, table, caller, effects, log, scan
<1>1. TypeOK'
  <2>1. pc' \in [Runs -> HelperPoints \cup {"none", "sudo", "ended"}]
    <3>1. PICK x \in {"owner", "act", "stat", "ended", "audit", "emit"} : pc' = [pc EXCEPT ![r] = x]
      BY AfterWorkTyped 
    <3> QED
      BY <3>1 DEF TypeOK, HelperPoints
  <2>2. /\ verdict' \in [Runs -> {"none", "ok", "failed", "error"}]
        /\ audited' \in [Runs -> {"none", "ok", "failed", "rejected"}]
        /\ out' \in [Runs -> {"none", "ok", "error", "refused"}]
    BY ZenonT(30) DEF TypeOK
  <2>3. /\ checked' \in [Runs -> 0 .. MaxStart + 2]
        /\ victim' \in [Runs -> 0 .. MaxStart]
    BY ProcessAssumption DEF TypeOK
  <2> QED
    BY <2>1, <2>2, <2>3 DEF TypeOK
<1>2. \A q \in Runs \ {r} : Untouched(q)
  BY DEF Untouched, TypeOK
<1>3. /\ pc[r] = "stat" /\ procs' = procs /\ born' = born /\ checked'[r] = born /\ born \in Int
      /\ client'[r] = client[r] /\ asked'[r] = asked[r] /\ result'[r] = result[r] /\ hand'[r] = hand[r]
      /\ task'[r] = task[r] /\ victim'[r] = victim[r] /\ audited'[r] = audited[r] /\ out'[r] = out[r]
      /\ users'[r] = users[r] /\ left'[r] = left[r] /\ spent'[r] = spent[r] /\ (late'[r] <=> late[r])
      /\ task[r].name \in Mutations =>
            \/ /\ procs[task[r].pid] = task[r].starttime
               /\ pc'[r] = "owner" /\ verdict'[r] = verdict[r]
            \/ pc'[r] = "audit" /\ verdict'[r] = "failed"
      /\ task[r].name \notin Mutations =>
            pc'[r] = "emit" /\ verdict'[r] \in {"ok", "failed"}
  BY AfterWorkIs DEF TypeOK
<1> HIDE DEF ReadsStat
<1>4. CallerOK(r)' /\ TimeOK(r)' /\ TaskOK(r)'
  BY <1>3 DEF RunOK, CallerOK, TimeOK, TaskOK, EarlyOK, Early
<1>5. EarlyOK(r)' /\ WorkOK(r)'
  BY <1>3 DEF RunOK, EarlyOK, WorkOK, Early, Working
<1>6. ActOK(r)' /\ AnswerOK(r)'
  BY <1>3 DEF RunOK, EarlyOK, WorkOK, Working, ActOK, AnswerOK, Early,
             OnProcess, Mutations, Reads, Scans
<1>7. NamedOK(r)' /\ SpentOK(r)'
  BY <1>3 DEF RunOK, NamedOK, SpentOK, EarlyOK, Early
<1> QED
  BY <1>1, <1>2, <1>4, <1>5, <1>6, <1>7 DEF RunOK

LEMMA ReadsOwnerOK ==
    ASSUME TypeOK, NEW r \in Runs, RunOK(r), Ages, ReadsOwner(r)
    PROVE  TypeOK' /\ RunOK(r)' /\ \A q \in Runs \ {r} : Untouched(q)
<1> USE DEF ReadsOwner, At, Ends, table, caller, effects, log, scan
<1>1. TypeOK'
  <2>1. pc' \in [Runs -> HelperPoints \cup {"none", "sudo", "ended"}]
    <3>1. PICK x \in {"owner", "act", "stat", "ended", "audit", "emit"} : pc' = [pc EXCEPT ![r] = x]
      BY AfterWorkTyped 
    <3> QED
      BY <3>1 DEF TypeOK, HelperPoints
  <2>2. /\ verdict' \in [Runs -> {"none", "ok", "failed", "error"}]
        /\ audited' \in [Runs -> {"none", "ok", "failed", "rejected"}]
        /\ out' \in [Runs -> {"none", "ok", "error", "refused"}]
    BY SMTT(30) DEF TypeOK
  <2>3. /\ checked' \in [Runs -> 0 .. MaxStart + 2]
        /\ victim' \in [Runs -> 0 .. MaxStart]
    BY ProcessAssumption DEF TypeOK
  <2> QED
    BY <2>1, <2>2, <2>3 DEF TypeOK
<1>2. \A q \in Runs \ {r} : Untouched(q)
  BY DEF Untouched, TypeOK
<1>3. /\ pc[r] = "owner" /\ procs' = procs /\ born' = born
      /\ client'[r] = client[r] /\ asked'[r] = asked[r] /\ result'[r] = result[r] /\ hand'[r] = hand[r]
      /\ task'[r] = task[r] /\ checked'[r] = checked[r] /\ victim'[r] = victim[r] /\ audited'[r] = audited[r] /\ out'[r] = out[r]
      /\ users'[r] = users[r] /\ left'[r] = left[r] /\ spent'[r] = spent[r] /\ (late'[r] <=> late[r])
      /\ \/ pc'[r] = "act" /\ task[r].name \in Mutations /\ verdict'[r] = verdict[r]
         \/ pc'[r] = "stat" /\ task[r].name \notin Mutations /\ verdict'[r] = verdict[r]
         \/ pc'[r] = "audit" /\ task[r].name \in Mutations /\ verdict'[r] = "failed"
         \/ pc'[r] = "emit" /\ task[r].name \notin Mutations /\ verdict'[r] = "failed"
  BY AfterWorkIs DEF TypeOK
<1> HIDE DEF ReadsOwner
<1>4. CallerOK(r)' /\ TimeOK(r)' /\ TaskOK(r)'
  BY <1>3 DEF RunOK, CallerOK, TimeOK, TaskOK, EarlyOK, Early
<1>5. EarlyOK(r)' /\ WorkOK(r)'
  BY <1>3 DEF RunOK, EarlyOK, WorkOK, Early, Working
<1>6. ActOK(r)' /\ AnswerOK(r)'
  BY <1>3 DEF RunOK, EarlyOK, WorkOK, Working, ActOK, AnswerOK, Early,
             OnProcess, Mutations, Reads, Scans
<1>7. NamedOK(r)' /\ SpentOK(r)'
  BY <1>3 DEF RunOK, NamedOK, SpentOK, EarlyOK, Early
<1> QED
  BY <1>1, <1>2, <1>4, <1>5, <1>6, <1>7 DEF RunOK

LEMMA ActsOK ==
    ASSUME TypeOK, NEW r \in Runs, RunOK(r), Ages, Acts(r)
    PROVE  TypeOK' /\ RunOK(r)' /\ \A q \in Runs \ {r} : Untouched(q)
<1> USE DEF Acts, At, Ends, table, caller, effects, log, scan
<1>1. TypeOK'
  <2>1. pc' \in [Runs -> HelperPoints \cup {"none", "sudo", "ended"}]
    <3>1. PICK x \in {"owner", "act", "stat", "ended", "audit", "emit"} : pc' = [pc EXCEPT ![r] = x]
      BY AfterWorkTyped 
    <3> QED
      BY <3>1 DEF TypeOK, HelperPoints
  <2>2. /\ verdict' \in [Runs -> {"none", "ok", "failed", "error"}]
        /\ audited' \in [Runs -> {"none", "ok", "failed", "rejected"}]
        /\ out' \in [Runs -> {"none", "ok", "error", "refused"}]
    BY ZenonT(30) DEF TypeOK
  <2>3. /\ checked' \in [Runs -> 0 .. MaxStart + 2]
        /\ victim' \in [Runs -> 0 .. MaxStart]
    <3>1. pc[r] = "act" => task[r].pid \in Pids
      BY DEF RunOK, WorkOK, Working
    <3>2. pc[r] = "act" => procs[task[r].pid] \in 0 .. MaxStart
      BY <3>1 DEF TypeOK
    <3>3. checked' = checked
      OBVIOUS
    <3>4. victim' = victim \/ victim' = [victim EXCEPT ![r] = procs[task[r].pid]]
      OBVIOUS
    <3> QED
      BY <3>2, <3>3, <3>4 DEF TypeOK
  <2> QED
    BY <2>1, <2>2, <2>3 DEF TypeOK
<1>2. \A q \in Runs \ {r} : Untouched(q)
  BY DEF Untouched, TypeOK
<1>3. /\ pc[r] = "act" /\ procs' = procs /\ born' = born
      /\ client'[r] = client[r] /\ asked'[r] = asked[r] /\ result'[r] = result[r] /\ hand'[r] = hand[r]
      /\ task'[r] = task[r] /\ checked'[r] = checked[r] /\ audited'[r] = audited[r] /\ out'[r] = out[r]
      /\ users'[r] = users[r] /\ left'[r] = left[r] /\ spent'[r] = spent[r] /\ (late'[r] <=> late[r])
      /\ task[r].name \in Mutations /\ pc'[r] = "audit"
      /\ \/ verdict'[r] = "failed" /\ victim'[r] = victim[r]
         \/ /\ verdict'[r] = "ok" /\ victim'[r] = procs[task[r].pid]
            /\ procs[task[r].pid] # 0
            /\ task[r].name = "process-signal" => task[r].pid # 1
            /\ victim'[r] = task[r].starttime \/ victim'[r] >= checked[r]
  BY AfterWorkIs DEF TypeOK, RunOK, WorkOK, Working, NamedOK
<1> HIDE DEF Acts
<1>4. CallerOK(r)' /\ TimeOK(r)' /\ TaskOK(r)'
  BY <1>3 DEF RunOK, CallerOK, TimeOK, TaskOK, EarlyOK, Early
<1>5. EarlyOK(r)' /\ WorkOK(r)'
  BY <1>3 DEF RunOK, EarlyOK, WorkOK, Early, Working
<1>6. ActOK(r)' /\ AnswerOK(r)'
  BY <1>3 DEF RunOK, EarlyOK, WorkOK, Working, ActOK, AnswerOK, Early,
             OnProcess, Mutations, Reads, Scans
<1>7. NamedOK(r)' /\ SpentOK(r)'
  BY <1>3 DEF RunOK, NamedOK, SpentOK, EarlyOK, Early
<1> QED
  BY <1>1, <1>2, <1>4, <1>5, <1>6, <1>7 DEF RunOK

LEMMA JustReadsOK ==
    ASSUME TypeOK, NEW r \in Runs, RunOK(r), Ages, JustReads(r)
    PROVE  TypeOK' /\ RunOK(r)' /\ \A q \in Runs \ {r} : Untouched(q)
<1> USE DEF JustReads, At, Ends, table, caller, effects, log, scan
<1>1. TypeOK'
  <2>1. pc' \in [Runs -> HelperPoints \cup {"none", "sudo", "ended"}]
    <3>1. PICK x \in {"owner", "act", "stat", "ended", "audit", "emit"} : pc' = [pc EXCEPT ![r] = x]
      BY AfterWorkTyped 
    <3> QED
      BY <3>1 DEF TypeOK, HelperPoints
  <2>2. /\ verdict' \in [Runs -> {"none", "ok", "failed", "error"}]
        /\ audited' \in [Runs -> {"none", "ok", "failed", "rejected"}]
        /\ out' \in [Runs -> {"none", "ok", "error", "refused"}]
    BY DEF TypeOK
  <2>3. /\ checked' \in [Runs -> 0 .. MaxStart + 2]
        /\ victim' \in [Runs -> 0 .. MaxStart]
    BY ProcessAssumption DEF TypeOK
  <2> QED
    BY <2>1, <2>2, <2>3 DEF TypeOK
<1>2. \A q \in Runs \ {r} : Untouched(q)
  BY DEF Untouched, TypeOK
<1>3. /\ pc[r] = "read" /\ procs' = procs /\ born' = born
      /\ client'[r] = client[r] /\ asked'[r] = asked[r] /\ result'[r] = result[r] /\ hand'[r] = hand[r]
      /\ task'[r] = task[r] /\ checked'[r] = checked[r] /\ victim'[r] = victim[r] /\ audited'[r] = audited[r] /\ out'[r] = out[r]
      /\ users'[r] = users[r] /\ left'[r] = left[r] /\ spent'[r] = spent[r] /\ (late'[r] <=> late[r])
      /\ task[r].name \in Reads /\ task[r].name \notin Mutations
      /\ pc'[r] = "emit" /\ verdict'[r] = "ok"
  BY AfterWorkIs DEF TypeOK, RunOK, WorkOK, Working, Reads, Scans, Mutations
<1> HIDE DEF JustReads
<1>4. CallerOK(r)' /\ TimeOK(r)' /\ TaskOK(r)'
  BY <1>3 DEF RunOK, CallerOK, TimeOK, TaskOK, EarlyOK, Early
<1>5. EarlyOK(r)' /\ WorkOK(r)'
  BY <1>3 DEF RunOK, EarlyOK, WorkOK, Early, Working
<1>6. ActOK(r)' /\ AnswerOK(r)'
  BY <1>3 DEF RunOK, EarlyOK, WorkOK, Working, ActOK, AnswerOK, Early,
             OnProcess, Mutations, Reads, Scans
<1>7. NamedOK(r)' /\ SpentOK(r)'
  BY <1>3 DEF RunOK, NamedOK, SpentOK, EarlyOK, Early
<1> QED
  BY <1>1, <1>2, <1>4, <1>5, <1>6, <1>7 DEF RunOK

LEMMA AuditsOK ==
    ASSUME TypeOK, NEW r \in Runs, RunOK(r), Ages, Audits(r)
    PROVE  TypeOK' /\ RunOK(r)' /\ \A q \in Runs \ {r} : Untouched(q)
<1> USE DEF Audits, At, Ends, table, caller, effects, log, scan
<1>1. TypeOK'
  <2>1. pc' \in [Runs -> HelperPoints \cup {"none", "sudo", "ended"}]
    <3>1. PICK x \in {"owner", "act", "stat", "ended", "audit", "emit"} : pc' = [pc EXCEPT ![r] = x]
      BY AfterWorkTyped 
    <3> QED
      BY <3>1 DEF TypeOK, HelperPoints
  <2>2. /\ verdict' \in [Runs -> {"none", "ok", "failed", "error"}]
        /\ audited' \in [Runs -> {"none", "ok", "failed", "rejected"}]
        /\ out' \in [Runs -> {"none", "ok", "error", "refused"}]
    BY DEF TypeOK, RunOK, AnswerOK
  <2>3. /\ checked' \in [Runs -> 0 .. MaxStart + 2]
        /\ victim' \in [Runs -> 0 .. MaxStart]
    BY ProcessAssumption DEF TypeOK
  <2> QED
    BY <2>1, <2>2, <2>3 DEF TypeOK
<1>2. \A q \in Runs \ {r} : Untouched(q)
  BY DEF Untouched, TypeOK
<1>3. /\ pc[r] = "audit" /\ procs' = procs /\ born' = born
      /\ client'[r] = client[r] /\ asked'[r] = asked[r] /\ result'[r] = result[r] /\ hand'[r] = hand[r]
      /\ task'[r] = task[r] /\ checked'[r] = checked[r] /\ victim'[r] = victim[r] /\ verdict'[r] = verdict[r] /\ out'[r] = out[r]
      /\ users'[r] = users[r] /\ left'[r] = left[r] /\ spent'[r] = spent[r] /\ (late'[r] <=> late[r])
      /\ task[r].name \in Mutations /\ verdict[r] \in {"ok", "failed"}
      /\ pc'[r] = "emit" /\ audited'[r] = verdict[r]
  BY AfterWorkIs DEF TypeOK, RunOK, AnswerOK
<1> HIDE DEF Audits
<1>4. CallerOK(r)' /\ TimeOK(r)' /\ TaskOK(r)'
  BY <1>3 DEF RunOK, CallerOK, TimeOK, TaskOK, EarlyOK, Early
<1>5. EarlyOK(r)' /\ WorkOK(r)'
  BY <1>3 DEF RunOK, EarlyOK, WorkOK, Early, Working
<1>6. ActOK(r)' /\ AnswerOK(r)'
  BY <1>3 DEF RunOK, EarlyOK, WorkOK, Working, ActOK, AnswerOK, Early,
             OnProcess, Mutations, Reads, Scans
<1>7. NamedOK(r)' /\ SpentOK(r)'
  BY <1>3 DEF RunOK, NamedOK, SpentOK, EarlyOK, Early
<1> QED
  BY <1>1, <1>2, <1>4, <1>5, <1>6, <1>7 DEF RunOK

LEMMA EmitsOK ==
    ASSUME TypeOK, NEW r \in Runs, RunOK(r), Ages, Emits(r)
    PROVE  TypeOK' /\ RunOK(r)' /\ \A q \in Runs \ {r} : Untouched(q)
<1> USE DEF Emits, At, Ends, table, caller, effects, log, scan
<1>1. TypeOK'
  <2>1. pc' \in [Runs -> HelperPoints \cup {"none", "sudo", "ended"}]
    <3>1. PICK x \in {"owner", "act", "stat", "ended", "audit", "emit"} : pc' = [pc EXCEPT ![r] = x]
      BY AfterWorkTyped 
    <3> QED
      BY <3>1 DEF TypeOK, HelperPoints
  <2>2. /\ verdict' \in [Runs -> {"none", "ok", "failed", "error"}]
        /\ audited' \in [Runs -> {"none", "ok", "failed", "rejected"}]
        /\ out' \in [Runs -> {"none", "ok", "error", "refused"}]
    BY DEF TypeOK
  <2>3. /\ checked' \in [Runs -> 0 .. MaxStart + 2]
        /\ victim' \in [Runs -> 0 .. MaxStart]
    BY ProcessAssumption DEF TypeOK
  <2> QED
    BY <2>1, <2>2, <2>3 DEF TypeOK
<1>2. \A q \in Runs \ {r} : Untouched(q)
  BY DEF Untouched, TypeOK
<1>3. /\ pc[r] = "emit" /\ procs' = procs /\ born' = born
      /\ client'[r] = client[r] /\ asked'[r] = asked[r] /\ result'[r] = result[r] /\ hand'[r] = hand[r]
      /\ task'[r] = task[r] /\ checked'[r] = checked[r] /\ victim'[r] = victim[r] /\ verdict'[r] = verdict[r] /\ audited'[r] = audited[r]
      /\ users'[r] = users[r] /\ left'[r] = left[r] /\ spent'[r] = spent[r] /\ (late'[r] <=> late[r])
      /\ pc'[r] = "ended"
      /\ \/ client[r] = "gone" /\ out'[r] = out[r]
         \/ verdict[r] = "ok" /\ out'[r] = "ok"
         \/ verdict[r] # "ok" /\ out'[r] = "error"
  BY AfterWorkIs DEF TypeOK
<1> HIDE DEF Emits
<1>4. CallerOK(r)' /\ TimeOK(r)' /\ TaskOK(r)'
  BY <1>3 DEF RunOK, CallerOK, TimeOK, TaskOK, EarlyOK, Early
<1>5. EarlyOK(r)' /\ WorkOK(r)'
  BY <1>3 DEF RunOK, EarlyOK, WorkOK, Early, Working
<1>6. ActOK(r)' /\ AnswerOK(r)'
  BY <1>3 DEF RunOK, EarlyOK, WorkOK, Working, ActOK, AnswerOK, Early,
             OnProcess, Mutations, Reads, Scans
<1>7. NamedOK(r)' /\ SpentOK(r)'
  BY <1>3 DEF RunOK, NamedOK, SpentOK, EarlyOK, Early
<1> QED
  BY <1>1, <1>2, <1>4, <1>5, <1>6, <1>7 DEF RunOK

LEMMA FirstStepIs ==
    ASSUME NEW o, o.name \in Mutations \cup Reads
    PROVE  \/ o.name \in Mutations /\ FirstStep(o) = "stat"
           \/ o.name = "process-detail" /\ FirstStep(o) = "owner"
           \/ o.name \in Scans /\ FirstStep(o) = "accounts"
           \/ o.name \in Reads /\ FirstStep(o) = "read"
BY DEF FirstStep, Mutations, Reads, Scans

LEMMA BeginsOK ==
    ASSUME TypeOK, NEW r \in Runs, RunOK(r), Begins(r)
    PROVE  TypeOK' /\ RunOK(r)' /\ \A q \in Runs \ {r} : Untouched(q)
<1> DEFINE o == Parsed(Argv(r))
           NotRun == /\ verdict' = [verdict EXCEPT ![r] = "error"]
                     /\ pc' = [pc EXCEPT ![r] = "emit"]
                     /\ task' = task /\ audited' = audited
           Runs1 == /\ task' = [task EXCEPT ![r] = o]
                    /\ Valid(o)
                    /\ pc' = [pc EXCEPT ![r] = FirstStep(o)]
                    /\ verdict' = verdict /\ audited' = audited
           Rejected == /\ task' = [task EXCEPT ![r] = o]
                       /\ verdict' = [verdict EXCEPT ![r] = "error"]
                       /\ audited' = [audited EXCEPT ![r] = "rejected"]
                       /\ pc' = [pc EXCEPT ![r] = "emit"]
<1>1. /\ pc[r] = "start"
      /\ NotRun \/ (Parses(Argv(r)) /\ (Runs1 \/ Rejected))
      /\ client' = client /\ asked' = asked /\ result' = result /\ hand' = hand
      /\ checked' = checked /\ victim' = victim /\ out' = out /\ users' = users
      /\ left' = left /\ spent' = spent /\ late' = late
      /\ procs' = procs /\ born' = born
  BY DEF Begins, At, table, caller, effects, scan
<1>2. hand[r] = 0 => /\ Shaped(asked[r]) /\ asked[r].name # "none"
                     /\ asked[r].name \in OnProcess => asked[r].pid \in Pids
  BY <1>1 DEF RunOK, CallerOK, TypeOK
<1>3. Parses(Argv(r)) =>
          /\ o \in Tasks
          /\ o.name \in Mutations \cup Reads
          /\ o.name = "process-signal" => o.signal \in SafeSignals
          /\ o.name \in OnProcess => o.pid \in Pids
          /\ hand[r] = 0 => o = asked[r]
  BY <1>2, ParsedTyped DEF OnProcess
<1>4. /\ task[r] = NoTask /\ victim[r] = 0 /\ verdict[r] = "none"
      /\ audited[r] = "none" /\ out[r] = "none" /\ users[r] = 0
      /\ left[r] = 0 /\ spent[r] = 0
  BY <1>1, PerUserNat DEF RunOK, EarlyOK, SpentOK, Early, TypeOK
<1> HIDE DEF o
<1>5. Runs1 /\ o.name = "renice" => o.nice \in 0 .. 19
  BY DEF Valid
<1>6. TypeOK'
  <2>1. Runs1 /\ Parses(Argv(r)) => FirstStep(o) \in HelperPoints
    BY <1>3, FirstStepIs DEF HelperPoints
  <2>2. pc' \in [Runs -> HelperPoints \cup {"none", "sudo", "ended"}]
    <3>1. PICK x \in HelperPoints : pc' = [pc EXCEPT ![r] = x]
      BY <1>1, <2>1 DEF HelperPoints
    <3> QED
      BY <3>1 DEF TypeOK
  <2>3. task' \in [Runs -> Tasks]
    <3>1. task' = task \/ \E x \in Tasks : task' = [task EXCEPT ![r] = x]
      BY <1>1, <1>3
    <3> QED
      BY <3>1, ZenonT(30) DEF TypeOK
  <2>4. /\ verdict' \in [Runs -> {"none", "ok", "failed", "error"}]
        /\ audited' \in [Runs -> {"none", "ok", "failed", "rejected"}]
    BY <1>1, ZenonT(30) DEF TypeOK
  <2> QED
    BY <1>1, <2>2, <2>3, <2>4 DEF TypeOK
<1>7. \A q \in Runs \ {r} : Untouched(q)
  BY <1>1 DEF Untouched, TypeOK
<1>8. /\ client'[r] = client[r] /\ asked'[r] = asked[r] /\ result'[r] = result[r]
      /\ hand'[r] = hand[r] /\ checked'[r] = checked[r] /\ victim'[r] = 0
      /\ out'[r] = "none" /\ users'[r] = 0 /\ left'[r] = 0 /\ spent'[r] = 0
      /\ late'[r] <=> late[r]
      /\ procs' = procs /\ born' = born
  BY <1>1, <1>4
<1>9. \/ /\ pc'[r] = "emit" /\ verdict'[r] = "error" /\ audited'[r] # "ok"
         /\ task'[r] = NoTask \/ (Parses(Argv(r)) /\ task'[r] = o)
      \/ /\ Parses(Argv(r)) /\ task'[r] = o /\ pc'[r] = FirstStep(o)
         /\ o.name = "renice" => o.nice \in 0 .. 19
         /\ verdict'[r] = "none" /\ audited'[r] = "none"
  BY <1>1, <1>4, <1>5 DEF TypeOK
<1>10. pc'[r] = FirstStep(o) /\ Parses(Argv(r)) =>
          \/ o.name \in Mutations /\ pc'[r] = "stat"
          \/ o.name = "process-detail" /\ pc'[r] = "owner"
          \/ o.name \in Scans /\ pc'[r] = "accounts"
          \/ o.name \in Reads /\ pc'[r] = "read"
  BY <1>3, FirstStepIs
<1> HIDE DEF NotRun, Runs1, Rejected
<1>11. CallerOK(r)' /\ TimeOK(r)' /\ TaskOK(r)'
  BY <1>1, <1>3, <1>8, <1>9, <1>10 DEF RunOK, CallerOK, TimeOK, TaskOK
<1>12. EarlyOK(r)' /\ WorkOK(r)'
  BY <1>3, <1>8, <1>9, <1>10 DEF EarlyOK, WorkOK, Early, Working, OnProcess
<1>13. ActOK(r)' /\ AnswerOK(r)'
  BY <1>8, <1>9, <1>10 DEF ActOK, AnswerOK
<1>14. NamedOK(r)'
  BY <1>8, <1>9, <1>10 DEF RunOK, NamedOK, Mutations
<1>15. SpentOK(r)'
  BY <1>8, PerUserNat DEF SpentOK
<1> QED
  BY <1>6, <1>7, <1>11, <1>12, <1>13, <1>14, <1>15 DEF RunOK

LEMMA FindsAccountsOK ==
    ASSUME TypeOK, NEW r \in Runs, RunOK(r), FindsAccounts(r)
    PROVE  TypeOK' /\ RunOK(r)' /\ \A q \in Runs \ {r} : Untouched(q)
<1>1. /\ pc[r] = "accounts"
      /\ client' = client /\ asked' = asked /\ result' = result /\ hand' = hand
      /\ task' = task /\ checked' = checked /\ victim' = victim /\ audited' = audited
      /\ out' = out /\ spent' = spent /\ late' = late /\ procs' = procs /\ born' = born
      /\ \/ \E n \in Counts \cup {1} :
               /\ task[r].name # "storage-users" => n = 1
               /\ users' = [users EXCEPT ![r] = n]
               /\ left' = [left EXCEPT ![r] = n]
               /\ pc' = [pc EXCEPT ![r] = "scan"]
               /\ verdict' = verdict
         \/ /\ verdict' = [verdict EXCEPT ![r] = "failed"]
            /\ pc' = [pc EXCEPT ![r] = AfterWork(task[r], "work")]
            /\ users' = users /\ left' = left
  BY DEF FindsAccounts, At, Ends, table, caller, effects
<1>2. task[r].name \in Scans /\ task[r].name \notin Mutations /\ task[r].name # "none"
  BY <1>1 DEF RunOK, WorkOK, Working, Scans, Mutations
<1>3. /\ victim[r] = 0 /\ verdict[r] = "none" /\ audited[r] = "none" /\ out[r] = "none"
      /\ users[r] = 0 /\ left[r] = 0 /\ spent[r] = 0
  BY <1>1, PerUserNat DEF RunOK, WorkOK, Working, SpentOK, TypeOK
<1>4. AfterWork(task[r], "work") = "emit"
  BY <1>2, AfterWorkIs
<1>5. TypeOK'
  <2>1. users' \in [Runs -> Nat] /\ left' \in [Runs -> Nat]
    <3>1. CASE users' = users /\ left' = left
      BY <3>1 DEF TypeOK
    <3>2. CASE \E n \in Nat : /\ users' = [users EXCEPT ![r] = n]
                             /\ left' = [left EXCEPT ![r] = n]
      <4>1. PICK n \in Nat : /\ users' = [users EXCEPT ![r] = n]
                             /\ left' = [left EXCEPT ![r] = n]
        BY <3>2
      <4> QED
        BY <4>1 DEF TypeOK
    <3> QED
      BY <1>1, <3>1, <3>2, AskedAssumption
  <2>2. pc' \in [Runs -> HelperPoints \cup {"none", "sudo", "ended"}]
    <3>1. PICK x \in {"scan", "emit"} : pc' = [pc EXCEPT ![r] = x]
      BY <1>1, <1>4
    <3> QED
      BY <3>1 DEF TypeOK, HelperPoints
  <2>3. verdict' \in [Runs -> {"none", "ok", "failed", "error"}]
    <3>1. verdict' = verdict \/ verdict' = [verdict EXCEPT ![r] = "failed"]
      BY <1>1
    <3> QED
      BY <3>1 DEF TypeOK
  <2> QED
    BY <1>1, <2>1, <2>2, <2>3 DEF TypeOK
<1>6. \A q \in Runs \ {r} : Untouched(q)
  BY <1>1 DEF Untouched, TypeOK
<1>7. /\ client'[r] = client[r] /\ asked'[r] = asked[r] /\ result'[r] = result[r]
      /\ hand'[r] = hand[r] /\ task'[r] = task[r] /\ checked'[r] = checked[r]
      /\ victim'[r] = 0 /\ audited'[r] = "none" /\ out'[r] = "none" /\ spent'[r] = 0
      /\ late'[r] <=> late[r]
      /\ procs' = procs /\ born' = born
  BY <1>1, <1>3
<1>8. /\ users'[r] \in Nat /\ left'[r] = users'[r]
      /\ task[r].name # "storage-users" => users'[r] <= 1
      /\ \/ pc'[r] = "scan" /\ verdict'[r] = "none"
         \/ pc'[r] = "emit" /\ verdict'[r] = "failed"
  BY <1>1, <1>3, <1>4, AskedAssumption DEF TypeOK
<1>9. CallerOK(r)' /\ TimeOK(r)' /\ TaskOK(r)'
  BY <1>1, <1>3, <1>7, <1>8 DEF RunOK, CallerOK, TimeOK, TaskOK
<1>10. EarlyOK(r)' /\ WorkOK(r)'
  BY <1>1, <1>2, <1>7, <1>8 DEF RunOK, EarlyOK, WorkOK, Early, Working
<1>11. ActOK(r)' /\ AnswerOK(r)'
  BY <1>2, <1>7, <1>8 DEF ActOK, AnswerOK
<1>12. NamedOK(r)'
  BY <1>7, <1>8 DEF RunOK, NamedOK
<1>13. SpentOK(r)'
  BY <1>2, <1>7, <1>8, PerUserNat DEF SpentOK, Early
<1> QED
  BY <1>5, <1>6, <1>9, <1>10, <1>11, <1>12, <1>13 DEF RunOK

\* One account less, and at most its share more.
LEMMA OneMore ==
    ASSUME NEW l \in Nat, l > 0, NEW u \in Nat, l <= u, NEW p \in Nat, NEW s \in Nat,
           s <= (u - l) * p
    PROVE  s + p <= (u - (l - 1)) * p /\ s <= (u - (l - 1)) * p
<1>1. (u - (l - 1)) * p = (u - l) * p + p
  OBVIOUS
<1>2. (u - l) * p \in Int
  OBVIOUS
<1> QED
  BY <1>1, <1>2

LEMMA ScansUserOK ==
    ASSUME TypeOK, NEW r \in Runs, RunOK(r), ScansUser(r)
    PROVE  TypeOK' /\ RunOK(r)' /\ \A q \in Runs \ {r} : Untouched(q)
<1> DEFINE P == PerUser(task[r], users[r])
<1>1. /\ pc[r] = "scan"
      /\ client' = client /\ asked' = asked /\ result' = result /\ hand' = hand
      /\ task' = task /\ checked' = checked /\ victim' = victim /\ audited' = audited
      /\ out' = out /\ users' = users /\ late' = late /\ procs' = procs /\ born' = born
      /\ \/ /\ left[r] = 0
            /\ verdict' = [verdict EXCEPT ![r] = "ok"]
            /\ pc' = [pc EXCEPT ![r] = AfterWork(task[r], "work")]
            /\ left' = left /\ spent' = spent
         \/ /\ left[r] # 0
            /\ \E s \in {0, P} : spent' = [spent EXCEPT ![r] = spent[r] + s]
            /\ left' = [left EXCEPT ![r] = left[r] - 1]
            /\ verdict' = verdict /\ pc' = pc
  BY DEF ScansUser, At, Ends, table, caller, effects
<1>2. task[r].name \in Scans /\ task[r].name \notin Mutations /\ task[r].name # "none"
  BY <1>1 DEF RunOK, WorkOK, Working, Scans, Mutations
<1>3. /\ victim[r] = 0 /\ verdict[r] = "none" /\ audited[r] = "none" /\ out[r] = "none"
      /\ users[r] \in Nat /\ left[r] \in Nat /\ spent[r] \in Nat
      /\ left[r] <= users[r] /\ P \in Nat
      /\ spent[r] <= (users[r] - left[r]) * P
  BY <1>1, PerUserNat DEF RunOK, WorkOK, Working, SpentOK, TypeOK
<1>4. AfterWork(task[r], "work") = "emit"
  BY <1>2, AfterWorkIs
<1> HIDE DEF P
<1>5. TypeOK'
  <2>1. left' \in [Runs -> Nat] /\ spent' \in [Runs -> Nat]
    <3>1. CASE left' = left /\ spent' = spent
      BY <3>1 DEF TypeOK
    <3>2. CASE left[r] # 0 /\ left' = [left EXCEPT ![r] = left[r] - 1]
      <4>1. left[r] - 1 \in Nat
        BY <1>3, <3>2
      <4>2. PICK s \in {0, P} : spent' = [spent EXCEPT ![r] = spent[r] + s]
        BY <1>1, <3>2
      <4>3. spent[r] + s \in Nat
        BY <1>3
      <4> QED
        BY <3>2, <4>1, <4>2, <4>3 DEF TypeOK
    <3> QED
      BY <1>1, <3>1, <3>2
  <2>2. pc' \in [Runs -> HelperPoints \cup {"none", "sudo", "ended"}]
    <3>1. pc' = pc \/ pc' = [pc EXCEPT ![r] = "emit"]
      BY <1>1, <1>4
    <3> QED
      BY <3>1 DEF TypeOK, HelperPoints
  <2>3. verdict' \in [Runs -> {"none", "ok", "failed", "error"}]
    <3>1. verdict' = verdict \/ verdict' = [verdict EXCEPT ![r] = "ok"]
      BY <1>1
    <3> QED
      BY <3>1 DEF TypeOK
  <2> QED
    BY <1>1, <2>1, <2>2, <2>3 DEF TypeOK
<1>6. \A q \in Runs \ {r} : Untouched(q)
  BY <1>1 DEF Untouched, TypeOK
<1>7. /\ client'[r] = client[r] /\ asked'[r] = asked[r] /\ result'[r] = result[r]
      /\ hand'[r] = hand[r] /\ task'[r] = task[r] /\ checked'[r] = checked[r]
      /\ victim'[r] = 0 /\ audited'[r] = "none" /\ out'[r] = "none" /\ users'[r] = users[r]
      /\ late'[r] <=> late[r]
      /\ procs' = procs /\ born' = born
  BY <1>1, <1>3
<1>8. /\ left'[r] <= users[r]
      /\ spent'[r] >= spent[r] /\ spent'[r] \in Nat
      /\ spent'[r] <= (users[r] - left'[r]) * P
      /\ \/ pc'[r] = "scan" /\ verdict'[r] = "none"
         \/ pc'[r] = "emit" /\ verdict'[r] = "ok"
  <2>1. CASE left[r] = 0
    BY <1>1, <1>3, <1>4, <2>1 DEF TypeOK
  <2>2. CASE left[r] # 0
    <3>1. /\ left'[r] = left[r] - 1
          /\ spent'[r] = spent[r] \/ spent'[r] = spent[r] + P
          /\ pc'[r] = "scan" /\ verdict'[r] = "none"
      BY <1>1, <1>3, <2>2 DEF TypeOK
    <3>2. left[r] > 0
      BY <1>3, <2>2
    <3>3. /\ spent[r] + P <= (users[r] - (left[r] - 1)) * P
          /\ spent[r] <= (users[r] - (left[r] - 1)) * P
      BY <1>3, <3>2, OneMore
    <3> QED
      BY <1>3, <3>1, <3>3
  <2> QED
    BY <2>1, <2>2
<1>9. CallerOK(r)' /\ TaskOK(r)'
  BY <1>1, <1>3, <1>7, <1>8 DEF RunOK, CallerOK, TaskOK
<1>10. TimeOK(r)'
  <2>1. LimitOf(asked[r]) \in Nat
    BY TimeAssumption DEF LimitOf
  <2> QED
    BY <1>3, <1>7, <1>8, <2>1 DEF RunOK, TimeOK
<1>11. EarlyOK(r)' /\ WorkOK(r)'
  BY <1>1, <1>2, <1>7, <1>8 DEF RunOK, EarlyOK, WorkOK, Early, Working
<1>12. ActOK(r)' /\ AnswerOK(r)'
  BY <1>2, <1>7, <1>8 DEF ActOK, AnswerOK
<1>13. NamedOK(r)'
  BY <1>7, <1>8 DEF RunOK, NamedOK
<1>14. SpentOK(r)'
  BY <1>1, <1>7, <1>8 DEF RunOK, SpentOK, Early, P
<1> QED
  BY <1>5, <1>6, <1>9, <1>10, <1>11, <1>12, <1>13, <1>14 DEF RunOK

-----------------------------------------------------------------------------
(* The processes, and sysview quitting *)

\* All but the processes stays as it is for every run.
LEMMA ProcessesOK ==
    ASSUME TypeOK, NEW r \in Runs, RunOK(r), Untouched(r),
           NEW p \in Pids, NEW v \in {0, born},
           procs' = [procs EXCEPT ![p] = v],
           born' \in {born, born + 1}
    PROVE  RunOK(r)'
<1> USE DEF Untouched
<1>1. CallerOK(r)' /\ TaskOK(r)' /\ TimeOK(r)'
  BY DEF RunOK, CallerOK, TaskOK, TimeOK
<1>2. EarlyOK(r)' /\ WorkOK(r)'
  BY DEF RunOK, EarlyOK, WorkOK
<1>3. ActOK(r)' /\ AnswerOK(r)'
  BY DEF RunOK, ActOK, AnswerOK
<1>4. SpentOK(r)'
  BY DEF RunOK, SpentOK
<1>5. NamedOK(r)'
  <2>1. born \in Int /\ checked[r] \in Int /\ checked[r] <= born
    BY DEF RunOK, NamedOK, TypeOK
  <2>2. checked[r] <= born'
    BY <2>1
  <2>3. ASSUME pc[r] \in {"owner", "act"}, task[r].name \in Mutations
        PROVE  \/ procs'[task[r].pid] \in {0, task[r].starttime}
               \/ procs'[task[r].pid] >= checked[r]
    <3>1. task[r].pid \in Pids
      BY <2>3 DEF RunOK, WorkOK, Working
    <3>2. procs'[task[r].pid] \in {procs[task[r].pid], 0, born}
      BY <3>1 DEF TypeOK
    <3> QED
      BY <2>1, <2>3, <3>2 DEF RunOK, NamedOK
  <2> QED
    BY <2>2, <2>3 DEF NamedOK
<1> QED
  BY <1>1, <1>2, <1>3, <1>4, <1>5 DEF RunOK

LEMMA ExitsOK ==
    ASSUME IInv, NEW p \in Pids, Exits(p)
    PROVE  IInv'
<1> USE DEF Exits, caller, effects, log, scan
<1>1. TypeOK'
  <2>1. 0 \in 0 .. MaxStart
    BY ProcessAssumption
  <2> QED
    BY <2>1 DEF IInv, TypeOK
<1>2. Ages'
  BY ProcessAssumption DEF IInv, TypeOK, Ages
<1>3. \A r \in Runs : Untouched(r)
  BY DEF Untouched
<1>4. \A r \in Runs : RunOK(r)'
  BY <1>3, ProcessesOK DEF IInv
<1> QED
  BY <1>1, <1>2, <1>4 DEF IInv

LEMMA StartsOK ==
    ASSUME IInv, NEW p \in Pids, Starts(p)
    PROVE  IInv'
<1> USE DEF Starts, caller, effects, log, scan
<1>1. TypeOK'
  <2>1. born \in 0 .. MaxStart /\ born + 1 \in 2 .. MaxStart + 2
    BY ProcessAssumption DEF IInv, TypeOK
  <2> QED
    BY <2>1 DEF IInv, TypeOK
<1>2. Ages'
  BY ProcessAssumption DEF IInv, TypeOK, Ages
<1>3. \A r \in Runs : Untouched(r)
  BY DEF Untouched
<1>4. \A r \in Runs : RunOK(r)'
  BY <1>3, ProcessesOK DEF IInv
<1> QED
  BY <1>1, <1>2, <1>4 DEF IInv

LEMMA QuitsOK ==
    ASSUME IInv, Quits
    PROVE  IInv'
<1> USE DEF Quits, table, effects, log, scan
<1>1. TypeOK'
  BY DEF IInv, TypeOK
<1>2. Ages'
  BY DEF IInv, Ages
<1>3. ASSUME NEW r \in Runs
      PROVE  RunOK(r)'
  <2>1. client'[r] = IF client[r] \in {"waiting", "killing"} THEN "gone" ELSE client[r]
    OBVIOUS
  <2>2. CallerOK(r)' /\ TimeOK(r)' /\ TaskOK(r)'
    BY <2>1 DEF IInv, RunOK, CallerOK, TimeOK, TaskOK
  <2>3. EarlyOK(r)' /\ WorkOK(r)' /\ ActOK(r)' /\ AnswerOK(r)'
    BY DEF IInv, RunOK, EarlyOK, WorkOK, ActOK, AnswerOK
  <2>4. NamedOK(r)' /\ SpentOK(r)'
    BY DEF IInv, RunOK, NamedOK, SpentOK
  <2> QED
    BY <2>2, <2>3, <2>4 DEF RunOK
<1> QED
  BY <1>1, <1>2, <1>3 DEF IInv

-----------------------------------------------------------------------------
(* The invariant *)

LEMMA InitOK ==
    ASSUME Init
    PROVE  IInv
<1> USE DEF Init
<1>1. TypeOK
  <2>1. {0, 1} \subseteq 0 .. MaxStart /\ 0 \in 0 .. MaxStart + 2
    BY ProcessAssumption
  <2>2. 2 \in 2 .. MaxStart + 2 /\ 0 \in 0 .. Len(HandArgv)
    BY ProcessAssumption, HandAssumption
  <2> QED
    BY <2>1, <2>2, NoTaskTyped DEF TypeOK
<1>2. Ages
  BY DEF Ages
<1>3. ASSUME NEW r \in Runs
      PROVE  RunOK(r)
  <2>1. CallerOK(r) /\ EarlyOK(r) /\ WorkOK(r)
    BY <1>3 DEF CallerOK, EarlyOK, WorkOK, Working
  <2>2. ActOK(r) /\ AnswerOK(r) /\ NamedOK(r) /\ TaskOK(r) /\ TimeOK(r)
    BY <1>3 DEF ActOK, AnswerOK, NamedOK, TaskOK, TimeOK
  <2>3. SpentOK(r)
    BY <1>3, PerUserNat DEF SpentOK
  <2> QED
    BY <2>1, <2>2, <2>3 DEF RunOK
<1> QED
  BY <1>1, <1>2, <1>3 DEF IInv

\* A step of one run keeps the invariant if it keeps what concerns that run.
LEMMA OneRun ==
    ASSUME IInv, NEW r \in Runs, procs' = procs, born' = born,
           TypeOK' /\ RunOK(r)' /\ \A q \in Runs \ {r} : Untouched(q)
    PROVE  IInv'
<1>1. \A q \in Runs : RunOK(q)'
  BY StaysOK DEF IInv
<1>2. Ages'
  BY DEF IInv, Ages
<1> QED
  BY <1>1, <1>2 DEF IInv

\* A step of the helper.
LEMMA HelperOK ==
    ASSUME IInv, NEW r \in Runs, HelperRuns(r)
    PROVE  IInv'
<1> USE DEF IInv
<1>1. CASE Begins(r)
  BY <1>1, BeginsOK, OneRun DEF Begins, table
<1>2. CASE ReadsStat(r)
  BY <1>2, ReadsStatOK, OneRun DEF ReadsStat, table
<1>3. CASE ReadsOwner(r)
  BY <1>3, ReadsOwnerOK, OneRun DEF ReadsOwner, table
<1>4. CASE Acts(r)
  BY <1>4, ActsOK, OneRun DEF Acts, table
<1>5. CASE FindsAccounts(r)
  BY <1>5, FindsAccountsOK, OneRun DEF FindsAccounts, table
<1>6. CASE ScansUser(r)
  BY <1>6, ScansUserOK, OneRun DEF ScansUser, table
<1>7. CASE JustReads(r)
  BY <1>7, JustReadsOK, OneRun DEF JustReads, table
<1>8. CASE Audits(r)
  BY <1>8, AuditsOK, OneRun DEF Audits, table
<1>9. CASE Emits(r)
  BY <1>9, EmitsOK, OneRun DEF Emits, table
<1> QED
  BY <1>1, <1>2, <1>3, <1>4, <1>5, <1>6, <1>7, <1>8, <1>9 DEF HelperRuns

\* A step of the thread or of sudo.
LEMMA CallOK ==
    ASSUME IInv, NEW r \in Runs,
           \/ \E o \in Askable : Asks(r, o)
           \/ \E i \in DOMAIN HandArgv : StartedByHand(r, i)
           \/ SudoDecides(r) \/ Blocks(r) \/ TimeLimit(r) \/ WaitEnds(r)
           \/ Returns(r) \/ Forgotten(r)
    PROVE  IInv'
<1> USE DEF IInv
<1>1. ASSUME NEW o \in Askable, Asks(r, o) PROVE IInv'
  BY <1>1, AsksOK, OneRun DEF Asks, table
<1>2. ASSUME NEW i \in DOMAIN HandArgv, StartedByHand(r, i) PROVE IInv'
  BY <1>2, StartedByHandOK, OneRun DEF StartedByHand, table
<1>3. CASE SudoDecides(r)
  BY <1>3, SudoDecidesOK, OneRun DEF SudoDecides, table
<1>4. CASE Blocks(r)
  BY <1>4, BlocksOK, OneRun DEF Blocks, table
<1>5. CASE TimeLimit(r)
  BY <1>5, TimeLimitOK, OneRun DEF TimeLimit, table
<1>6. CASE WaitEnds(r)
  BY <1>6, WaitEndsOK, OneRun DEF WaitEnds, Told, table
<1>7. CASE Returns(r)
  BY <1>7, ReturnsOK, OneRun DEF Returns, Told, table
<1>8. CASE Forgotten(r)
  BY <1>8, ForgottenOK, OneRun DEF Forgotten, table
<1> QED
  BY <1>1, <1>2, <1>3, <1>4, <1>5, <1>6, <1>7, <1>8

LEMMA StepOK ==
    ASSUME IInv, [Next]_vars
    PROVE  IInv'
<1>1. CASE UNCHANGED vars
  <2>1. \A r \in Runs : Untouched(r)
    BY <1>1 DEF Untouched, vars, caller, effects, log, scan
  <2>2. TypeOK'
    BY <1>1 DEF IInv, TypeOK, vars, table, caller, effects, log, scan
  <2>3. Ages' /\ procs' = procs /\ born' = born
    BY <1>1 DEF IInv, Ages, vars, table
  <2> QED
    BY <2>1, <2>2, <2>3, StaysOK DEF IInv
<1>2. ASSUME NEW p \in Pids, Exits(p) \/ Starts(p) PROVE IInv'
  BY <1>2, ExitsOK, StartsOK
<1>3. CASE Quits
  BY <1>3, QuitsOK
<1>4. ASSUME NEW r \in Runs, HelperRuns(r) PROVE IInv'
  BY <1>4, HelperOK
<1>5. ASSUME NEW r \in Runs,
             \/ \E o \in Askable : Asks(r, o)
             \/ \E i \in DOMAIN HandArgv : StartedByHand(r, i)
             \/ SudoDecides(r) \/ Blocks(r) \/ TimeLimit(r) \/ WaitEnds(r)
             \/ Returns(r) \/ Forgotten(r)
      PROVE  IInv'
  BY <1>5, CallOK
<1> QED
  BY <1>1, <1>2, <1>3, <1>4, <1>5 DEF Next

\* IInv holds throughout: of every run, what its point in the code says of it.
THEOREM Invariance == Spec => []IInv
<1>1. Init => IInv
  BY InitOK
<1>2. IInv /\ [Next]_vars => IInv'
  BY StepOK
<1> QED
  BY <1>1, <1>2, PTL DEF Spec

\* Everything keeps its range: the accounts still to be scanned never run
\* below none, the start times never beyond their bound.
THEOREM TypeCorrect == Spec => []TypeOK
<1>1. IInv => TypeOK
  BY DEF IInv
<1> QED
  BY <1>1, Invariance, PTL

\* With any command line, any processes and any interleaving: what is done is
\* what was asked for, is allowed, and meets the process that was named, or
\* one that took its id after the check (confirm_target, then kill).
THEOREM ActsAreSafe == Spec => []SafeActs
<1>1. IInv => SafeActs
  <2> SUFFICES ASSUME IInv PROVE SafeActs
    OBVIOUS
  <2>1. SameOperation
    BY DEF IInv, RunOK, TaskOK, SameOperation
  <2>2. OnlyAllowedActs
    BY DEF IInv, RunOK, ActOK, OnlyAllowedActs
  <2>3. VictimIsNamed
    BY DEF IInv, RunOK, ActOK, VictimIsNamed
  <2> QED
    BY <2>1, <2>2, <2>3 DEF SafeActs
<1> QED
  BY <1>1, Invariance, PTL

\* A helper that has ended has an audit line if and only if it acted.
THEOREM ActsAudited == Spec => []EveryActAudited
<1>1. IInv => EveryActAudited
  BY DEF IInv, RunOK, ActOK, EveryActAudited
<1> QED
  BY <1>1, Invariance, PTL

-----------------------------------------------------------------------------
(* Time *)

LEMMA SharesFit ==
    ASSUME NEW n \in Nat \ {0}, NEW b \in Nat
    PROVE  n * (b \div n) <= b
OBVIOUS

LEMMA DoneFits ==
    ASSUME NEW u \in Nat, NEW l \in Nat, l <= u, NEW p \in Nat
    PROVE  (u - l) * p <= u * p
<1>1. u * p = (u - l) * p + l * p
  OBVIOUS
<1>2. l * p >= 0 /\ l * p \in Int /\ (u - l) * p \in Int
  OBVIOUS
<1> QED
  BY <1>1, <1>2

\* Whatever the budgets and limits are: when scanning alone makes a call run
\* out of time, the least shares of its accounts did not fit into the limit
\* (storage_users and timeout_for).
THEOREM FewUsersAreAnswered == Spec => []FewUsersAnswered
<1>1. ASSUME IInv, NEW r \in Runs, result[r] = "timeout", ~late[r]
      PROVE  users[r] * LeastPerUser >= StorageLimit
  <2> DEFINE n == users[r]
             P == PerUser(task[r], n)
  <2>1. /\ n \in Nat /\ left[r] \in Nat /\ spent[r] \in Nat /\ left[r] <= n
        /\ P \in Nat
        /\ spent[r] <= (n - left[r]) * P
        /\ n > 0 => task[r].name \in Scans
        /\ task[r].name # "storage-users" => n <= 1
    BY <1>1, PerUserNat DEF IInv, TypeOK, RunOK, SpentOK
  <2>2. spent[r] >= LimitOf(asked[r])
    BY <1>1 DEF IInv, RunOK, TimeOK
  <2>3. hand[r] = 0
    BY <1>1 DEF IInv, RunOK, CallerOK, TypeOK
  <2>4. LimitOf(asked[r]) \in Nat /\ LimitOf(asked[r]) > 0
    BY TimeAssumption DEF LimitOf
  <2> HIDE DEF P
  <2>5. spent[r] <= n * P
    <3>1. (n - left[r]) * P <= n * P
      BY <2>1, DoneFits
    <3>2. (n - left[r]) * P \in Int /\ n * P \in Int
      BY <2>1
    <3> QED
      BY <2>1, <3>1, <3>2
  <2>6. n > 0
    <3>1. ASSUME n = 0 PROVE n * P = 0
      BY <2>1, <3>1
    <3> QED
      BY <2>1, <2>2, <2>4, <2>5, <3>1
  <2>7. task[r] = asked[r] /\ task[r].name \in Scans
    <3>1. task[r] # NoTask
      BY <2>1, <2>6, NoTaskTyped DEF Scans
    <3> QED
      BY <1>1, <2>1, <2>3, <2>6, <3>1 DEF IInv, RunOK, TaskOK
  <2>8. CASE task[r].name # "storage-users"
    <3>0. n = 1
      BY <2>1, <2>6, <2>8
    <3>1. P = DetailBudget /\ LimitOf(asked[r]) = DetailLimit
      BY <2>7, <2>8 DEF P, PerUser, LimitOf
    <3>2. n * P = DetailBudget
      BY <3>0, <3>1, TimeAssumption
    <3> QED
      BY <2>1, <2>2, <2>5, <3>1, <3>2, TimeAssumption
  <2>9. CASE task[r].name = "storage-users"
    <3>1. LimitOf(asked[r]) = StorageLimit
      BY <2>7, <2>9 DEF LimitOf
    <3>2. P = StorageBudget \div n \/ P = LeastPerUser
      BY <2>1, <2>6, <2>9 DEF P, PerUser
    <3>3. CASE P = StorageBudget \div n
      <4>1. n * P <= StorageBudget
        <5>1. n \in Nat \ {0} /\ StorageBudget \in Nat
          BY <2>1, <2>6, TimeAssumption
        <5>2. n * (StorageBudget \div n) <= StorageBudget
          BY <5>1, SharesFit
        <5> QED
          BY <3>3, <5>2
      <4>2. n * P \in Int
        BY <2>1
      <4> QED
        BY <2>1, <2>2, <2>5, <3>1, <4>1, <4>2, TimeAssumption
    <3>4. CASE P = LeastPerUser
      <4>1. n * P \in Int
        BY <2>1
      <4> QED
        BY <2>1, <2>2, <2>5, <3>1, <3>4, <4>1, TimeAssumption
    <3> QED
      BY <3>2, <3>3, <3>4
  <2> QED
    BY <2>8, <2>9
<1>2. IInv => FewUsersAnswered
  BY <1>1 DEF FewUsersAnswered
<1> QED
  BY <1>2, Invariance, PTL

-----------------------------------------------------------------------------
(* What the person is told *)

Effect(r) == IF victim[r] = 0 THEN "none" ELSE "done"

\* What a step of one run, of which the others notice nothing, is to the promise.
LEMMA PromiseSteps ==
    ASSUME NEW r \in Runs, \A q \in Runs \ {r} : Untouched(q)
    PROVE  /\ Effect(r)' = Effect(r) /\ Word(r)' = Word(r) => UNCHANGED Promise!vars
           /\ /\ Effect(r) = "none" /\ Effect(r)' = "done"
              /\ Word(r) \in {"nothing", "unknown"} /\ Word(r)' = Word(r)
              => Promise!Do(r)
           /\ /\ Effect(r)' = Effect(r) /\ Word(r) = "nothing"
              /\ Word(r)' \in {"ok", "failed", "unknown"}
              /\ Word(r)' = "ok" => Effect(r) = "done"
              /\ Word(r)' = "failed" => Effect(r) = "none"
              => Promise!Tell(r)
           /\ Effect(r)' = "none" /\ Word(r)' = "nothing" => Promise!Finish(r)
<1> DEFINE effects0 == [q \in Runs |-> Effect(q)]
           words0 == [q \in Runs |-> Word(q)]
           effects1 == [q \in Runs |-> Effect(q)']
           words1 == [q \in Runs |-> Word(q)']
<1>1. \A q \in Runs \ {r} : Effect(q)' = Effect(q) /\ Word(q)' = Word(q)
  BY DEF Untouched, Effect, Word
<1>2. /\ effects1 = [effects0 EXCEPT ![r] = Effect(r)']
      /\ words1 = [words0 EXCEPT ![r] = Word(r)']
  BY <1>1
<1>3. /\ Effect(r)' = Effect(r) => effects1 = effects0
      /\ Word(r)' = Word(r) => words1 = words0
  BY <1>1
<1>4. effects0[r] = Effect(r) /\ words0[r] = Word(r)
  OBVIOUS
<1>5. /\ Promise!vars = <<effects0, words0>>
      /\ Promise!vars' = <<effects1, words1>>
  BY DEF Promise!vars, Effect
<1> QED
  BY <1>2, <1>3, <1>4, <1>5 DEF Promise!vars, Promise!Do, Promise!Tell, Promise!Finish, Effect

\* What a run that may still be told something knows.
LEMMA AnswersAreTrue ==
    ASSUME IInv, NEW r \in Runs, client[r] \in {"waiting", "killing"},
           asked[r].name \in Mutations
    PROVE  /\ out[r] = "ok" => victim[r] # 0
           /\ out[r] \in {"refused", "error"} => victim[r] = 0
<1>1. hand[r] = 0 /\ AnswerOK(r) /\ ActOK(r) /\ TaskOK(r)
  BY DEF IInv, RunOK, CallerOK
<1>2. ASSUME out[r] = "ok" PROVE victim[r] # 0
  <2>1. verdict[r] = "ok" /\ task[r].name # "none"
    BY <1>1, <1>2 DEF AnswerOK, ActOK
  <2>2. task[r] = asked[r]
    BY <1>1, <2>1, NoTaskTyped DEF TaskOK
  <2> QED
    BY <1>1, <2>1, <2>2 DEF ActOK
<1>3. ASSUME out[r] \in {"refused", "error"} PROVE victim[r] = 0
  BY <1>1, <1>3 DEF AnswerOK, ActOK
<1> QED
  BY <1>2, <1>3

LEMMA AsksKeeps ==
    ASSUME IInv, NEW r \in Runs, NEW o \in Askable, Asks(r, o)
    PROVE  [Promise!Next]_(Promise!vars)
<1>1. \A q \in Runs \ {r} : Untouched(q)
  BY AsksOK DEF IInv
<1>2. client[r] = "idle" /\ victim[r] = 0 /\ result[r] = "none" /\ asked[r].name = "none"
  BY NoTaskTyped DEF Asks, IInv, RunOK, CallerOK, EarlyOK, Early
<1>3. Effect(r) = "none" /\ Effect(r)' = "none" /\ Word(r) = "nothing"
  BY <1>2 DEF Asks, effects, Effect, Word, Mutations
<1>4. result'[r] \in {"none", "failed"}
  BY <1>2 DEF Asks, IInv, TypeOK
<1>5. Word(r)' \in {"nothing", "failed"}
  BY <1>4 DEF Word
<1> QED
  BY <1>1, <1>3, <1>5, PromiseSteps DEF Promise!Next

LEMMA ToldKeeps ==
    ASSUME IInv, NEW r \in Runs, WaitEnds(r) \/ Returns(r)
    PROVE  [Promise!Next]_(Promise!vars)
<1>1. \A q \in Runs \ {r} : Untouched(q)
  BY WaitEndsOK, ReturnsOK DEF IInv
<1>2. /\ client[r] \in {"waiting", "killing"} /\ result[r] = "none"
      /\ asked' = asked /\ victim' = victim
  BY DEF WaitEnds, Returns, Told, effects, IInv, RunOK, CallerOK
<1>3. Effect(r)' = Effect(r) /\ Word(r) = "nothing"
  BY <1>2 DEF Effect, Word
<1>4. CASE asked[r].name \notin Mutations
  <2>1. Word(r)' = "nothing"
    BY <1>2, <1>4 DEF Word
  <2> QED
    BY <1>1, <1>3, <2>1, PromiseSteps
<1>5. CASE asked[r].name \in Mutations
  <2>1. CASE WaitEnds(r)
    <3>1. result'[r] = "timeout"
      BY <2>1 DEF WaitEnds, Told, IInv, TypeOK
    <3>2. Word(r)' = "unknown"
      BY <1>2, <1>5, <3>1 DEF Word
    <3> QED
      BY <1>1, <1>3, <3>2, PromiseSteps DEF Promise!Next
  <2>2. CASE Returns(r)
    <3>1. out[r] \in {"ok", "error", "refused"}
      BY <2>2 DEF Returns, IInv, RunOK, CallerOK, TypeOK
    <3>2. \/ out[r] = "ok" /\ result'[r] = "ok"
          \/ out[r] # "ok" /\ result'[r] \in {"failed", "refused"}
      BY <2>2, <3>1 DEF Returns, Told, IInv, TypeOK
    <3>3. \/ out[r] = "ok" /\ Word(r)' = "ok"
          \/ out[r] # "ok" /\ Word(r)' = "failed"
      BY <1>2, <1>5, <3>2 DEF Word
    <3>4. /\ Word(r)' = "ok" => Effect(r) = "done"
          /\ Word(r)' = "failed" => Effect(r) = "none"
      BY <1>2, <1>5, <3>1, <3>3, AnswersAreTrue DEF Effect
    <3> QED
      BY <1>1, <1>3, <3>3, <3>4, PromiseSteps DEF Promise!Next
  <2> QED
    BY <2>1, <2>2
<1> QED
  BY <1>4, <1>5

LEMMA ForgottenKeeps ==
    ASSUME IInv, NEW r \in Runs, Forgotten(r)
    PROVE  [Promise!Next]_(Promise!vars)
<1>1. \A q \in Runs \ {r} : Untouched(q)
  BY ForgottenOK DEF IInv
<1>2. victim'[r] = 0 /\ asked'[r].name = "none"
  BY NoTaskTyped DEF Forgotten, IInv, TypeOK
<1>3. Effect(r)' = "none" /\ Word(r)' = "nothing"
  BY <1>2 DEF Effect, Word, Mutations
<1> QED
  BY <1>1, <1>3, PromiseSteps DEF Promise!Next

LEMMA ActsKeeps ==
    ASSUME IInv, NEW r \in Runs, Acts(r)
    PROVE  [Promise!Next]_(Promise!vars)
<1>1. \A q \in Runs \ {r} : Untouched(q)
  BY ActsOK DEF IInv
<1>2. pc[r] = "act" /\ victim[r] = 0 /\ result[r] = "none"
  BY DEF Acts, IInv, RunOK, CallerOK, WorkOK, Working
<1>3. asked' = asked /\ result' = result
  BY DEF Acts, caller
<1>4. Effect(r) = "none" /\ Word(r) = "nothing" /\ Word(r)' = Word(r)
  BY <1>2, <1>3 DEF Effect, Word
<1>5. Effect(r)' \in {"none", "done"}
  BY DEF Effect
<1> QED
  BY <1>1, <1>4, <1>5, PromiseSteps DEF Promise!Next

\* Whatever leaves what was done, asked and told as it is.
LEMMA NothingSaid ==
    ASSUME victim' = victim, asked' = asked, result' = result
    PROVE  UNCHANGED Promise!vars
<1>1. \A r \in Runs : Effect(r)' = Effect(r) /\ Word(r)' = Word(r)
  BY DEF Effect, Word
<1> QED
  BY <1>1 DEF Promise!vars, Effect

\* The client, sudo and the helper together implement OperationPromise: an
\* effect at most once, "done" and "failed" said only when true and final,
\* of a call that ran out of time nothing.
THEOREM ImplementsPromise == Spec => KeepsPromise
<1>1. Init => Promise!Init
  BY NoTaskTyped DEF Init, Promise!Init, Word, Mutations
<1>2. ASSUME IInv, [Next]_vars
      PROVE  [Promise!Next]_(Promise!vars)
  <2>1. CASE UNCHANGED vars
    BY <2>1, NothingSaid DEF vars, caller, effects
  <2>2. ASSUME NEW p \in Pids, Exits(p) \/ Starts(p)
        PROVE  [Promise!Next]_(Promise!vars)
    BY <2>2, NothingSaid DEF Exits, Starts, caller, effects
  <2>3. CASE Quits
    BY <2>3, NothingSaid DEF Quits, effects
  <2>4. ASSUME NEW r \in Runs,
               \/ \E i \in DOMAIN HandArgv : StartedByHand(r, i)
               \/ SudoDecides(r) \/ Blocks(r) \/ TimeLimit(r)
        PROVE  [Promise!Next]_(Promise!vars)
    BY <2>4, NothingSaid DEF StartedByHand, SudoDecides, Blocks, TimeLimit, caller, effects
  <2>5. ASSUME NEW r \in Runs, HelperRuns(r), ~Acts(r)
        PROVE  [Promise!Next]_(Promise!vars)
    <3>1. victim' = victim /\ asked' = asked /\ result' = result
      BY <2>5 DEF HelperRuns, Begins, ReadsStat, ReadsOwner, FindsAccounts, ScansUser,
                 JustReads, Audits, Emits, caller, effects
    <3> QED
      BY <3>1, NothingSaid
  <2>6. ASSUME NEW r \in Runs, Acts(r)
        PROVE  [Promise!Next]_(Promise!vars)
    BY <1>2, <2>6, ActsKeeps
  <2>7. ASSUME NEW r \in Runs,
               (\E o \in Askable : Asks(r, o)) \/ WaitEnds(r) \/ Returns(r) \/ Forgotten(r)
        PROVE  [Promise!Next]_(Promise!vars)
    BY <1>2, <2>7, AsksKeeps, ToldKeeps, ForgottenKeeps
  <2> QED
    BY <1>2, <2>1, <2>2, <2>3, <2>4, <2>5, <2>6, <2>7 DEF Next
<1> QED
  BY <1>1, <1>2, Invariance, PTL DEF Spec, KeepsPromise, Promise!Spec
-----------------------------------------------------------------------------
(* The directories above an entry *)

Closed(S) == \A k \in S : Parent[k] \in S

\* An entry and what is above it: what every closed set has that has the entry.
Up(n) == {m \in Nodes : \A S \in SUBSET Nodes : n \in S /\ Closed(S) => m \in S}

\* Every entry is in a directory.
LEMMA ParentIsNode == \A n \in Nodes : Parent[n] \in Nodes /\ Parent[n] \in Dirs
BY TreeAssumption

LEMMA UpClosed ==
    ASSUME NEW n \in Nodes
    PROVE  n \in Up(n) /\ Up(n) \subseteq Nodes /\ Closed(Up(n))
BY ParentIsNode DEF Up, Closed

\* Up is the least closed set an entry is in.
LEMMA UpLeast ==
    ASSUME NEW n \in Nodes, NEW S \in SUBSET Nodes, n \in S, Closed(S)
    PROVE  Up(n) \subseteq S
BY DEF Up

LEMMA UpStep ==
    ASSUME NEW n \in Nodes
    PROVE  Up(n) = {n} \cup Up(Parent[n])
<1>1. Up(n) \subseteq {n} \cup Up(Parent[n])
    <2>1. Closed({n} \cup Up(Parent[n]))
        BY UpClosed, ParentIsNode DEF Closed
    <2>2. {n} \cup Up(Parent[n]) \in SUBSET Nodes
        BY UpClosed, ParentIsNode
    <2> QED BY <2>1, <2>2, UpLeast
<1>2. Up(Parent[n]) \subseteq Up(n)
    BY UpClosed, UpLeast, ParentIsNode DEF Closed
<1> QED BY <1>1, <1>2, UpClosed

\* Nothing is above itself.
LEMMA UpOnce ==
    ASSUME NEW n \in Nodes, Parent[n] # n
    PROVE  n \notin Up(Parent[n])
<1> SUFFICES ASSUME n \in Up(Parent[n]) PROVE FALSE
    OBVIOUS
<1> DEFINE S == {k \in Up(n) : n \in Up(k)}
<1>1. n \in S /\ S \in SUBSET Nodes
    BY UpClosed
<1>2. PICK k \in S : Parent[k] = k \/ Parent[k] \notin S
    <2> HIDE DEF S
    <2> QED BY <1>1, TreeAssumption
<1>3. k \in Nodes /\ Parent[k] \in Up(n) /\ Up(k) = {k} \cup Up(Parent[k])
    BY <1>1, UpClosed, UpStep DEF Closed
<1>4. CASE Parent[k] = k
    <2>1. Up(k) \subseteq {k}
        BY <1>3, <1>4, UpLeast, {k} \in SUBSET Nodes, Closed({k}) DEF Closed
    <2> QED BY <1>4, <2>1
<1>5. CASE Parent[k] \notin S
    <2>1. n \notin Up(Parent[k])
        BY <1>3, <1>5
    <2> QED BY <1>3, <2>1
<1> QED BY <1>2, <1>4, <1>5

\* The recursion of Above comes to an end.
LEMMA AboveIs ==
    /\ Walk!Above = [n \in Nodes |-> Up(n) \ {n}]
    /\ \A n \in Nodes : Walk!Above[n] =
           IF Parent[n] = n THEN {} ELSE {Parent[n]} \cup Walk!Above[Parent[n]]
<1> DEFINE Step0(g, n) == IF Parent[n] = n THEN {} ELSE {Parent[n]} \cup g[Parent[n]]
           up == [n \in Nodes |-> Up(n) \ {n}]
<1>1. \A n \in Nodes : up[n] = Step0(up, n)
    <2> TAKE n \in Nodes
    <2>1. CASE Parent[n] = n
        <3>1. Up(n) \subseteq {n}
            BY <2>1, UpLeast, {n} \in SUBSET Nodes, Closed({n}) DEF Closed
        <3> QED BY <2>1, <3>1
    <2>2. CASE Parent[n] # n
        <3>1. Up(n) = {n} \cup Up(Parent[n]) /\ n \notin Up(Parent[n])
            BY <2>2, UpStep, UpOnce
        <3>2. Parent[n] \in Nodes /\ Parent[n] \in Up(Parent[n])
            BY ParentIsNode, UpClosed
        <3> QED BY <2>2, <3>1, <3>2
    <2> QED BY <2>1, <2>2
<1>2. up = [n \in Nodes |-> Step0(up, n)]
    BY <1>1
<1> DEFINE above == CHOOSE g : g = [n \in Nodes |-> Step0(g, n)]
<1>3. above = [n \in Nodes |-> Step0(above, n)]
    <2> HIDE DEF up
    <2> QED BY <1>2, Zenon
<1>4. Walk!Above = above
    BY DEF Walk!Above
<1> HIDE DEF above
<1>5. \A n \in Nodes : above[n] = Step0(above, n)
    BY <1>3
<1> DEFINE Bad == {n \in Nodes : above[n] # up[n]}
<1>6. Bad = {}
    <2> SUFFICES ASSUME Bad # {} PROVE FALSE
        OBVIOUS
    <2>1. PICK n \in Bad : Parent[n] = n \/ Parent[n] \notin Bad
        BY TreeAssumption
    <2>2. n \in Nodes /\ Parent[n] \in Nodes
        BY ParentIsNode
    <2>3. Step0(above, n) = Step0(up, n)
        <3> HIDE DEF up
        <3> QED BY <2>1, <2>2
    <2> HIDE DEF up, Step0
    <2> QED BY <1>1, <1>5, <2>2, <2>3
<1>7. above = up
    <2>1. above = [n \in Nodes |-> above[n]]
        BY <1>3
    <2>2. \A n \in Nodes : above[n] = up[n]
        BY <1>6
    <2> QED BY <2>1, <2>2
<1> QED BY <1>4, <1>5, <1>7

\* What is above: directories, finitely many, and what is above those.
LEMMA AboveFacts ==
    ASSUME NEW n \in Nodes
    PROVE  /\ Walk!Above[n] \subseteq Dirs /\ Walk!Above[n] \subseteq Nodes
           /\ IsFiniteSet(Walk!Above[n]) /\ Cardinality(Walk!Above[n]) \in Nat
           /\ n \notin Walk!Above[n]
           /\ \A m \in Walk!Above[n] : Walk!Above[m] \subseteq Walk!Above[n]
           /\ \A m \in Walk!Above[n] : Parent[m] # m => Parent[m] \in Walk!Above[n]
           /\ Parent[n] # n => Parent[n] \in Walk!Above[n]
<1> DEFINE A == Walk!Above
<1> HIDE DEF A
<1>1. \A m \in Nodes : A[m] = IF Parent[m] = m THEN {} ELSE {Parent[m]} \cup A[Parent[m]]
    BY AboveIs DEF A
<1>2. \A m \in Nodes : A[m] \subseteq Nodes /\ m \notin A[m]
    <2>1. \A m \in Nodes : Up(m) \subseteq Nodes
        BY DEF Up
    <2> QED BY <2>1, AboveIs DEF A
<1> DEFINE Bad == {m \in Nodes : ~(A[m] \subseteq Dirs /\ \A k \in A[m] : A[k] \subseteq A[m])}
<1>3. Bad = {}
    <2> SUFFICES ASSUME Bad # {} PROVE FALSE
        OBVIOUS
    <2>1. PICK m \in Bad : Parent[m] = m \/ Parent[m] \notin Bad
        BY TreeAssumption
    <2>2. m \in Nodes /\ Parent[m] \in Nodes /\ Parent[m] \in Dirs
        BY ParentIsNode
    <2>3. Parent[m] # m
        BY <1>1, <2>2
    <2>4. A[m] = {Parent[m]} \cup A[Parent[m]]
        BY <1>1, <2>2, <2>3
    <2>5. A[Parent[m]] \subseteq Dirs /\ \A k \in A[Parent[m]] : A[k] \subseteq A[Parent[m]]
        BY <2>1, <2>2, <2>3
    <2> QED BY <2>2, <2>4, <2>5
<1>4. IsFiniteSet(A[n]) /\ Cardinality(A[n]) \in Nat
    BY <1>2, TreeAssumption, FS_Subset, FS_CardinalityType
<1>5. \A m \in A[n] : Parent[m] # m => Parent[m] \in A[n]
    <2> TAKE m \in A[n]
    <2>1. m \in Nodes /\ A[m] \subseteq A[n]
        BY <1>2, <1>3
    <2> QED BY <1>1, <2>1
<1>6. Parent[n] # n => Parent[n] \in A[n]
    BY <1>1
<1>7. A[n] \subseteq Dirs /\ \A k \in A[n] : A[k] \subseteq A[n]
    BY <1>3
<1> QED BY <1>2, <1>4, <1>5, <1>6, <1>7 DEF A

\* From a directory one gets to what is below it by one of its entries.
LEMMA WayDown ==
    ASSUME NEW n \in Nodes, NEW d \in Walk!Above[n]
    PROVE  \E c \in Walk!InDir(d) : c = n \/ c \in Walk!Above[n]
<1> DEFINE A == Walk!Above
           Bad == {m \in Nodes : d \in A[m] /\ ~\E c \in Walk!InDir(d) : c = m \/ c \in A[m]}
<1> HIDE DEF A
<1>1. \A m \in Nodes : A[m] = IF Parent[m] = m THEN {} ELSE {Parent[m]} \cup A[Parent[m]]
    BY AboveIs DEF A
<1>2. Bad = {}
    <2> SUFFICES ASSUME Bad # {} PROVE FALSE
        OBVIOUS
    <2>1. PICK m \in Bad : Parent[m] = m \/ Parent[m] \notin Bad
        BY TreeAssumption
    <2>2. m \in Nodes /\ Parent[m] \in Nodes /\ d \in A[m]
        BY ParentIsNode
    <2>3. Parent[m] # m /\ A[m] = {Parent[m]} \cup A[Parent[m]]
        BY <1>1, <2>2
    <2>4. CASE d = Parent[m]
        BY <2>1, <2>2, <2>3, <2>4 DEF Walk!InDir
    <2>5. CASE d # Parent[m]
        <3>1. PICK c \in Walk!InDir(d) : c = Parent[m] \/ c \in A[Parent[m]]
            BY <2>1, <2>2, <2>3, <2>5
        <3> QED BY <2>1, <2>3, <3>1
    <2> QED BY <2>4, <2>5
<1> QED BY <1>2 DEF A

-----------------------------------------------------------------------------
(* Sums *)

\* Of numbers not negative, fewer come to less.
LEMMA SumOfFewer ==
    ASSUME NEW f, NEW S, IsFiniteSet(S), \A x \in S : f[x] \in Nat, NEW T \in SUBSET S
    PROVE  SumFunctionOnSet(f, T) <= SumFunctionOnSet(f, S)
<1> DEFINE Total(U) == SumFunctionOnSet(f, U)
           Bad == {U \in SUBSET S : ~(Total(U \cap T) <= Total(U))}
<1>0. \A U \in SUBSET S : IsFiniteSet(U) /\ Total(U) \in Nat
    BY FS_Subset, SumIsNat
<1>1. ASSUME NEW U \in Bad, \A V \in Bad : ~(Cardinality(V) < Cardinality(U)) PROVE FALSE
    <2>1. IsFiniteSet(U) /\ IsFiniteSet(U \cap T)
          /\ Total(U) \in Nat /\ Total(U \cap T) \in Nat
        BY <1>0
    <2>2. U # {}
        <3>1. {} \cap T = {} /\ Total({}) = 0
            BY SumEmpty
        <3> QED BY <3>1
    <2>3. PICK x \in U : TRUE
        BY <2>2
    <2>4. /\ U \ {x} \in SUBSET S /\ Cardinality(U \ {x}) = Cardinality(U) - 1
          /\ Cardinality(U) \in Nat
        BY <2>1, FS_RemoveElement, FS_CardinalityType
    <2>5. Total((U \ {x}) \cap T) <= Total(U \ {x})
        <3>1. U \ {x} \notin Bad
            <4> HIDE DEF Bad
            <4> QED BY <1>1, <2>4
        <3> QED BY <2>4, <3>1
    <2>6. Total(U) = f[x] + Total(U \ {x}) /\ f[x] \in Nat
        BY <2>1, SumTakeOut
    <2>7. Total((U \ {x}) \cap T) \in Nat /\ Total(U \ {x}) \in Nat
        BY <1>0, <2>4
    <2>8. CASE x \in T
        <3>1. (U \cap T) \ {x} = (U \ {x}) \cap T /\ x \in U \cap T
            BY <2>8
        <3>2. Total(U \cap T) = f[x] + Total((U \ {x}) \cap T)
            BY <2>1, <3>1, SumTakeOut
        <3> HIDE DEF Total
        <3> QED BY <2>5, <2>6, <2>7, <3>2
    <2>9. CASE x \notin T
        <3>1. U \cap T = (U \ {x}) \cap T
            BY <2>9
        <3> HIDE DEF Total
        <3> QED BY <2>5, <2>6, <2>7, <3>1
    <2> QED BY <2>8, <2>9
<1>2. Bad = {}
    <2>1. \A U \in Bad : IsFiniteSet(U)
        BY <1>0
    <2> HIDE DEF Bad
    <2> QED BY <1>1, <2>1, SmallestSet, Zenon
<1>3. S \cap T = T
    OBVIOUS
<1> QED BY <1>0, <1>2, <1>3

\* One more.
LEMMA SumOfOneMore ==
    ASSUME NEW f, NEW S, IsFiniteSet(S), NEW x, x \notin S,
           \A y \in S \cup {x} : f[y] \in Int
    PROVE  SumFunctionOnSet(f, S \cup {x}) = SumFunctionOnSet(f, S) + f[x]
<1>1. IsFiniteSet(S \cup {x})
    BY FS_AddElement
<1>2. (S \cup {x}) \ {x} = S
    OBVIOUS
<1>3. SumFunctionOnSet(f, S) \in Int
    BY SumIsInt
<1>4. SumFunctionOnSet(f, S \cup {x}) = f[x] + SumFunctionOnSet(f, (S \cup {x}) \ {x})
    BY <1>1, SumTakeOut
<1>5. f[x] \in Int
    <2>1. x \in S \cup {x}
        OBVIOUS
    <2> QED BY <2>1, Zenon
<1> DEFINE sum == SumFunctionOnSet(f, S)
           fx == f[x]
<1>6. SumFunctionOnSet(f, S \cup {x}) = fx + sum
    BY <1>2, <1>4
<1>7. fx + sum = sum + fx
    <2>1. sum \in Int /\ fx \in Int
        BY <1>3, <1>5
    <2> HIDE DEF sum, fx
    <2> QED BY <2>1
<1> QED BY <1>6, <1>7

-----------------------------------------------------------------------------
(* The stack *)

FrameType == [dir : Dirs, todo : SUBSET Nodes, total : Nat, depth : Nat]
Frames == Seq(FrameType)
Pending(s) == {n \in Nodes : \E i \in 1 .. Len(s) : n \in s[i].todo}
Reading(s) == {s[i].dir : i \in 2 .. Len(s)}
Totals(s) == [i \in DOMAIN s |-> s[i].total]
HeldIn(s) == SumFunctionOnSet(Totals(s), DOMAIN s)

\* A stack over home h: the way from it to a directory, one frame for each on
\* the way, with what is still to be looked at in it.
Shape(s, h) ==
    /\ s \in Frames
    /\ Len(s) \in 1 .. MaxDepth + 1
    /\ s[1].dir = h /\ Parent[h] = h /\ s[1].total = 0
    /\ \A i \in 1 .. Len(s) :
          /\ s[i].depth = i - 1
          /\ Walk!Above[s[i].dir] = {s[j].dir : j \in 1 .. i - 1}
          /\ Cardinality(Walk!Above[s[i].dir]) = i - 1
          /\ s[i].todo \subseteq Walk!InDir(s[i].dir)
          /\ s[i].todo # {} => s[i].dir \notin Unreadable
          /\ s[i].dir \notin Foreign
    /\ \A i \in 2 .. Len(s) :
          /\ Parent[s[i].dir] = s[i - 1].dir /\ s[i].dir # s[i - 1].dir
          /\ s[i].dir \notin s[i - 1].todo
          /\ s[i - 1].dir \notin Unreadable
          /\ s[i].dir \notin Unreadable

\* Every directory is on it once, and none of them is still to be looked at.
LEMMA OnStackOnce ==
    ASSUME NEW s, NEW h, Shape(s, h)
    PROVE  /\ \A i, j \in 1 .. Len(s) : s[i].dir = s[j].dir => i = j
           /\ \A i \in 1 .. Len(s) : s[i].dir \notin Pending(s)
           /\ \A i, j \in 1 .. Len(s) : \A n \in s[i].todo : n \in s[j].todo => i = j
           /\ h \notin Reading(s)
<1>0. Len(s) \in Nat /\ \A i \in 1 .. Len(s) : s[i].dir \in Dirs /\ s[i].dir \in Nodes
    <2>1. s \in Frames /\ Dirs \subseteq Nodes
        BY TreeAssumption DEF Shape
    <2>2. Len(s) \in Nat /\ \A i \in 1 .. Len(s) : s[i] \in FrameType
        BY <2>1 DEF Frames
    <2> QED BY <2>1, <2>2 DEF FrameType
<1>1. \A i, j \in 1 .. Len(s) : s[i].dir = s[j].dir => i = j
    <2> TAKE i, j \in 1 .. Len(s)
    <2>1. Cardinality(Walk!Above[s[i].dir]) = i - 1 /\ Cardinality(Walk!Above[s[j].dir]) = j - 1
        BY DEF Shape
    <2> QED BY <1>0, <2>1
<1>2. ASSUME NEW i \in 1 .. Len(s), NEW j \in 1 .. Len(s), s[i].dir \in s[j].todo
      PROVE  FALSE
    <2>1. Parent[s[i].dir] = s[j].dir /\ s[i].dir # s[j].dir
        BY <1>2 DEF Shape, Walk!InDir
    <2>2. i # 1
        BY <2>1 DEF Shape
    <2>3. i \in 2 .. Len(s) /\ i - 1 \in 1 .. Len(s)
        BY <1>0, <2>2
    <2>4. Parent[s[i].dir] = s[i - 1].dir /\ s[i].dir \notin s[i - 1].todo
        BY <2>3 DEF Shape
    <2>5. j = i - 1
        BY <1>1, <2>1, <2>3, <2>4
    <2> QED BY <1>2, <2>4, <2>5
<1>3. ASSUME NEW i \in 1 .. Len(s), NEW j \in 1 .. Len(s), NEW n \in s[i].todo, n \in s[j].todo
      PROVE  i = j
    <2>1. Parent[n] = s[i].dir /\ Parent[n] = s[j].dir
        BY <1>3 DEF Shape, Walk!InDir
    <2> QED BY <1>1, <2>1
<1>4. h \notin Reading(s)
    <2>1. h = s[1].dir /\ 1 \in 1 .. Len(s)
        BY DEF Shape
    <2> QED BY <1>0, <1>1, <2>1 DEF Reading
<1> QED BY <1>1, <1>2, <1>3, <1>4 DEF Pending

\* A turn of a loop leaves the way as it is.
LEMMA SameWay ==
    ASSUME NEW s, NEW h, Shape(s, h), NEW t \in Frames, Len(t) = Len(s),
           \A i \in 1 .. Len(s) : /\ t[i].dir = s[i].dir /\ t[i].depth = s[i].depth
                                  /\ t[i].todo \subseteq s[i].todo,
           t[1].total = 0
    PROVE  Shape(t, h) /\ Reading(t) = Reading(s) /\ Pending(t) \subseteq Pending(s)
<1>1. Len(s) \in Nat
    BY DEF Shape
<1>2. Reading(t) = Reading(s)
    <2>1. \A i \in 2 .. Len(s) : i \in 1 .. Len(s)
        BY <1>1
    <2> QED BY <1>1, <2>1 DEF Reading
<1>3. Pending(t) \subseteq Pending(s)
    BY DEF Pending
<1>4. Shape(t, h)
    <2>1. /\ t \in Frames /\ Len(t) \in 1 .. MaxDepth + 1
          /\ t[1].dir = h /\ Parent[h] = h /\ t[1].total = 0
        BY <1>1 DEF Shape
    <2>2. ASSUME NEW i \in 1 .. Len(t)
          PROVE  /\ t[i].depth = i - 1
                 /\ Walk!Above[t[i].dir] = {t[j].dir : j \in 1 .. i - 1}
                 /\ Cardinality(Walk!Above[t[i].dir]) = i - 1
                 /\ t[i].todo \subseteq Walk!InDir(t[i].dir)
                 /\ t[i].todo # {} => t[i].dir \notin Unreadable
                 /\ t[i].dir \notin Foreign
        <3>1. i \in 1 .. Len(s) /\ 1 .. i - 1 \subseteq 1 .. Len(s)
            BY <1>1
        <3>2. {t[j].dir : j \in 1 .. i - 1} = {s[j].dir : j \in 1 .. i - 1}
            BY <3>1
        <3>3. /\ t[i].dir = s[i].dir /\ t[i].depth = s[i].depth /\ t[i].todo \subseteq s[i].todo
            BY <3>1
        <3>4. /\ s[i].depth = i - 1
              /\ Walk!Above[s[i].dir] = {s[j].dir : j \in 1 .. i - 1}
              /\ Cardinality(Walk!Above[s[i].dir]) = i - 1
              /\ s[i].todo \subseteq Walk!InDir(s[i].dir)
              /\ s[i].todo # {} => s[i].dir \notin Unreadable
              /\ s[i].dir \notin Foreign
            BY <3>1 DEF Shape
        <3> QED BY <3>2, <3>3, <3>4
    <2>3. ASSUME NEW i \in 2 .. Len(t)
          PROVE  /\ Parent[t[i].dir] = t[i - 1].dir /\ t[i].dir # t[i - 1].dir
                 /\ t[i].dir \notin t[i - 1].todo
                 /\ t[i - 1].dir \notin Unreadable
                 /\ t[i].dir \notin Unreadable
        <3>1. i \in 1 .. Len(s) /\ i - 1 \in 1 .. Len(s) /\ i \in 2 .. Len(s)
            BY <1>1
        <3> QED BY <3>1 DEF Shape
    <2> QED BY <2>1, <2>2, <2>3 DEF Shape
<1> QED BY <1>2, <1>3, <1>4

\* What is above an entry of the directory being read is on the stack.
LEMMA AboveEntry ==
    ASSUME NEW s, NEW h, Shape(s, h), NEW n \in Walk!InDir(s[Len(s)].dir)
    PROVE  /\ Walk!Above[n] = {s[j].dir : j \in 1 .. Len(s)}
           /\ Cardinality(Walk!Above[n]) = Len(s)
<1> DEFINE m == Len(s)
           d == s[m].dir
<1>1. m \in Nat /\ m \in 1 .. m /\ s \in Frames
    BY LimitAssumption DEF Shape
<1>2. d \in Nodes /\ Parent[n] = d /\ n # d /\ n \in Nodes
    <2>1. s[m] \in FrameType
        BY <1>1 DEF Frames
    <2> QED BY <2>1, TreeAssumption DEF Walk!InDir, FrameType
<1>3. Walk!Above[d] = {s[j].dir : j \in 1 .. m - 1} /\ Cardinality(Walk!Above[d]) = m - 1
    BY <1>1 DEF Shape
<1>4. 1 .. m = 1 .. m - 1 \cup {m}
    BY <1>1
<1>5. IsFiniteSet(Walk!Above[d]) /\ d \notin Walk!Above[d]
    BY <1>2, AboveFacts
<1>6. Walk!Above[n] = Walk!Above[d] \cup {d}
    BY <1>2, AboveIs
<1>7. Cardinality(Walk!Above[n]) = Cardinality(Walk!Above[d]) + 1
    BY <1>5, <1>6, FS_AddElement
<1>8. Walk!Above[n] = {s[j].dir : j \in 1 .. m}
    BY <1>3, <1>4, <1>6
<1> HIDE DEF m, d
<1>9. Cardinality(Walk!Above[n]) = m
    BY <1>1, <1>3, <1>7
<1> QED BY <1>8, <1>9 DEF m

\* A directory is opened.
LEMMA GoDown ==
    ASSUME NEW s, NEW h, Shape(s, h), NEW d \in Dirs,
           d \in Walk!InDir(s[Len(s)].dir), d \notin Foreign \cup Unreadable,
           d \notin s[Len(s)].todo, s[Len(s)].dir \notin Unreadable, Len(s) <= MaxDepth
    PROVE  LET t == Append(s, Walk!Frame(d, Len(s)))
           IN  /\ Shape(t, h)
               /\ Pending(t) = Pending(s) \cup Walk!InDir(d)
               /\ Reading(t) = Reading(s) \cup {d}
               /\ HeldIn(t) = HeldIn(s)
<1> DEFINE f == Walk!Frame(d, Len(s))
           t == Append(s, f)
           m == Len(s)
<1>1. /\ s \in Frames /\ m \in Nat /\ m \in 1 .. MaxDepth + 1 /\ m <= MaxDepth /\ MaxDepth \in Nat
      /\ Len(s) = m
    BY LimitAssumption DEF Shape
<1>2. f \in FrameType /\ f.dir = d /\ f.todo = Walk!InDir(d) /\ f.total = 0 /\ f.depth = m
    BY <1>1 DEF Walk!Frame, Walk!InDir, FrameType
<1>3. /\ t \in Frames /\ Len(t) = m + 1 /\ t[m + 1] = f
      /\ \A i \in 1 .. m : t[i] = s[i]
    <2> HIDE DEF f
    <2> QED BY <1>1, <1>2 DEF Frames
<1> HIDE DEF f, t, m
<1>4. /\ m + 1 \in 1 .. MaxDepth + 1
      /\ \A i \in 1 .. m + 1 : i \in 1 .. m \/ i = m + 1
      /\ \A i \in 2 .. m + 1 : i \in 2 .. m \/ i = m + 1
      /\ \A i \in 2 .. m : i \in 1 .. m /\ i - 1 \in 1 .. m
      /\ \A i \in 1 .. m : 1 .. i - 1 \subseteq 1 .. m
      /\ 1 \in 1 .. m /\ m \in 1 .. m /\ 1 .. m + 1 = 1 .. m \cup {m + 1}
      /\ 2 .. m + 1 = 2 .. m \cup {m + 1}
    BY <1>1
<1>5. /\ Parent[d] = s[m].dir /\ d # s[m].dir /\ d \in Nodes /\ s[m].dir \in Nodes
    <2>1. s[m] \in FrameType
        BY <1>1, <1>4 DEF Frames
    <2> QED BY <2>1, <1>1, TreeAssumption DEF Walk!InDir, FrameType
<1>6. Walk!Above[d] = {s[j].dir : j \in 1 .. m} /\ Cardinality(Walk!Above[d]) = m
    BY AboveEntry DEF m
<1>7. Shape(t, h)
    <2>1. ASSUME NEW i \in 1 .. m + 1
          PROVE  /\ t[i].depth = i - 1
                 /\ Walk!Above[t[i].dir] = {t[j].dir : j \in 1 .. i - 1}
                 /\ Cardinality(Walk!Above[t[i].dir]) = i - 1
                 /\ t[i].todo \subseteq Walk!InDir(t[i].dir)
                 /\ t[i].todo # {} => t[i].dir \notin Unreadable
                 /\ t[i].dir \notin Foreign
        <3>1. CASE i \in 1 .. m
            <4>1. {t[j].dir : j \in 1 .. i - 1} = {s[j].dir : j \in 1 .. i - 1}
                <5>1. \A j \in 1 .. i - 1 : t[j] = s[j]
                    BY <1>3, <1>4, <3>1
                <5> QED BY <5>1
            <4>2. /\ s[i].depth = i - 1
                  /\ Walk!Above[s[i].dir] = {s[j].dir : j \in 1 .. i - 1}
                  /\ Cardinality(Walk!Above[s[i].dir]) = i - 1
                  /\ s[i].todo \subseteq Walk!InDir(s[i].dir)
                  /\ s[i].todo # {} => s[i].dir \notin Unreadable
                  /\ s[i].dir \notin Foreign
                BY <1>1, <3>1 DEF Shape
            <4> QED BY <1>3, <3>1, <4>1, <4>2
        <3>2. CASE i = m + 1
            <4>1. {t[j].dir : j \in 1 .. m} = {s[j].dir : j \in 1 .. m}
                BY <1>3
            <4>2. i - 1 = m
                BY <1>1, <3>2
            <4> QED BY <1>2, <1>3, <1>6, <3>2, <4>1, <4>2
        <3> QED BY <1>4, <3>1, <3>2
    <2>2. ASSUME NEW i \in 2 .. m + 1
          PROVE  /\ Parent[t[i].dir] = t[i - 1].dir /\ t[i].dir # t[i - 1].dir
                 /\ t[i].dir \notin t[i - 1].todo
                 /\ t[i - 1].dir \notin Unreadable
                 /\ t[i].dir \notin Unreadable
        <3>1. CASE i \in 2 .. m
            <4>1. /\ Parent[s[i].dir] = s[i - 1].dir /\ s[i].dir # s[i - 1].dir
                  /\ s[i].dir \notin s[i - 1].todo
                  /\ s[i - 1].dir \notin Unreadable
                  /\ s[i].dir \notin Unreadable
                BY <1>1, <3>1 DEF Shape
            <4>2. t[i] = s[i] /\ t[i - 1] = s[i - 1]
                BY <1>3, <1>4, <3>1
            <4> QED BY <4>1, <4>2
        <3>2. CASE i = m + 1
            <4>1. t[i] = f /\ t[i - 1] = s[m]
                BY <1>1, <1>3, <1>4, <3>2
            <4> QED BY <1>1, <1>2, <1>5, <4>1
        <3> QED BY <1>4, <3>1, <3>2
    <2>3. t[1] = s[1] /\ s[1].dir = h /\ Parent[h] = h /\ s[1].total = 0
        BY <1>3, <1>4 DEF Shape
    <2> QED BY <1>3, <1>4, <2>1, <2>2, <2>3 DEF Shape
<1>8. Pending(t) = Pending(s) \cup Walk!InDir(d)
    <2>1. /\ \A i \in 1 .. m : t[i].todo = s[i].todo
          /\ t[m + 1].todo = Walk!InDir(d) /\ Walk!InDir(d) \subseteq Nodes
        BY <1>2, <1>3 DEF Walk!InDir
    <2>2. \A n : (\E i \in 1 .. m + 1 : n \in t[i].todo) <=>
                  (\E i \in 1 .. m : n \in s[i].todo) \/ n \in Walk!InDir(d)
        <3> TAKE n
        <3>1. ASSUME NEW i \in 1 .. m + 1, n \in t[i].todo
              PROVE  (\E j \in 1 .. m : n \in s[j].todo) \/ n \in Walk!InDir(d)
            <4>1. CASE i \in 1 .. m
                BY <2>1, <3>1, <4>1
            <4>2. CASE i = m + 1
                BY <2>1, <3>1, <4>2
            <4> QED BY <1>4, <4>1, <4>2
        <3>2. ASSUME NEW i \in 1 .. m, n \in s[i].todo
              PROVE  \E j \in 1 .. m + 1 : n \in t[j].todo
            <4>1. i \in 1 .. m + 1 /\ n \in t[i].todo
                BY <1>4, <2>1, <3>2
            <4> QED BY <4>1
        <3>3. m + 1 \in 1 .. m + 1
            BY <1>1
        <3> QED BY <2>1, <3>1, <3>2, <3>3
    <2> QED BY <1>1, <1>3, <2>1, <2>2 DEF Pending
<1>9. Reading(t) = Reading(s) \cup {d}
    <2>1. {t[i].dir : i \in 2 .. m + 1} = {s[i].dir : i \in 2 .. m} \cup {d}
        BY <1>2, <1>3, <1>4
    <2> QED BY <1>1, <1>3, <2>1 DEF Reading
<1>10. HeldIn(t) = HeldIn(s)
    <2>1. DOMAIN s = 1 .. m /\ DOMAIN t = 1 .. m \cup {m + 1} /\ m + 1 \notin 1 .. m
        BY <1>1, <1>3, <1>4 DEF Frames
    <2>2. \A i \in 1 .. m : Totals(s)[i] \in Nat /\ Totals(t)[i] = Totals(s)[i]
        <3>1. \A i \in 1 .. m : s[i] \in FrameType
            BY <1>1 DEF Frames
        <3> QED BY <1>3, <2>1, <3>1 DEF Totals, FrameType
    <2>3. Totals(t)[m + 1] = 0
        BY <1>2, <1>3, <2>1 DEF Totals
    <2>4. IsFiniteSet(1 .. m)
        BY <1>1, FS_Interval
    <2>5. SumFunctionOnSet(Totals(t), 1 .. m) = SumFunctionOnSet(Totals(s), 1 .. m)
        BY <2>2, <2>4, SumSame
    <2>6. SumFunctionOnSet(Totals(s), 1 .. m) \in Nat
        BY <2>2, <2>4, SumIsNat
    <2>7. SumFunctionOnSet(Totals(t), 1 .. m \cup {m + 1})
            = SumFunctionOnSet(Totals(t), 1 .. m) + Totals(t)[m + 1]
        <3>1. \A i \in 1 .. m \cup {m + 1} : Totals(t)[i] \in Int
            BY <2>2, <2>3
        <3> QED BY <2>1, <2>4, <3>1, SumOfOneMore
    <2> QED BY <2>1, <2>3, <2>5, <2>6, <2>7 DEF HeldIn
<1> QED BY <1>7, <1>8, <1>9, <1>10 DEF t, f

\* And left.
LEMMA GoUp ==
    ASSUME NEW s, NEW h, Shape(s, h), Len(s) > 1, s[Len(s)].todo = {}
    PROVE  LET t == SubSeq(s, 1, Len(s) - 1)
               d == s[Len(s)].dir
           IN  /\ Shape(t, h)
               /\ Pending(t) = Pending(s)
               /\ Reading(s) = Reading(t) \cup {d} /\ d \notin Reading(t)
               /\ HeldIn(s) = HeldIn(t) + s[Len(s)].total
               /\ HeldIn(t) \in Nat /\ s[Len(s)].total \in Nat
<1> DEFINE t == SubSeq(s, 1, Len(s) - 1)
           m == Len(s) - 1
           d == s[m + 1].dir
<1>1. /\ s \in Frames /\ m \in Nat /\ m \in 1 .. MaxDepth /\ MaxDepth \in Nat /\ Len(s) = m + 1
    BY LimitAssumption DEF Shape
<1>2. t \in Frames /\ Len(t) = m /\ \A i \in 1 .. m : t[i] = s[i]
    BY <1>1 DEF Frames
<1> HIDE DEF t, m
<1>3. /\ m \in 1 .. MaxDepth + 1 /\ m + 1 \in 1 .. m + 1 /\ m + 1 \in 2 .. m + 1
      /\ \A i \in 1 .. m : i \in 1 .. m + 1 /\ 1 .. i - 1 \subseteq 1 .. m
      /\ \A i \in 2 .. m : i \in 1 .. m /\ i - 1 \in 1 .. m /\ i \in 2 .. m + 1
      /\ 1 .. m + 1 = 1 .. m \cup {m + 1} /\ 2 .. m + 1 = 2 .. m \cup {m + 1}
      /\ 1 \in 1 .. m /\ m + 1 \notin 1 .. m
    BY <1>1
<1>4. Shape(t, h)
    <2>1. ASSUME NEW i \in 1 .. m
          PROVE  /\ t[i].depth = i - 1
                 /\ Walk!Above[t[i].dir] = {t[j].dir : j \in 1 .. i - 1}
                 /\ Cardinality(Walk!Above[t[i].dir]) = i - 1
                 /\ t[i].todo \subseteq Walk!InDir(t[i].dir)
                 /\ t[i].todo # {} => t[i].dir \notin Unreadable
                 /\ t[i].dir \notin Foreign
        <3>1. {t[j].dir : j \in 1 .. i - 1} = {s[j].dir : j \in 1 .. i - 1}
            BY <1>2, <1>3
        <3>2. /\ s[i].depth = i - 1
              /\ Walk!Above[s[i].dir] = {s[j].dir : j \in 1 .. i - 1}
              /\ Cardinality(Walk!Above[s[i].dir]) = i - 1
              /\ s[i].todo \subseteq Walk!InDir(s[i].dir)
              /\ s[i].todo # {} => s[i].dir \notin Unreadable
              /\ s[i].dir \notin Foreign
            BY <1>1, <1>3 DEF Shape
        <3> QED BY <1>2, <3>1, <3>2
    <2>2. ASSUME NEW i \in 2 .. m
          PROVE  /\ Parent[t[i].dir] = t[i - 1].dir /\ t[i].dir # t[i - 1].dir
                 /\ t[i].dir \notin t[i - 1].todo
                 /\ t[i - 1].dir \notin Unreadable
                 /\ t[i].dir \notin Unreadable
        <3>1. /\ Parent[s[i].dir] = s[i - 1].dir /\ s[i].dir # s[i - 1].dir
              /\ s[i].dir \notin s[i - 1].todo
              /\ s[i - 1].dir \notin Unreadable
              /\ s[i].dir \notin Unreadable
            BY <1>1, <1>3 DEF Shape
        <3>2. t[i] = s[i] /\ t[i - 1] = s[i - 1]
            BY <1>2, <1>3
        <3> QED BY <3>1, <3>2
    <2>3. t[1] = s[1] /\ s[1].dir = h /\ Parent[h] = h /\ s[1].total = 0
        BY <1>2, <1>3 DEF Shape
    <2> QED BY <1>2, <1>3, <2>1, <2>2, <2>3 DEF Shape
<1>5. Pending(t) = Pending(s)
    <2>1. s[m + 1].todo = {}
        BY <1>1
    <2>2. \A n : (\E i \in 1 .. m + 1 : n \in s[i].todo) <=>
                  (\E i \in 1 .. m : n \in t[i].todo)
        BY <1>2, <1>3, <2>1
    <2> QED BY <1>1, <1>2, <2>2 DEF Pending
<1>6. Reading(s) = Reading(t) \cup {d}
    <2>1. {s[i].dir : i \in 2 .. m + 1} = {t[i].dir : i \in 2 .. m} \cup {d}
        BY <1>2, <1>3
    <2> QED BY <1>1, <1>2, <2>1 DEF Reading
<1>7. d \notin Reading(t)
    <2>1. \A i \in 2 .. m : i \in 1 .. m + 1 /\ i # m + 1
        BY <1>1
    <2>2. \A i \in 2 .. m : s[i].dir # d
        <3> HIDE DEF d
        <3> QED BY <1>1, <1>3, <2>1, OnStackOnce DEF d
    <2>3. \A i \in 2 .. m : t[i].dir # d
        BY <1>2, <1>3, <2>2
    <2> QED BY <1>2, <2>3 DEF Reading
<1>8. HeldIn(s) = HeldIn(t) + s[m + 1].total /\ HeldIn(t) \in Nat /\ s[m + 1].total \in Nat
    <2>1. DOMAIN t = 1 .. m /\ DOMAIN s = 1 .. m \cup {m + 1}
        BY <1>1, <1>2, <1>3 DEF Frames
    <2>2. \A i \in 1 .. m \cup {m + 1} : /\ Totals(s)[i] \in Nat /\ Totals(s)[i] \in Int
                                         /\ Totals(s)[i] = s[i].total
        <3>1. \A i \in 1 .. m + 1 : s[i] \in FrameType
            BY <1>1 DEF Frames
        <3>2. \A i \in 1 .. m + 1 : s[i].total \in Nat
            BY <3>1 DEF FrameType
        <3> QED BY <1>3, <2>1, <3>2 DEF Totals
    <2>3. \A i \in 1 .. m : Totals(t)[i] = Totals(s)[i]
        BY <1>2, <2>1 DEF Totals
    <2>4. IsFiniteSet(1 .. m)
        BY <1>1, FS_Interval
    <2>5. SumFunctionOnSet(Totals(t), 1 .. m) = SumFunctionOnSet(Totals(s), 1 .. m)
        BY <2>3, <2>4, SumSame
    <2>6. SumFunctionOnSet(Totals(s), 1 .. m) \in Nat
        BY <2>2, <2>4, SumIsNat
    <2>7. SumFunctionOnSet(Totals(s), 1 .. m \cup {m + 1})
            = SumFunctionOnSet(Totals(s), 1 .. m) + Totals(s)[m + 1]
        BY <1>3, <2>2, <2>4, SumOfOneMore
    <2>8. m + 1 \in 1 .. m \cup {m + 1}
        OBVIOUS
    <2> QED BY <2>1, <2>2, <2>5, <2>6, <2>7, <2>8 DEF HeldIn
<1> QED BY <1>1, <1>4, <1>5, <1>6, <1>7, <1>8 DEF t

\* What is found goes to the directory it was found in, or to the home.
LEMMA CountedOn ==
    ASSUME NEW s, NEW h, Shape(s, h), NEW b \in Nat
    PROVE  LET t == Walk!Counted(s, b)
           IN  /\ Shape(t, h) /\ Pending(t) = Pending(s) /\ Reading(t) = Reading(s)
               /\ Len(t) = Len(s)
               /\ HeldIn(s) \in Nat
               /\ HeldIn(t) = IF Len(s) = 1 THEN HeldIn(s) ELSE HeldIn(s) + b
<1> DEFINE t == Walk!Counted(s, b)
           m == Len(s)
<1>1. /\ s \in Frames /\ m \in Nat /\ m >= 1 /\ DOMAIN s = 1 .. m /\ m \in 1 .. m /\ IsFiniteSet(1 .. m)
    <2>1. s \in Frames /\ m \in 1 .. MaxDepth + 1
        BY DEF Shape
    <2> QED BY <2>1, LimitAssumption, FS_Interval DEF Frames
<1>2. \A i \in 1 .. m : s[i] \in FrameType
    BY <1>1 DEF Frames
<1>3. \A i \in 1 .. m : Totals(s)[i] = s[i].total /\ Totals(s)[i] \in Nat
    BY <1>1, <1>2 DEF Totals, FrameType
<1>4. HeldIn(s) \in Nat
    BY <1>1, <1>3, SumIsNat DEF HeldIn
<1>5. CASE m = 1
    BY <1>4, <1>5 DEF Walk!Counted
<1>6. CASE m # 1
    <2> DEFINE u == [s EXCEPT ![m].total = @ + b]
    <2>1. t = u
        BY <1>6 DEF Walk!Counted
    <2>2. s[m].total + b \in Nat
        BY <1>1, <1>2 DEF FrameType
    <2>3. /\ u \in Frames /\ Len(u) = m /\ DOMAIN u = 1 .. m
          /\ \A i \in 1 .. m \ {m} : u[i] = s[i]
          /\ u[m] = [s[m] EXCEPT !.total = @ + b]
        <3>1. [s[m] EXCEPT !.total = @ + b] \in FrameType
            BY <1>1, <1>2, <2>2 DEF FrameType
        <3> QED BY <1>1, <3>1 DEF Frames
    <2>4. /\ u[m].dir = s[m].dir /\ u[m].todo = s[m].todo /\ u[m].depth = s[m].depth
          /\ u[m].total = s[m].total + b
        BY <1>1, <1>2, <2>3 DEF FrameType
    <2> HIDE DEF u
    <2>5. \A i \in 1 .. m : /\ u[i].dir = s[i].dir /\ u[i].depth = s[i].depth
                            /\ u[i].todo = s[i].todo
        BY <2>3, <2>4
    <2>6. u[1].total = 0
        <3>1. 1 \in 1 .. m \ {m}
            BY <1>1, <1>6
        <3> QED BY <2>3, <3>1 DEF Shape
    <2>7. Shape(u, h) /\ Reading(u) = Reading(s)
        BY <2>3, <2>5, <2>6, SameWay
    <2>8. Pending(u) = Pending(s)
        BY <2>3, <2>5 DEF Pending
    <2>9. HeldIn(u) = HeldIn(s) + b
        <3> DEFINE rest == 1 .. m \ {m}
        <3>1. IsFiniteSet(rest)
            BY <1>1, FS_Subset
        <3>2. \A i \in 1 .. m : Totals(u)[i] = u[i].total
            BY <2>3 DEF Totals
        <3>3. \A i \in rest : Totals(u)[i] = Totals(s)[i]
            BY <1>3, <2>3, <3>2
        <3>4. Totals(u)[m] = Totals(s)[m] + b
            BY <1>1, <1>3, <2>4, <3>2
        <3>5. \A i \in 1 .. m : Totals(u)[i] \in Int
            BY <1>3, <3>3, <3>4
        <3>6. SumFunctionOnSet(Totals(u), rest) = SumFunctionOnSet(Totals(s), rest)
            BY <3>1, <3>3, SumSame
        <3>7. SumFunctionOnSet(Totals(s), rest) \in Nat
            BY <1>3, <3>1, SumIsNat
        <3>8. SumFunctionOnSet(Totals(u), 1 .. m) = Totals(u)[m] + SumFunctionOnSet(Totals(u), rest)
            BY <1>1, <3>5, SumTakeOut
        <3>9. SumFunctionOnSet(Totals(s), 1 .. m) = Totals(s)[m] + SumFunctionOnSet(Totals(s), rest)
            BY <1>1, <1>3, SumTakeOut
        <3>10. Totals(s)[m] \in Nat
            BY <1>1, <1>3
        <3> HIDE DEF rest
        <3> QED BY <1>1, <2>3, <3>4, <3>6, <3>7, <3>8, <3>9, <3>10 DEF HeldIn
    <2> QED BY <1>4, <1>6, <2>1, <2>3, <2>7, <2>8, <2>9
<1> QED BY <1>5, <1>6

\* Entries of the directory being read are passed.
LEMMA PassedOver ==
    ASSUME NEW s, NEW h, Shape(s, h), NEW T, T \in SUBSET s[Len(s)].todo
    PROVE  LET t == [s EXCEPT ![Len(s)].todo = T]
           IN  /\ Shape(t, h) /\ Reading(t) = Reading(s) /\ Len(t) = Len(s)
               /\ Pending(t) = Pending(s) \ (s[Len(s)].todo \ T)
               /\ t[Len(s)].dir = s[Len(s)].dir /\ t[Len(s)].todo = T
               /\ HeldIn(t) = HeldIn(s)
<1> DEFINE m == Len(s)
           t == [s EXCEPT ![m].todo = T]
<1>1. s \in Frames /\ m \in Nat /\ DOMAIN s = 1 .. m /\ m \in 1 .. m /\ IsFiniteSet(1 .. m)
    <2>1. s \in Frames /\ m \in 1 .. MaxDepth + 1
        BY DEF Shape
    <2> QED BY <2>1, LimitAssumption, FS_Interval DEF Frames
<1>2. \A i \in 1 .. m : s[i] \in FrameType
    BY <1>1 DEF Frames
<1>3. /\ t \in Frames /\ Len(t) = m /\ DOMAIN t = 1 .. m
      /\ \A i \in 1 .. m \ {m} : t[i] = s[i]
      /\ t[m] = [s[m] EXCEPT !.todo = T]
    <2>1. T \in SUBSET Nodes
        BY <1>1, <1>2 DEF FrameType
    <2>2. [s[m] EXCEPT !.todo = T] \in FrameType
        BY <1>1, <1>2, <2>1 DEF FrameType
    <2> QED BY <1>1, <2>2 DEF Frames
<1>4. /\ t[m].dir = s[m].dir /\ t[m].todo = T /\ t[m].depth = s[m].depth
      /\ t[m].total = s[m].total
    BY <1>1, <1>2, <1>3 DEF FrameType
<1> HIDE DEF t
<1>5. \A i \in 1 .. m : /\ t[i].dir = s[i].dir /\ t[i].depth = s[i].depth
                        /\ t[i].todo \subseteq s[i].todo /\ t[i].total = s[i].total
    BY <1>3, <1>4
<1>6. Shape(t, h) /\ Reading(t) = Reading(s)
    <2>1. t[1].total = 0
        <3>1. 1 \in 1 .. m /\ s[1].total = 0
            BY <1>1 DEF Shape
        <3> QED BY <1>5, <3>1
    <2> QED BY <1>3, <1>5, <2>1, SameWay
<1>7. Pending(t) = Pending(s) \ (s[m].todo \ T)
    <2>1. ASSUME NEW i \in 1 .. m, NEW n \in s[i].todo, n \in s[m].todo PROVE i = m
        BY <1>1, <2>1, OnStackOnce
    <2>2. \A n : (\E i \in 1 .. m : n \in t[i].todo) <=>
                 (\E i \in 1 .. m : n \in s[i].todo) /\ n \notin s[m].todo \ T
        <3> TAKE n
        <3>1. ASSUME NEW i \in 1 .. m, n \in t[i].todo
              PROVE  n \in s[i].todo /\ n \notin s[m].todo \ T
            BY <1>3, <1>4, <1>5, <2>1, <3>1
        <3>2. ASSUME NEW i \in 1 .. m, n \in s[i].todo, n \notin s[m].todo \ T
              PROVE  n \in t[i].todo
            BY <1>3, <1>4, <3>2
        <3> QED BY <3>1, <3>2
    <2> QED BY <1>3, <2>2 DEF Pending
<1>8. HeldIn(t) = HeldIn(s)
    <2>1. Totals(t) = Totals(s)
        BY <1>1, <1>3, <1>5 DEF Totals
    <2> QED BY <1>1, <1>3, <2>1 DEF HeldIn
<1> QED BY <1>3, <1>4, <1>6, <1>7, <1>8 DEF t

\* The stack a scan begins with.
LEMMA AtHome ==
    ASSUME NEW h \in Dirs, Parent[h] = h, NEW T \in SUBSET Walk!InDir(h),
           T # {} => h \notin Unreadable
    PROVE  LET s == <<[dir |-> h, todo |-> T, total |-> 0, depth |-> 0]>>
           IN  /\ Shape(s, h) /\ Pending(s) = T /\ Reading(s) = {} /\ HeldIn(s) = 0
<1> DEFINE f == [dir |-> h, todo |-> T, total |-> 0, depth |-> 0]
           s == <<f>>
<1>1. f \in FrameType
    BY DEF FrameType, Walk!InDir
<1>2. s \in Frames /\ Len(s) = 1 /\ s[1] = f /\ DOMAIN s = {1}
    BY <1>1 DEF Frames
<1>3. f.dir = h /\ f.todo = T /\ f.total = 0 /\ f.depth = 0
    OBVIOUS
<1> HIDE DEF s, f
<1>4. h \in Nodes /\ h \notin Foreign
    BY TreeAssumption
<1>5. Walk!Above[h] = {}
    BY <1>4, AboveIs
<1>6. Shape(s, h)
    <2>1. Len(s) \in 1 .. MaxDepth + 1
        BY <1>2, LimitAssumption
    <2>2. 1 .. Len(s) = {1} /\ 2 .. Len(s) = {} /\ 1 .. 1 - 1 = {}
        BY <1>2
    <2>3. Cardinality({}) = 0
        BY FS_EmptySet
    <2> QED BY <1>2, <1>3, <1>4, <1>5, <2>1, <2>2, <2>3 DEF Shape
<1>7. Pending(s) = T
    <2>1. 1 .. Len(s) = {1}
        BY <1>2
    <2> QED BY <1>2, <1>3, <2>1 DEF Pending, Walk!InDir
<1>8. Reading(s) = {}
    <2>1. 2 .. Len(s) = {}
        BY <1>2
    <2> QED BY <2>1 DEF Reading
<1>9. HeldIn(s) = 0
    <2>1. Totals(s)[1] = 0
        BY <1>2, <1>3 DEF Totals
    <2>2. IsFiniteSet({1}) /\ {1} \ {1} = {}
        BY FS_Singleton
    <2>3. \A i \in {1} : Totals(s)[i] \in Int
        BY <2>1
    <2>4. SumFunctionOnSet(Totals(s), {1}) = Totals(s)[1] + SumFunctionOnSet(Totals(s), {1} \ {1})
        BY <2>2, <2>3, SumTakeOut
    <2>5. SumFunctionOnSet(Totals(s), {}) = 0
        BY SumEmpty
    <2> QED BY <1>2, <2>1, <2>2, <2>4, <2>5 DEF HeldIn
<1> QED BY <1>6, <1>7, <1>8, <1>9 DEF s, f

-----------------------------------------------------------------------------
(* What is counted *)

\* The entries counted (G), those still to come (O), the directories being
\* read (R), over home h. Nothing counted is still to come, nor anything it is
\* below of.
Inodes(G) == {Inode[n] : n \in G}
BlocksOf(G) == SumFunctionOnSet(Space, Inodes(G))

Counted(G, O, R, h) ==
    /\ G \subseteq Walk!Due(h) /\ h \in G
    /\ \A g \in G : g \notin O /\ g \notin R /\ O \cap Walk!Above[g] = {}

\* Nothing is forgotten.
Whole(G, O, R, h) ==
    \A n \in Walk!Due(h) :
        Inode[n] \in Inodes(G) \/ n \in O \cup R \/ O \cap Walk!Above[n] # {}

\* What StorageScan takes from the libraries is what the lemmas are about.
LEMMA CountIsCount == ASSUME NEW S PROVE Walk!Cardinality(S) = Cardinality(S)
BY DEF Walk!Cardinality, Cardinality

LEMMA SumIsSum ==
    ASSUME NEW f, NEW S
    PROVE  Walk!SumFunctionOnSet(f, S) = SumFunctionOnSet(f, S)
BY Unfold, Zenon
   DEF Walk!SumFunctionOnSet, Walk!FoldFunctionOnSet, Walk!MapThenFoldSet, Sums, Step,
       Some, Less1

LEMMA DueIs ==
    ASSUME NEW h, NEW n
    PROVE  n \in Walk!Due(h) <=>
             /\ n \in Nodes /\ (n = h \/ h \in Walk!Above[n]) /\ n \notin Foreign
             /\ Walk!Above[n] \cap (Foreign \cup Unreadable) = {}
             /\ Cardinality(Walk!Above[n]) <= MaxDepth + 1
BY CountIsCount DEF Walk!Due

LEMMA BlocksOfFacts ==
    ASSUME NEW G \in SUBSET Nodes
    PROVE  /\ IsFiniteSet(Inodes(G)) /\ BlocksOf(G) \in Nat
           /\ \A i \in Inodes(G) : Space[i] \in Nat
<1>1. IsFiniteSet(G)
    BY TreeAssumption, FS_Subset
<1>2. IsFiniteSet(Inodes(G))
    <2>1. [n \in G |-> Inode[n]] \in Surjection(G, Inodes(G))
        BY DEF Surjection, Inodes
    <2> QED BY <1>1, <2>1, FS_Surjection
<1>3. \A i \in Inodes(G) : Space[i] \in Nat
    BY InodeAssumption DEF Inodes
<1> QED BY <1>2, <1>3, SumIsNat DEF BlocksOf

\* An inode not counted before adds its blocks.
LEMMA OneMoreCounted ==
    ASSUME NEW G \in SUBSET Nodes, NEW n \in Nodes, Inode[n] \notin Inodes(G)
    PROVE  /\ BlocksOf(G \cup {n}) = BlocksOf(G) + Space[Inode[n]]
           /\ Inodes(G \cup {n}) = Inodes(G) \cup {Inode[n]}
           /\ Space[Inode[n]] \in Nat
<1>1. Inodes(G \cup {n}) = Inodes(G) \cup {Inode[n]}
    BY DEF Inodes
<1>2. Space[Inode[n]] \in Nat
    BY InodeAssumption
<1>3. \A i \in Inodes(G) \cup {Inode[n]} : Space[i] \in Int
    BY <1>2, BlocksOfFacts
<1>4. SumFunctionOnSet(Space, Inodes(G) \cup {Inode[n]})
        = SumFunctionOnSet(Space, Inodes(G)) + Space[Inode[n]]
    BY <1>3, BlocksOfFacts, SumOfOneMore
<1> QED BY <1>1, <1>2, <1>4 DEF BlocksOf

\* A directory being read is due, and so is what is in it.
LEMMA DueOnTheWay ==
    ASSUME NEW s, NEW h, Shape(s, h)
    PROVE  /\ h \in Walk!Due(h) /\ h \in Nodes
           /\ \A i \in 1 .. Len(s) : s[i].dir \in Walk!Due(h)
           /\ s[Len(s)].dir \notin Unreadable =>
                \A n \in Walk!InDir(s[Len(s)].dir) : n \notin Foreign => n \in Walk!Due(h)
<1> DEFINE m == Len(s)
<1>1. /\ m \in Nat /\ m \in 1 .. m /\ 1 \in 1 .. m /\ s \in Frames /\ m <= MaxDepth + 1
      /\ MaxDepth \in Nat
    BY LimitAssumption DEF Shape
<1>2. \A i \in 1 .. m : s[i].dir \in Nodes /\ s[i].dir \notin Foreign
    <2>1. \A i \in 1 .. m : s[i] \in FrameType
        BY <1>1 DEF Frames
    <2> QED BY <2>1, TreeAssumption DEF FrameType, Shape
<1>3. \A i \in 1 .. m : i # m => s[i].dir \notin Unreadable
    <2> TAKE i \in 1 .. m
    <2>1. i # m => i + 1 \in 2 .. m /\ (i + 1) - 1 = i
        BY <1>1
    <2> QED BY <2>1 DEF Shape
<1>4. s[1].dir = h
    BY DEF Shape
<1>5. \A i \in 1 .. m : s[i].dir \in Walk!Due(h)
    <2> TAKE i \in 1 .. m
    <2>1. Walk!Above[s[i].dir] = {s[j].dir : j \in 1 .. i - 1}
          /\ Cardinality(Walk!Above[s[i].dir]) = i - 1
        BY DEF Shape
    <2>2. \A j \in 1 .. i - 1 : j \in 1 .. m /\ j # m
        BY <1>1
    <2>3. Walk!Above[s[i].dir] \cap (Foreign \cup Unreadable) = {}
        BY <1>2, <1>3, <2>1, <2>2
    <2>4. s[i].dir = h \/ h \in Walk!Above[s[i].dir]
        <3>1. i = 1 \/ 1 \in 1 .. i - 1
            BY <1>1
        <3> QED BY <1>4, <2>1, <3>1
    <2>5. i - 1 <= MaxDepth + 1
        BY <1>1
    <2> QED BY <1>2, <2>1, <2>3, <2>4, <2>5, DueIs
<1>6. ASSUME s[m].dir \notin Unreadable, NEW n \in Walk!InDir(s[m].dir), n \notin Foreign
      PROVE  n \in Walk!Due(h)
    <2>1. Walk!Above[n] = {s[j].dir : j \in 1 .. m} /\ Cardinality(Walk!Above[n]) = m
        BY AboveEntry
    <2>2. Walk!Above[n] \cap (Foreign \cup Unreadable) = {}
        BY <1>2, <1>3, <1>6, <2>1
    <2>3. h \in Walk!Above[n] /\ n \in Nodes
        BY <1>1, <1>4, <2>1 DEF Walk!InDir
    <2> QED BY <1>1, <1>6, <2>1, <2>2, <2>3, DueIs
<1> QED BY <1>1, <1>2, <1>4, <1>5, <1>6

\* A file, or a directory that is not read, is counted.
LEMMA EntryCounted ==
    ASSUME NEW s, NEW h, Shape(s, h), NEW n \in Walk!InDir(s[Len(s)].dir),
           s[Len(s)].dir \notin Unreadable, n \notin Foreign,
           n \notin Reading(s), n \notin Pending(s),
           NEW O, Pending(s) \subseteq O,
           NEW G, Counted(G, O, Reading(s), h)
    PROVE  Counted(G \cup {n}, Pending(s), Reading(s), h)
<1>1. n \in Walk!Due(h)
    BY DueOnTheWay
<1>2. Pending(s) \cap Walk!Above[n] = {}
    BY AboveEntry, OnStackOnce
<1>3. \A g \in G : g \notin Pending(s) /\ g \notin Reading(s) /\ Pending(s) \cap Walk!Above[g] = {}
    BY DEF Counted
<1>4. G \subseteq Walk!Due(h) /\ h \in G
    BY DEF Counted
<1> QED BY <1>1, <1>2, <1>3, <1>4 DEF Counted

-----------------------------------------------------------------------------
(* The invariant *)

Walking == at \in {"walk", "enter"}
StillToCome == Pending(stack) \cup (IF at = "enter" THEN {entering} ELSE {})

\* What a scan has come to is what the entries of G take.
Reached(G) ==
    /\ Counted(G, StillToCome, Reading(stack), home)
    /\ stop = "complete" /\ changed = {} => Whole(G, StillToCome, Reading(stack), home)
    /\ seen \subseteq Inodes(G)
    /\ \A g \in G \ Dirs : Walk!HardLink(g) => Inode[g] \in seen
    /\ DOMAIN children \subseteq G \ {home}
    /\ bytes + HeldIn(stack) = BlocksOf(G)

RowsMakeBytes ==
    /\ bytes \in Nat /\ loose \in Nat /\ \A c \in DOMAIN children : children[c] \in Nat
    /\ bytes = Space[Inode[home]] + loose + SumFunctionOnSet(children, DOMAIN children)

\* The directory about to be opened was in the one being read.
OnTheThreshold ==
    /\ entering \in Dirs /\ entering \notin Foreign
    /\ entering \in Walk!InDir(stack[Len(stack)].dir)
    /\ entering \notin stack[Len(stack)].todo
    /\ stack[Len(stack)].dir \notin Unreadable

Results == Seq([home : Nodes, bytes : Nat, complete : BOOLEAN])
Reported ==
    /\ at \in {"next", "walk", "enter", "done"} /\ home \in Nodes
    /\ todo \subseteq Walk!RealUsers /\ results \in Results
    /\ Len(results) + Cardinality(todo) + (IF Walking THEN 1 ELSE 0)
         = Cardinality(Walk!RealUsers)
    /\ at = "done" => todo = {}
    /\ Walk!ExactWhenComplete
    /\ Walk!RowsAddUp

WalkInv ==
    /\ Reported
    /\ Walking => /\ Shape(stack, home) /\ RowsMakeBytes
                  /\ \E G \in SUBSET Nodes : Reached(G)
    /\ at = "enter" => OnTheThreshold

\* While a walk goes on, what is reported stays as it is.
LEMMA NothingReported ==
    ASSUME Reported, Walking, Walking', UNCHANGED <<todo, home, results>>,
           changed' = {} => changed = {}
    PROVE  Reported'
<1>1. at' # "next" /\ at' # "done"
    BY DEF Walking
<1>2. Walk!ExactWhenComplete'
    BY DEF Reported, Walk!ExactWhenComplete, Walk!DiskUsage, Walk!Due
<1>3. Walk!RowsAddUp'
    BY <1>1 DEF Walk!RowsAddUp
<1> QED BY <1>1, <1>2, <1>3 DEF Reported, Walking

\* A directory d in the one on top of s, walked or not, is counted there.
LEMMA DirectoryEntered ==
    ASSUME NEW s, Shape(s, home), RowsMakeBytes, NEW d \in Dirs, NEW w \in Nat,
           Walk!Entered(d, s, w), home' = home, d \notin DOMAIN children,
           IsFiniteSet(DOMAIN children)
    PROVE  /\ Shape(stack', home) /\ Pending(stack') = Pending(s)
           /\ Reading(stack') = Reading(s) /\ Len(stack') = Len(s)
           /\ RowsMakeBytes'
           /\ DOMAIN children' \subseteq DOMAIN children \cup {d}
           /\ bytes' + HeldIn(stack') = bytes + HeldIn(s) + w + Space[Inode[d]]
<1> DEFINE sub == w + Space[Inode[d]]
<1>1. Space[Inode[d]] \in Nat /\ sub \in Nat
    <2>1. Space[Inode[d]] \in Nat
        BY TreeAssumption, InodeAssumption
    <2> QED BY <2>1
<1>2. stack' = Walk!Counted(s, sub) /\ loose' = loose
    BY DEF Walk!Entered
<1> HIDE DEF sub
<1>3. /\ Shape(stack', home) /\ Pending(stack') = Pending(s)
      /\ Reading(stack') = Reading(s) /\ Len(stack') = Len(s)
      /\ HeldIn(s) \in Nat
      /\ HeldIn(stack') = IF Len(s) = 1 THEN HeldIn(s) ELSE HeldIn(s) + sub
    BY <1>1, <1>2, CountedOn
<1>4. bytes \in Nat /\ loose \in Nat /\ \A c \in DOMAIN children : children[c] \in Nat
    BY DEF RowsMakeBytes
<1>5. CASE Len(s) = 1
    <2>1. /\ bytes' = bytes + sub
          /\ children' = [c \in DOMAIN children \cup {d} |-> IF c = d THEN sub ELSE children[c]]
        BY <1>5 DEF Walk!Entered, sub
    <2>2. /\ DOMAIN children' = DOMAIN children \cup {d}
          /\ children'[d] = sub /\ \A c \in DOMAIN children : children'[c] = children[c]
        BY <2>1
    <2>3. SumFunctionOnSet(children', DOMAIN children) = SumFunctionOnSet(children, DOMAIN children)
        BY <2>2, SumSame
    <2>4. SumFunctionOnSet(children, DOMAIN children) \in Nat
        BY <1>4, SumIsNat
    <2>5. SumFunctionOnSet(children', DOMAIN children \cup {d})
            = SumFunctionOnSet(children', DOMAIN children) + children'[d]
        <3>1. \A c \in DOMAIN children \cup {d} : children'[c] \in Int
            BY <1>1, <1>4, <2>2
        <3> QED BY <3>1, SumOfOneMore
    <2>6. Space[Inode[home]] \in Nat
        <3>1. home \in Nodes
            <4>1. s \in Frames /\ 1 \in 1 .. Len(s) /\ s[1].dir = home
                BY LimitAssumption DEF Shape
            <4>2. s[1] \in FrameType
                BY <4>1 DEF Frames
            <4> QED BY <4>1, <4>2, TreeAssumption DEF FrameType
        <3> QED BY <3>1, InodeAssumption
    <2>7. bytes' \in Nat /\ \A c \in DOMAIN children' : children'[c] \in Nat
        BY <1>1, <1>4, <2>1, <2>2
    <2>8. bytes' = Space[Inode[home]] + loose + SumFunctionOnSet(children', DOMAIN children')
        BY <1>1, <1>4, <2>1, <2>2, <2>3, <2>4, <2>5, <2>6 DEF RowsMakeBytes
    <2>9. RowsMakeBytes'
        BY <1>2, <1>4, <2>7, <2>8 DEF RowsMakeBytes
    <2>10. bytes' + HeldIn(stack') = bytes + HeldIn(s) + sub
        BY <1>1, <1>3, <1>4, <1>5, <2>1
    <2>11. bytes + HeldIn(s) + sub = bytes + HeldIn(s) + w + Space[Inode[d]]
        BY <1>1, <1>3, <1>4 DEF sub
    <2> QED BY <1>3, <2>2, <2>9, <2>10, <2>11
<1>6. CASE Len(s) # 1
    <2>1. bytes' = bytes /\ children' = children
        BY <1>6 DEF Walk!Entered
    <2>2. RowsMakeBytes'
        BY <1>2, <2>1 DEF RowsMakeBytes
    <2>3. bytes' + HeldIn(stack') = bytes + HeldIn(s) + sub
        BY <1>1, <1>3, <1>4, <1>6, <2>1
    <2>4. bytes + HeldIn(s) + sub = bytes + HeldIn(s) + w + Space[Inode[d]]
        BY <1>1, <1>3, <1>4 DEF sub
    <2> QED BY <1>3, <2>1, <2>2, <2>3, <2>4
<1> QED BY <1>5, <1>6

-----------------------------------------------------------------------------
(* Every step keeps it *)

\* One turn of the loop: an entry moves from those to come to those counted,
\* is left out as a mount point or a second name, or is about to be entered.
LEMMA VisitKeeps ==
    ASSUME WalkInv, NEW n \in Nodes, Walk!Visit(n)
    PROVE  WalkInv'
<1> DEFINE m == Len(stack)
           T == stack[m].todo \ {n}
           s == [stack EXCEPT ![m].todo = T]
           b == IF Walk!Skipped(n) THEN 0 ELSE Space[Inode[n]]
<1>1. /\ at = "walk" /\ n \in stack[m].todo
      /\ UNCHANGED <<todo, home, stop, children, scanLate, cancelled, changed, results>>
    BY DEF Walk!Visit, Walk!Top, Walk!outside
<1>2. Reported /\ Shape(stack, home) /\ RowsMakeBytes /\ Walking
    BY <1>1 DEF WalkInv, Walking
<1>3. PICK G \in SUBSET Nodes : Reached(G)
    BY <1>1, <1>2 DEF WalkInv
<1>4. /\ m \in Nat /\ m \in 1 .. m /\ stack \in Frames /\ stack[m] \in FrameType
    <2>1. m \in Nat /\ m \in 1 .. m /\ stack \in Frames
        BY <1>2, LimitAssumption DEF Shape
    <2> QED BY <2>1 DEF Frames
<1>5. /\ Shape(s, home) /\ Reading(s) = Reading(stack) /\ Len(s) = m
      /\ Pending(s) = Pending(stack) \ {n}
      /\ s[m].dir = stack[m].dir /\ s[m].todo = T
      /\ HeldIn(s) = HeldIn(stack)
    <2>1. T \in SUBSET stack[m].todo /\ stack[m].todo \ T = {n}
        BY <1>1
    <2> DEFINE t == [stack EXCEPT ![Len(stack)].todo = T]
    <2> HIDE DEF T
    <2>2. /\ Shape(t, home) /\ Reading(t) = Reading(stack) /\ Len(t) = Len(stack)
          /\ Pending(t) = Pending(stack) \ (stack[Len(stack)].todo \ T)
          /\ t[Len(stack)].dir = stack[Len(stack)].dir /\ t[Len(stack)].todo = T
          /\ HeldIn(t) = HeldIn(stack)
        BY <1>2, <2>1, PassedOver
    <2>3. s = t /\ m = Len(stack)
        OBVIOUS
    <2> HIDE DEF s, t, m
    <2> QED BY <2>1, <2>2, <2>3
<1>6. /\ n \in Walk!InDir(stack[m].dir) /\ stack[m].dir \notin Unreadable
      /\ n \in Pending(stack)
    BY <1>1, <1>2, <1>4 DEF Shape, Pending
<1>7. StillToCome = Pending(stack)
    BY <1>1 DEF StillToCome
<1>8. n \notin G /\ bytes + HeldIn(stack) = BlocksOf(G) /\ HeldIn(stack) \in Nat
      /\ bytes \in Nat /\ loose \in Nat
    <2>1. HeldIn(stack) \in Nat
        BY <1>2, CountedOn
    <2> QED BY <1>2, <1>3, <1>6, <1>7, <2>1 DEF Reached, Counted, RowsMakeBytes
<1> HIDE DEF s, T, b
<1>9. ASSUME at' \in {"walk", "enter"} PROVE Reported'
    BY <1>1, <1>2, <1>9, NothingReported DEF Walking
<1>10. CASE n \in changed
    <2>1. stack' = s /\ UNCHANGED <<at, entering, entries, seen, bytes, loose>>
        BY <1>10 DEF Walk!Visit, s, T, m
    <2>2. StillToCome' = Pending(s) /\ Reading(stack') = Reading(stack)
        BY <1>1, <1>5, <2>1 DEF StillToCome
    <2>3. Reached(G)'
        BY <1>1, <1>3, <1>5, <1>7, <1>10, <2>1, <2>2 DEF Reached, Counted
    <2>4. RowsMakeBytes'
        BY <1>1, <1>2, <2>1 DEF RowsMakeBytes
    <2>5. Shape(stack', home')
        BY <1>1, <1>5, <2>1
    <2> QED BY <1>1, <1>9, <2>1, <2>3, <2>4, <2>5 DEF WalkInv
<1>11. CASE n \notin changed /\ n \in Dirs /\ ~Walk!Skipped(n)
    <2>1. /\ stack' = s /\ at' = "enter" /\ entering' = n /\ UNCHANGED <<seen, bytes, loose>>
        BY <1>11 DEF Walk!Visit, s, T, m
    <2>2. StillToCome' = Pending(stack)
        BY <1>5, <1>6, <2>1 DEF StillToCome
    <2>3. Reached(G)'
        BY <1>1, <1>3, <1>5, <1>7, <2>1, <2>2 DEF Reached
    <2>4. RowsMakeBytes'
        BY <1>1, <1>2, <2>1 DEF RowsMakeBytes
    <2>5. Shape(stack', home')
        BY <1>1, <1>5, <2>1
    <2>6. OnTheThreshold'
        BY <1>5, <1>6, <1>11, <2>1 DEF OnTheThreshold, Walk!Skipped, T
    <2> QED BY <1>9, <2>1, <2>3, <2>4, <2>5, <2>6 DEF WalkInv
<1>12. CASE n \notin changed /\ (n \notin Dirs \/ Walk!Skipped(n))
    <2>1. /\ stack' = Walk!Counted(s, b)
          /\ seen' = IF Walk!HardLink(n) THEN seen \cup {Inode[n]} ELSE seen
          /\ bytes' = IF m = 1 THEN bytes + b ELSE bytes
          /\ loose' = IF m = 1 THEN loose + b ELSE loose
          /\ at' = "walk" /\ UNCHANGED <<at, entering>>
        BY <1>1, <1>12 DEF Walk!Visit, s, T, m, b
    <2>2. b \in Nat
        BY InodeAssumption DEF b
    <2>3. /\ Shape(stack', home) /\ Pending(stack') = Pending(stack) \ {n}
          /\ Reading(stack') = Reading(stack)
          /\ HeldIn(stack') = IF m = 1 THEN HeldIn(stack) ELSE HeldIn(stack) + b
        BY <1>5, <2>1, <2>2, CountedOn
    <2>4. bytes' + HeldIn(stack') = bytes + HeldIn(stack) + b
        BY <1>8, <2>1, <2>2, <2>3
    <2>5. RowsMakeBytes'
        <3>1. SumFunctionOnSet(children, DOMAIN children) \in Nat
            <4>1. IsFiniteSet(DOMAIN children)
                BY <1>3, TreeAssumption, FS_Subset DEF Reached
            <4> QED BY <1>2, <4>1, SumIsNat DEF RowsMakeBytes
        <3>2. Space[Inode[home]] \in Nat
            BY <1>2, InodeAssumption DEF Reported
        <3> QED BY <1>1, <1>2, <2>1, <2>2, <3>1, <3>2 DEF RowsMakeBytes
    <2>6. StillToCome' = Pending(stack) \ {n}
        BY <2>1, <2>3 DEF StillToCome
    <2>7. \E G2 \in SUBSET Nodes : Reached(G2)'
        <3>1. CASE Walk!Skipped(n)
            <4>1. b = 0
                BY <3>1 DEF b
            <4>2. n \in Dirs => ~Walk!HardLink(n)
                BY InodeAssumption DEF Walk!HardLink
            <4>3. n \in Foreign \/ Inode[n] \in seen
                BY <3>1 DEF Walk!Skipped, Walk!Twice
            <4>4. n \in Foreign => n \in Dirs
                BY TreeAssumption
            <4>5. seen' = seen
                BY <2>1, <4>2, <4>3, <4>4
            <4>6. bytes' + HeldIn(stack') = BlocksOf(G)
                BY <1>8, <2>2, <2>4, <4>1
            <4>7. Counted(G, StillToCome', Reading(stack'), home)
                BY <1>3, <1>7, <2>3, <2>6 DEF Reached, Counted
            <4>8. ASSUME Whole(G, StillToCome, Reading(stack), home)
                  PROVE  Whole(G, StillToCome', Reading(stack'), home)
                <5> SUFFICES ASSUME NEW k \in Walk!Due(home)
                             PROVE  \/ Inode[k] \in Inodes(G) \/ k \in StillToCome' \cup Reading(stack')
                                    \/ StillToCome' \cap Walk!Above[k] # {}
                    BY Zenon DEF Whole
                <5>1. \/ Inode[k] \in Inodes(G) \/ k \in Pending(stack) \cup Reading(stack)
                      \/ Pending(stack) \cap Walk!Above[k] # {}
                    BY <1>7, <4>8 DEF Whole
                <5>2. k = n => Inode[k] \in Inodes(G)
                    BY <1>3, <4>3, DueIs DEF Reached
                <5>3. n \notin Walk!Above[k]
                    <6>1. k \in Nodes /\ Walk!Above[k] \cap Foreign = {}
                        BY DueIs
                    <6>2. n \notin Foreign => n \notin Dirs
                        BY <3>1 DEF Walk!Skipped, Walk!Twice
                    <6> QED BY <6>1, <6>2, AboveFacts
                <5> QED BY <2>3, <2>6, <5>1, <5>2, <5>3
            <4> QED BY <1>1, <1>3, <4>5, <4>6, <4>7, <4>8 DEF Reached
        <3>2. CASE ~Walk!Skipped(n)
            <4> DEFINE G2 == G \cup {n}
            <4>1. n \notin Dirs /\ n \notin Foreign /\ ~Walk!Twice(n) /\ b = Space[Inode[n]]
                BY <1>12, <3>2 DEF Walk!Skipped, b
            <4>2. Inode[n] \notin Inodes(G)
                <5> SUFFICES ASSUME NEW g \in G, Inode[g] = Inode[n] PROVE FALSE
                    BY DEF Inodes
                <5>1. g \in Nodes /\ g # n /\ g \notin Dirs
                    BY <1>8, <4>1, InodeAssumption
                <5>2. Walk!HardLink(g) /\ Walk!HardLink(n)
                    BY <5>1 DEF Walk!HardLink
                <5>3. Inode[n] \in seen
                    BY <1>3, <5>1, <5>2 DEF Reached
                <5> QED BY <4>1, <5>2, <5>3 DEF Walk!Twice
            <4>3. /\ BlocksOf(G2) = BlocksOf(G) + b /\ Inodes(G2) = Inodes(G) \cup {Inode[n]}
                BY <4>1, <4>2, OneMoreCounted
            <4>4. Counted(G2, StillToCome', Reading(stack'), home)
                <5>1. n \notin Reading(s)
                    <6>1. \A i \in 2 .. m : s[i].dir \in Dirs
                        <7>1. s \in Frames /\ \A i \in 2 .. m : i \in 1 .. m
                            BY <1>4, <1>5 DEF Shape
                        <7>2. \A i \in 1 .. m : s[i] \in FrameType
                            BY <1>5, <7>1 DEF Frames
                        <7> QED BY <7>1, <7>2 DEF FrameType
                    <6> QED BY <1>5, <4>1, <6>1 DEF Reading
                <5>2. /\ n \in Walk!InDir(s[Len(s)].dir) /\ s[Len(s)].dir \notin Unreadable
                      /\ n \notin Pending(s) /\ Pending(s) \subseteq StillToCome
                    BY <1>5, <1>6, <1>7
                <5>3. Counted(G, StillToCome, Reading(s), home)
                    BY <1>3, <1>5 DEF Reached
                <5>4. Counted(G \cup {n}, Pending(s), Reading(s), home)
                    BY <1>5, <4>1, <5>1, <5>2, <5>3, EntryCounted
                <5> QED BY <1>5, <2>3, <2>6, <5>4
            <4>5. ASSUME Whole(G, StillToCome, Reading(stack), home)
                  PROVE  Whole(G2, StillToCome', Reading(stack'), home)
                <5> SUFFICES ASSUME NEW k \in Walk!Due(home)
                             PROVE  \/ Inode[k] \in Inodes(G2) \/ k \in StillToCome' \cup Reading(stack')
                                    \/ StillToCome' \cap Walk!Above[k] # {}
                    BY Zenon DEF Whole
                <5>1. \/ Inode[k] \in Inodes(G) \/ k \in Pending(stack) \cup Reading(stack)
                      \/ Pending(stack) \cap Walk!Above[k] # {}
                    BY <1>7, <4>5 DEF Whole
                <5>2. n \notin Walk!Above[k]
                    <6>1. k \in Nodes
                        BY DueIs
                    <6> QED BY <4>1, <6>1, AboveFacts
                <5> HIDE DEF G2
                <5> QED BY <2>3, <2>6, <4>3, <5>1, <5>2
            <4>6. seen' \subseteq Inodes(G2) /\ \A g \in G2 \ Dirs : Walk!HardLink(g) => Inode[g] \in seen'
                BY <1>3, <2>1, <4>3 DEF Reached
            <4>7. DOMAIN children' \subseteq G2 \ {home}
                BY <1>1, <1>3 DEF Reached
            <4>8. bytes' + HeldIn(stack') = BlocksOf(G2)
                BY <1>8, <2>4, <4>3
            <4>9. G2 \in SUBSET Nodes
                OBVIOUS
            <4> HIDE DEF G2
            <4>10. Reached(G2)'
                BY <1>1, <1>3, <4>4, <4>5, <4>6, <4>7, <4>8 DEF Reached
            <4> QED BY <4>9, <4>10
        <3> QED BY <3>1, <3>2
    <2> QED BY <1>1, <1>9, <2>1, <2>3, <2>5, <2>7 DEF WalkInv
<1> QED BY <1>10, <1>11, <1>12

\* Out of budget: what is left is not counted, and the result not complete.
LEMMA BreaksKeeps ==
    ASSUME WalkInv, Walk!Breaks
    PROVE  WalkInv'
<1> DEFINE m == Len(stack)
<1>1. /\ at = "walk" /\ at' = "walk" /\ stop' = Walk!Budget /\ Walk!Budget # "complete"
      /\ stack' = [stack EXCEPT ![m].todo = {}]
      /\ UNCHANGED <<todo, home, entering, seen, bytes, loose, children, changed, results>>
    BY DEF Walk!Breaks, Walk!NoteBudget, Walk!Exhausted, Walk!sums, Walk!outside
<1>2. Reported /\ Shape(stack, home) /\ RowsMakeBytes /\ Walking
    BY <1>1 DEF WalkInv, Walking
<1>3. PICK G \in SUBSET Nodes : Reached(G)
    BY <1>1, <1>2 DEF WalkInv
<1>4. /\ Shape(stack', home) /\ Reading(stack') = Reading(stack)
      /\ Pending(stack') \subseteq Pending(stack) /\ HeldIn(stack') = HeldIn(stack)
    <2>1. {} \in SUBSET stack[Len(stack)].todo
        OBVIOUS
    <2> DEFINE t == [stack EXCEPT ![Len(stack)].todo = {}]
    <2>2. /\ Shape(t, home) /\ Reading(t) = Reading(stack)
          /\ Pending(t) = Pending(stack) \ (stack[Len(stack)].todo \ {})
          /\ HeldIn(t) = HeldIn(stack)
        BY <1>2, <2>1, PassedOver
    <2>3. stack' = t
        BY <1>1
    <2> HIDE DEF t
    <2> QED BY <2>2, <2>3
<1>5. StillToCome' \subseteq StillToCome
    BY <1>1, <1>4 DEF StillToCome
<1>6. Reached(G)'
    BY <1>1, <1>3, <1>4, <1>5 DEF Reached, Counted
<1>7. RowsMakeBytes'
    BY <1>1, <1>2 DEF RowsMakeBytes
<1>8. Reported'
    BY <1>1, <1>2, NothingReported DEF Walking
<1> QED BY <1>1, <1>4, <1>6, <1>7, <1>8 DEF WalkInv

\* What the counted entries of a directory that is done, d, come to.
LEMMA DirectoryCounted ==
    ASSUME NEW G \in SUBSET Nodes, Reached(G), NEW d \in Dirs, d \notin G,
           NEW w \in Nat, bytes \in Nat, HeldIn(stack) \in Nat,
           bytes' + HeldIn(stack') = bytes + HeldIn(stack) + Space[Inode[d]],
           DOMAIN children' \subseteq DOMAIN children \cup {d}, d # home,
           UNCHANGED <<home, seen>>,
           Counted(G \cup {d}, StillToCome', Reading(stack'), home),
           stop' = "complete" /\ changed' = {} =>
               Whole(G \cup {d}, StillToCome', Reading(stack'), home)
    PROVE  \E G2 \in SUBSET Nodes : Reached(G2)'
<1> DEFINE G2 == G \cup {d}
<1>1. d \in Nodes /\ Inode[d] \notin Inodes(G)
    <2>1. d \in Nodes
        BY TreeAssumption
    <2> QED BY <2>1, InodeAssumption DEF Inodes
<1>2. /\ BlocksOf(G2) = BlocksOf(G) + Space[Inode[d]] /\ Inodes(G2) = Inodes(G) \cup {Inode[d]}
    BY <1>1, OneMoreCounted
<1>3. bytes' + HeldIn(stack') = BlocksOf(G2)
    <2>1. bytes + HeldIn(stack) = BlocksOf(G)
        BY DEF Reached
    <2> HIDE DEF G2
    <2> QED BY <1>2, <2>1
<1>4. seen' \subseteq Inodes(G2) /\ \A g \in G2 \ Dirs : Walk!HardLink(g) => Inode[g] \in seen'
    BY <1>2 DEF Reached
<1>5. DOMAIN children' \subseteq G2 \ {home'}
    BY DEF Reached
<1>6. Counted(G2, StillToCome', Reading(stack'), home')
      /\ (stop' = "complete" /\ changed' = {} => Whole(G2, StillToCome', Reading(stack'), home'))
    OBVIOUS
<1>7. G2 \in SUBSET Nodes
    BY <1>1
<1> HIDE DEF G2
<1>8. Reached(G2)'
    BY <1>3, <1>4, <1>5, <1>6 DEF Reached
<1> QED BY <1>7, <1>8

\* What a directory came to goes to the one above.
LEMMA LeaveKeeps ==
    ASSUME WalkInv, Walk!Leave
    PROVE  WalkInv'
<1> DEFINE m == Len(stack)
           s == SubSeq(stack, 1, Len(stack) - 1)
           w == stack[Len(stack)].total
<1>1. /\ at = "walk" /\ Len(stack) > 1 /\ stack[Len(stack)].todo = {}
      /\ Walk!Entered(stack[Len(stack)].dir, s, w)
      /\ UNCHANGED <<todo, at, home, entering, stop, seen, changed, results>>
    BY DEF Walk!Leave, Walk!Top, Walk!Pop, Walk!walker, Walk!outside
<1>2. Reported /\ Shape(stack, home) /\ RowsMakeBytes /\ Walking
    BY <1>1 DEF WalkInv, Walking
<1>3. PICK G \in SUBSET Nodes : Reached(G)
    BY <1>1, <1>2 DEF WalkInv
<1>4. PICK d : d = stack[Len(stack)].dir
    OBVIOUS
<1>5. /\ m \in Nat /\ m \in 2 .. m /\ m \in 1 .. m /\ stack \in Frames /\ d \in Dirs /\ d \in Nodes
    <2>1. m \in Nat /\ m \in 2 .. m /\ m \in 1 .. m /\ stack \in Frames
        BY <1>1, <1>2, LimitAssumption DEF Shape
    <2>2. stack[m] \in FrameType
        BY <2>1 DEF Frames
    <2> QED BY <1>4, <2>1, <2>2, TreeAssumption DEF FrameType
<1>6. /\ Shape(s, home) /\ Pending(s) = Pending(stack)
      /\ Reading(stack) = Reading(s) \cup {d} /\ d \notin Reading(s)
      /\ HeldIn(stack) = HeldIn(s) + w
      /\ HeldIn(s) \in Nat /\ w \in Nat
    BY <1>1, <1>2, <1>4, GoUp
<1> HIDE DEF s, w
<1>7. /\ d \notin G /\ d \notin DOMAIN children /\ d # home /\ IsFiniteSet(DOMAIN children)
    <2>1. d \in Reading(stack)
        BY <1>6
    <2>2. d \notin G
        BY <1>3, <2>1 DEF Reached, Counted
    <2>3. DOMAIN children \subseteq G /\ home \in G
        BY <1>3 DEF Reached, Counted
    <2>4. IsFiniteSet(DOMAIN children)
        BY <2>3, TreeAssumption, FS_Subset
    <2> QED BY <2>2, <2>3, <2>4
<1>8. /\ Shape(stack', home) /\ Pending(stack') = Pending(stack)
      /\ Reading(stack') = Reading(s)
      /\ RowsMakeBytes'
      /\ DOMAIN children' \subseteq DOMAIN children \cup {d}
      /\ bytes' + HeldIn(stack') = bytes + HeldIn(s) + w + Space[Inode[d]]
    BY <1>1, <1>2, <1>4, <1>5, <1>6, <1>7, DirectoryEntered
<1>9. StillToCome = Pending(stack) /\ StillToCome' = Pending(stack)
    BY <1>1, <1>8 DEF StillToCome
<1>10. Counted(G \cup {d}, StillToCome', Reading(stack'), home)
    <2>1. d \in Walk!Due(home)
        BY <1>2, <1>4, <1>5, DueOnTheWay
    <2>2. d \notin Pending(stack)
        BY <1>2, <1>4, <1>5, OnStackOnce
    <2>3. Pending(stack) \cap Walk!Above[d] = {}
        <3>1. Walk!Above[d] = {stack[j].dir : j \in 1 .. m - 1}
            BY <1>2, <1>4, <1>5 DEF Shape
        <3>2. \A j \in 1 .. m - 1 : j \in 1 .. m
            BY <1>5
        <3> QED BY <1>2, <3>1, <3>2, OnStackOnce
    <2>4. \A g \in G : g \notin Pending(stack) /\ g \notin Reading(stack)
                       /\ Pending(stack) \cap Walk!Above[g] = {}
        BY <1>3, <1>9 DEF Reached, Counted
    <2>5. G \subseteq Walk!Due(home) /\ home \in G
        BY <1>3 DEF Reached, Counted
    <2> QED BY <1>6, <1>8, <1>9, <2>1, <2>2, <2>3, <2>4, <2>5 DEF Counted
<1>11. ASSUME stop' = "complete", changed' = {}
       PROVE  Whole(G \cup {d}, StillToCome', Reading(stack'), home)
    <2>1. Whole(G, StillToCome, Reading(stack), home)
        BY <1>1, <1>3, <1>11 DEF Reached
    <2>2. Inodes(G \cup {d}) = Inodes(G) \cup {Inode[d]}
        BY DEF Inodes
    <2> QED BY <1>6, <1>8, <1>9, <2>1, <2>2 DEF Whole
<1>12. bytes \in Nat /\ HeldIn(stack) \in Nat /\ Space[Inode[d]] \in Nat
    BY <1>2, <1>5, <1>6, CountedOn, InodeAssumption DEF RowsMakeBytes
<1>13. bytes' + HeldIn(stack') = bytes + HeldIn(stack) + Space[Inode[d]]
    BY <1>6, <1>8, <1>12
<1>14. \E G2 \in SUBSET Nodes : Reached(G2)'
    BY <1>1, <1>3, <1>5, <1>7, <1>8, <1>10, <1>11, <1>12, <1>13, DirectoryCounted
<1>15. Reported'
    BY <1>1, <1>2, NothingReported DEF Walking
<1> QED BY <1>1, <1>8, <1>14, <1>15 DEF WalkInv

\* A directory is opened, or counted without what is in it.
LEMMA EnterKeeps ==
    ASSUME WalkInv, Walk!Enter
    PROVE  WalkInv'
<1> DEFINE m == Len(stack)
           depth == stack[Len(stack)].depth + 1
<1>1. /\ at = "enter" /\ at' = "walk"
      /\ UNCHANGED <<todo, home, entering, seen, changed, results>>
    BY DEF Walk!Enter, Walk!outside
<1>2. Reported /\ Shape(stack, home) /\ RowsMakeBytes /\ Walking /\ OnTheThreshold
    BY <1>1 DEF WalkInv, Walking
<1>3. PICK G \in SUBSET Nodes : Reached(G)
    BY <1>1, <1>2 DEF WalkInv
<1>4. PICK d : d = entering
    OBVIOUS
<1>5. /\ m \in Nat /\ m \in 1 .. m /\ stack \in Frames /\ depth = m
      /\ MaxDepth \in Nat /\ m <= MaxDepth + 1
    BY <1>2, LimitAssumption DEF Shape
<1>6. /\ d \in Dirs /\ d \in Nodes /\ d \notin Foreign
      /\ d \in Walk!InDir(stack[m].dir) /\ d \notin stack[m].todo
      /\ stack[m].dir \notin Unreadable
    BY <1>2, <1>4, TreeAssumption DEF OnTheThreshold
<1>7. Walk!Above[d] = {stack[j].dir : j \in 1 .. m} /\ Cardinality(Walk!Above[d]) = m
    BY <1>2, <1>6, AboveEntry
<1>8. d \notin Pending(stack) /\ d \notin Reading(stack)
    <2>1. d \notin Walk!Above[d]
        BY <1>6, AboveFacts
    <2>2. \A i \in 2 .. m : i \in 1 .. m
        BY <1>5
    <2>3. d \notin Reading(stack)
        BY <1>7, <2>1, <2>2 DEF Reading
    <2>4. ASSUME NEW i \in 1 .. m, d \in stack[i].todo PROVE FALSE
        <3>1. Parent[d] = stack[m].dir /\ Parent[d] = stack[i].dir
            BY <1>2, <1>6, <2>4 DEF Shape, Walk!InDir
        <3>2. i = m
            BY <1>2, <1>5, <3>1, OnStackOnce
        <3> QED BY <1>6, <2>4, <3>2
    <2> QED BY <2>3, <2>4 DEF Pending
<1>9. StillToCome = Pending(stack) \cup {d} /\ StillToCome' = Pending(stack')
    BY <1>1, <1>4 DEF StillToCome
<1>10. /\ G \subseteq Walk!Due(home) /\ home \in G /\ d \notin G
       /\ \A g \in G : /\ g \notin Pending(stack) /\ g \notin Reading(stack)
                       /\ Pending(stack) \cap Walk!Above[g] = {} /\ d \notin Walk!Above[g]
    BY <1>3, <1>9 DEF Reached, Counted
<1>11. bytes \in Nat /\ HeldIn(stack) \in Nat /\ Space[Inode[d]] \in Nat
       /\ bytes + HeldIn(stack) = BlocksOf(G)
    BY <1>2, <1>3, <1>6, CountedOn, InodeAssumption DEF RowsMakeBytes, Reached
<1>12. Reported'
    BY <1>1, <1>2, NothingReported DEF Walking
<1>13. CASE depth > MaxDepth \/ Walk!Exhausted \/ d \in changed \/ d \in Unreadable
    <2>1. /\ Walk!Entered(d, stack, 0)
          /\ stop' = IF depth <= MaxDepth /\ Walk!Exhausted THEN Walk!Budget ELSE stop
        BY <1>4, <1>13 DEF Walk!Enter, Walk!Top
    <2>2. /\ d \notin DOMAIN children /\ d # home /\ IsFiniteSet(DOMAIN children)
        <3>1. DOMAIN children \subseteq G
            BY <1>3 DEF Reached
        <3>2. IsFiniteSet(DOMAIN children)
            BY <3>1, TreeAssumption, FS_Subset
        <3> QED BY <1>10, <3>1, <3>2
    <2>3. /\ Shape(stack', home) /\ Pending(stack') = Pending(stack)
          /\ Reading(stack') = Reading(stack)
          /\ RowsMakeBytes'
          /\ DOMAIN children' \subseteq DOMAIN children \cup {d}
          /\ bytes' + HeldIn(stack') = bytes + HeldIn(stack) + 0 + Space[Inode[d]]
        BY <1>1, <1>2, <1>6, <2>1, <2>2, DirectoryEntered
    <2>4. Counted(G \cup {d}, StillToCome', Reading(stack'), home)
        <3>1. Pending(stack) \subseteq StillToCome /\ Counted(G, StillToCome, Reading(stack), home)
            BY <1>3, <1>9 DEF Reached
        <3> QED BY <1>2, <1>6, <1>8, <1>9, <2>3, <3>1, EntryCounted
    <2>5. ASSUME stop' = "complete", changed' = {}
          PROVE  Whole(G \cup {d}, StillToCome', Reading(stack'), home)
        <3>1. depth > MaxDepth \/ d \in Unreadable
            BY <1>1, <1>5, <1>13, <2>1, <2>5 DEF Walk!Exhausted
        <3>2. stop = "complete" /\ changed = {}
            BY <1>1, <2>1, <2>5 DEF Walk!Exhausted
        <3>3. Whole(G, StillToCome, Reading(stack), home)
            BY <1>3, <3>2 DEF Reached
        <3>4. Inodes(G \cup {d}) = Inodes(G) \cup {Inode[d]}
            BY DEF Inodes
        <3>5. ASSUME NEW k \in Walk!Due(home) PROVE d \notin Walk!Above[k]
            <4> SUFFICES ASSUME d \in Walk!Above[k] PROVE FALSE
                OBVIOUS
            <4>1. /\ k \in Nodes /\ Walk!Above[k] \cap Unreadable = {}
                  /\ Cardinality(Walk!Above[k]) <= MaxDepth + 1
                BY DueIs
            <4>2. /\ IsFiniteSet(Walk!Above[k]) /\ Cardinality(Walk!Above[k]) \in Nat
                  /\ Walk!Above[d] \subseteq Walk!Above[k]
                BY <4>1, AboveFacts
            <4>3. IsFiniteSet(Walk!Above[d]) /\ d \notin Walk!Above[d]
                BY <1>6, AboveFacts
            <4>4. /\ IsFiniteSet(Walk!Above[d] \cup {d})
                  /\ Cardinality(Walk!Above[d] \cup {d}) = m + 1
                BY <1>7, <4>3, FS_AddElement
            <4>5. Walk!Above[d] \cup {d} \in SUBSET Walk!Above[k]
                BY <4>2
            <4>6. Cardinality(Walk!Above[d] \cup {d}) <= Cardinality(Walk!Above[k])
                BY <4>2, <4>5, FS_Subset
            <4> HIDE DEF m, depth
            <4> QED BY <1>5, <3>1, <4>1, <4>2, <4>4, <4>6
        <3> QED BY <1>9, <2>3, <3>3, <3>4, <3>5 DEF Whole
    <2>6. bytes' + HeldIn(stack') = bytes + HeldIn(stack) + Space[Inode[d]]
        BY <1>11, <2>3
    <2>7. \E G2 \in SUBSET Nodes : Reached(G2)'
        BY <1>1, <1>3, <1>6, <1>10, <1>11, <2>2, <2>3, <2>4, <2>5, <2>6, DirectoryCounted
    <2> QED BY <1>1, <1>12, <2>3, <2>7 DEF WalkInv
<1>14. CASE ~(depth > MaxDepth \/ Walk!Exhausted \/ d \in changed \/ d \in Unreadable)
    <2>1. /\ stack' = Append(stack, Walk!Frame(d, depth))
          /\ UNCHANGED <<bytes, loose, children, stop>>
        BY <1>4, <1>14 DEF Walk!Enter, Walk!Top, Walk!sums
    <2>2. d \notin Foreign \cup Unreadable /\ Len(stack) <= MaxDepth
        BY <1>5, <1>6, <1>14
    <2> DEFINE t == Append(stack, Walk!Frame(d, Len(stack)))
    <2>3. /\ Shape(t, home) /\ Pending(t) = Pending(stack) \cup Walk!InDir(d)
          /\ Reading(t) = Reading(stack) \cup {d} /\ HeldIn(t) = HeldIn(stack)
        BY <1>2, <1>6, <2>2, GoDown
    <2>4. stack' = t
        BY <1>5, <2>1
    <2> HIDE DEF t
    <2>5. /\ Shape(stack', home) /\ Pending(stack') = Pending(stack) \cup Walk!InDir(d)
          /\ Reading(stack') = Reading(stack) \cup {d} /\ HeldIn(stack') = HeldIn(stack)
        BY <2>3, <2>4
    <2>6. Counted(G, StillToCome', Reading(stack'), home)
        <3>1. ASSUME NEW g \in G, NEW o \in Walk!InDir(d)
              PROVE  g # o /\ o \notin Walk!Above[g]
            <4>1. Parent[o] = d /\ o # d /\ g \in Nodes /\ d \notin Walk!Above[g]
                BY <1>10 DEF Walk!InDir
            <4> QED BY <4>1, AboveFacts
        <3>2. \A g \in G : g \notin Walk!InDir(d) /\ Walk!InDir(d) \cap Walk!Above[g] = {}
            BY <3>1
        <3> QED BY <1>9, <1>10, <2>5, <3>2 DEF Counted
    <2>7. ASSUME stop' = "complete", changed' = {}
          PROVE  Whole(G, StillToCome', Reading(stack'), home)
        <3>1. Whole(G, StillToCome, Reading(stack), home)
            BY <1>1, <1>3, <2>1, <2>7 DEF Reached
        <3> SUFFICES ASSUME NEW k \in Walk!Due(home)
                     PROVE  \/ Inode[k] \in Inodes(G) \/ k \in StillToCome' \cup Reading(stack')
                            \/ StillToCome' \cap Walk!Above[k] # {}
            BY Zenon DEF Whole
        <3>2. \/ Inode[k] \in Inodes(G) \/ k \in StillToCome \cup Reading(stack)
              \/ StillToCome \cap Walk!Above[k] # {}
            BY <3>1 DEF Whole
        <3>3. d \in Walk!Above[k] =>
                k \in Walk!InDir(d) \/ Walk!InDir(d) \cap Walk!Above[k] # {}
            BY WayDown, DueIs
        <3> QED BY <1>9, <2>5, <3>2, <3>3
    <2>8. Reached(G)'
        BY <1>1, <1>3, <2>1, <2>5, <2>6, <2>7 DEF Reached
    <2>9. RowsMakeBytes'
        BY <1>1, <1>2, <2>1 DEF RowsMakeBytes
    <2> QED BY <1>1, <1>12, <2>5, <2>8, <2>9 DEF WalkInv
<1> QED BY <1>13, <1>14

\* A result in place of the account it is about.
LEMMA AccountsFinite == IsFiniteSet(Walk!RealUsers) /\ Walk!RealUsers \subseteq Walk!Real
                        /\ IsFiniteSet(Walk!Real)
<1>1. Walk!RealUsers \subseteq Walk!Real /\ Walk!Real \subseteq DOMAIN Database
    BY DEF Walk!RealUsers, Walk!Real
<1>2. IsFiniteSet(Walk!Real)
    BY <1>1, AccountAssumption, FS_Subset
<1> QED BY <1>1, <1>2, FS_Subset

\* A scan begins with nothing counted but the home.
LEMMA NextAccountKeeps ==
    ASSUME WalkInv, Walk!NextAccount
    PROVE  WalkInv'
<1>1. PICK i \in todo : /\ todo' = todo \ {i}
                        /\ Walk!Starts(Database[i].home)
    BY DEF Walk!NextAccount
<1>2. at = "next" /\ Reported
    BY DEF Walk!NextAccount, WalkInv
<1>3. PICK d : d = Database[i].home
    OBVIOUS
<1>4. d \in Dirs /\ d \in Nodes /\ Parent[d] = d /\ d \notin Foreign
    <2>1. i \in DOMAIN Database /\ Database[i].home \in Nodes
        BY <1>1, <1>2 DEF Reported, Walk!RealUsers, Walk!Real
    <2> QED BY <1>3, <2>1, AccountAssumption, TreeAssumption
<1>5. Walk!Starts(d)
    BY <1>1, <1>3
<1>6. /\ home' = d /\ loose' = 0 /\ children' = [n \in {} |-> 0] /\ seen' = {}
      /\ stop' = "complete" /\ changed' = changed /\ entering' = entering
    BY <1>5 DEF Walk!Starts
<1>7. /\ IsFiniteSet(todo) /\ Cardinality(todo') = Cardinality(todo) - 1
      /\ Cardinality(todo) \in Nat /\ todo' \subseteq Walk!RealUsers
    <2>1. IsFiniteSet(todo) /\ todo \subseteq Walk!RealUsers
        BY <1>2, AccountsFinite, FS_Subset DEF Reported
    <2> QED BY <1>1, <2>1, FS_RemoveElement, FS_CardinalityType
<1>8. results \in Results /\ Len(results) \in Nat
      /\ Len(results) + Cardinality(todo) = Cardinality(Walk!RealUsers)
    <2>1. Len(results) + Cardinality(todo) + 0 = Cardinality(Walk!RealUsers)
          /\ results \in Results
        BY <1>2 DEF Reported, Walking
    <2> QED BY <1>7, <2>1 DEF Results
<1>9. CASE d \in changed
    <2> DEFINE r == [home |-> d, bytes |-> 0, complete |-> TRUE]
    <2>1. bytes' = 0 /\ results' = Append(results, r) /\ at' = "next"
        BY <1>2, <1>5, <1>9 DEF Walk!Starts
    <2>2. r \in [home : Nodes, bytes : Nat, complete : BOOLEAN]
        BY <1>4
    <2> HIDE DEF r
    <2>3. results' \in Results /\ Len(results') = Len(results) + 1
        BY <1>8, <2>1, <2>2 DEF Results
    <2>4. Len(results') + Cardinality(todo') + 0 = Cardinality(Walk!RealUsers)
        BY <1>7, <1>8, <2>3
    <2>5. Walk!ExactWhenComplete'
        BY <1>6, <1>9 DEF Walk!ExactWhenComplete
    <2>6. Walk!RowsAddUp'
        BY <2>1 DEF Walk!RowsAddUp
    <2>7. ~Walking'
        BY <2>1 DEF Walking
    <2>8. Reported'
        BY <1>4, <1>6, <1>7, <2>1, <2>3, <2>4, <2>5, <2>6, <2>7 DEF Reported
    <2> QED BY <2>1, <2>7, <2>8 DEF WalkInv
<1>10. CASE d \notin changed
    <2> DEFINE T == IF d \in Unreadable THEN {} ELSE Walk!InDir(d)
               s == <<[dir |-> d, todo |-> T, total |-> 0, depth |-> 0]>>
    <2>1. bytes' = Space[Inode[d]] /\ results' = results /\ at' = "walk" /\ stack' = s
        BY <1>5, <1>10 DEF Walk!Starts, Walk!Frame
    <2>2. Shape(s, d) /\ Pending(s) = T /\ Reading(s) = {} /\ HeldIn(s) = 0
        <3>1. T \in SUBSET Walk!InDir(d) /\ (T # {} => d \notin Unreadable)
            OBVIOUS
        <3> HIDE DEF T
        <3> QED BY <1>4, <3>1, AtHome
    <2> HIDE DEF s
    <2>3. /\ Shape(stack', d) /\ Reading(stack') = {} /\ HeldIn(stack') = 0
          /\ StillToCome' = T
        BY <2>1, <2>2 DEF StillToCome
    <2>4. Space[Inode[d]] \in Nat /\ DOMAIN children' = {}
        BY <1>4, <1>6, InodeAssumption
    <2>5. RowsMakeBytes'
        <3>1. SumFunctionOnSet(children', {}) = 0
            BY SumEmpty
        <3> QED BY <1>6, <2>1, <2>4, <3>1 DEF RowsMakeBytes
    <2>6. BlocksOf({d}) = Space[Inode[d]]
        <3>1. BlocksOf({} \cup {d}) = BlocksOf({}) + Space[Inode[d]]
            BY <1>4, OneMoreCounted DEF Inodes
        <3>2. BlocksOf({}) = 0
            <4>1. Inodes({}) = {}
                BY DEF Inodes
            <4> QED BY <4>1, SumEmpty DEF BlocksOf
        <3>3. {} \cup {d} = {d}
            OBVIOUS
        <3> QED BY <2>4, <3>1, <3>2, <3>3
    <2>7. Walk!Above[d] = {}
        BY <1>4, AboveIs
    <2>8. d \in Walk!Due(d)
        <3>1. Cardinality({}) = 0 /\ 0 <= MaxDepth + 1
            BY FS_EmptySet, LimitAssumption
        <3> QED BY <1>4, <2>7, <3>1, DueIs
    <2>9. Counted({d}, T, {}, d)
        BY <2>7, <2>8 DEF Counted, Walk!InDir
    <2>10. Whole({d}, T, {}, d)
        <3> SUFFICES ASSUME NEW k \in Walk!Due(d)
                     PROVE  \/ Inode[k] \in Inodes({d}) \/ k \in T \/ T \cap Walk!Above[k] # {}
            BY Zenon DEF Whole
        <3>1. CASE k = d
            BY <3>1 DEF Inodes
        <3>2. CASE k # d
            <4>1. k \in Nodes /\ d \in Walk!Above[k] /\ d \notin Unreadable
                BY <3>2, DueIs
            <4>2. \E c \in Walk!InDir(d) : c = k \/ c \in Walk!Above[k]
                BY <4>1, WayDown
            <4> QED BY <4>1, <4>2
        <3> QED BY <3>1, <3>2
    <2> HIDE DEF T
    <2>11. Reached({d})'
        <3>1. bytes' + HeldIn(stack') = BlocksOf({d})
            BY <2>1, <2>3, <2>4, <2>6
        <3>2. {d} \ Dirs = {}
            BY <1>4
        <3>3. Counted({d}, StillToCome', Reading(stack'), home')
              /\ Whole({d}, StillToCome', Reading(stack'), home')
            BY <1>6, <2>3, <2>9, <2>10
        <3> QED BY <1>6, <2>4, <3>1, <3>2, <3>3 DEF Reached
    <2>12. Walk!ExactWhenComplete'
        BY <1>2, <1>6, <2>1 DEF Reported, Walk!ExactWhenComplete, Walk!DiskUsage, Walk!Due
    <2>13. Walk!RowsAddUp'
        BY <2>1 DEF Walk!RowsAddUp
    <2>14. Walking' /\ at' # "enter"
        BY <2>1 DEF Walking
    <2>15. Len(results') + Cardinality(todo') + 1 = Cardinality(Walk!RealUsers)
        BY <1>7, <1>8, <2>1
    <2>16. Reported'
        BY <1>4, <1>6, <1>7, <1>8, <2>1, <2>12, <2>13, <2>14, <2>15 DEF Reported
    <2>17. {d} \in SUBSET Nodes
        BY <1>4
    <2> QED BY <1>6, <2>3, <2>5, <2>11, <2>14, <2>16, <2>17 DEF WalkInv
<1> QED BY <1>9, <1>10

\* When nothing is still to come, all that is due is counted.
LEMMA AllCounted ==
    ASSUME NEW G \in SUBSET Nodes, Reached(G), stop = "complete", changed = {},
           StillToCome = {}, Reading(stack) = {}
    PROVE  BlocksOf(G) = Walk!DiskUsage(home)
<1>1. Whole(G, {}, {}, home) /\ G \subseteq Walk!Due(home)
    BY DEF Reached, Counted
<1>2. Inodes(G) = Inodes(Walk!Due(home))
    BY <1>1 DEF Whole, Inodes
<1> QED BY <1>2, SumIsSum DEF BlocksOf, Walk!DiskUsage, Inodes

\* A scan ends: nothing is left to come, so the sums are those of all that is due,
\* and of the rows the largest are kept.
LEMMA ReportKeeps ==
    ASSUME WalkInv, Walk!Report
    PROVE  WalkInv'
<1> DEFINE r == [home |-> home, bytes |-> bytes, complete |-> stop = "complete"]
<1>1. /\ at = "walk" /\ Len(stack) = 1 /\ stack[Len(stack)].todo = {}
      /\ at' = "next" /\ results' = Append(results, r)
      /\ UNCHANGED <<todo, home, entering, stop, bytes, loose, changed>>
    BY DEF Walk!Report, Walk!Top, Walk!walker, Walk!outside
<1>2. Reported /\ Shape(stack, home) /\ RowsMakeBytes /\ Walking
    BY <1>1 DEF WalkInv, Walking
<1>3. PICK G \in SUBSET Nodes : Reached(G)
    BY <1>1, <1>2 DEF WalkInv
<1>4. StillToCome = {} /\ Reading(stack) = {}
    <2>1. 1 .. Len(stack) = {1} /\ 2 .. Len(stack) = {}
        BY <1>1
    <2> QED BY <1>1, <2>1 DEF StillToCome, Pending, Reading
<1>5. HeldIn(stack) = 0 /\ bytes \in Nat
    <2>1. stack \in Frames /\ stack[1].total = 0
        BY <1>2 DEF Shape
    <2>2. DOMAIN stack = {1}
        BY <1>1, <2>1 DEF Frames
    <2>3. Totals(stack)[1] = 0
        BY <2>1, <2>2 DEF Totals
    <2>4. IsFiniteSet({1}) /\ {1} \ {1} = {}
        BY FS_Singleton
    <2>5. \A i \in {1} : Totals(stack)[i] \in Int
        BY <2>3
    <2>6. SumFunctionOnSet(Totals(stack), {1})
            = Totals(stack)[1] + SumFunctionOnSet(Totals(stack), {1} \ {1})
        BY <2>4, <2>5, SumTakeOut
    <2>7. SumFunctionOnSet(Totals(stack), {}) = 0
        BY SumEmpty
    <2> QED BY <1>2, <2>2, <2>3, <2>4, <2>6, <2>7 DEF HeldIn, RowsMakeBytes
<1>6. results \in Results /\ home \in Nodes
    BY <1>2 DEF Reported
<1>7. r \in [home : Nodes, bytes : Nat, complete : BOOLEAN]
    BY <1>5, <1>6
<1>8. /\ results' \in Results /\ Len(results') = Len(results) + 1 /\ Len(results) \in Nat
      /\ results'[Len(results) + 1] = r /\ DOMAIN results' = 1 .. Len(results) + 1
      /\ DOMAIN results = 1 .. Len(results)
      /\ \A i \in 1 .. Len(results) : results'[i] = results[i]
    <2> HIDE DEF r
    <2> QED BY <1>1, <1>6, <1>7 DEF Results
<1>9. Walk!ExactWhenComplete'
    <2> SUFFICES ASSUME NEW i \in 1 .. Len(results) + 1, results'[i].complete, changed = {}
                 PROVE  results'[i].bytes = Walk!DiskUsage(results'[i].home)
        BY <1>1, <1>8 DEF Walk!ExactWhenComplete, Walk!DiskUsage, Walk!Due
    <2>1. CASE i \in 1 .. Len(results)
        BY <1>2, <1>8, <2>1 DEF Reported, Walk!ExactWhenComplete
    <2>2. CASE i = Len(results) + 1
        <3>1. stop = "complete" /\ results'[i].bytes = bytes /\ results'[i].home = home
            <4>1. results'[i] = r
                BY <1>8, <2>2
            <4>2. r.bytes = bytes /\ r.home = home /\ r.complete = (stop = "complete")
                OBVIOUS
            <4> HIDE DEF r
            <4>3. r.complete
                BY <4>1
            <4>4. stop = "complete"
                BY <4>2, <4>3, Zenon
            <4> QED BY <4>1, <4>2, <4>4
        <3>2. bytes + HeldIn(stack) = Walk!DiskUsage(home)
            BY <1>3, <1>4, <3>1, AllCounted DEF Reached
        <3> QED BY <1>5, <3>1, <3>2
    <2>3. i \in 1 .. Len(results) \/ i = Len(results) + 1
        BY <1>8
    <2> QED BY <2>1, <2>2, <2>3
<1>10. Walk!RowsAddUp'
    <2> DEFINE rows == Walk!Rows
               total == SumFunctionOnSet(rows, DOMAIN rows)
    <2>1. PICK kept \in Walk!Largest(rows) : children' = [n \in kept |-> rows[n]]
        BY DEF Walk!Report
    <2>2. /\ kept \in SUBSET DOMAIN rows
          /\ kept = DOMAIN rows \/ Cardinality(kept) = KeepChildren
        BY CountIsCount DEF Walk!Largest
    <2>3. home \notin DOMAIN children /\ IsFiniteSet(DOMAIN children)
        <3>1. DOMAIN children \in SUBSET Nodes /\ home \notin DOMAIN children
            BY <1>3 DEF Reached
        <3> QED BY <3>1, TreeAssumption, FS_Subset
    <2>4. /\ loose \in Nat /\ \A c \in DOMAIN children : children[c] \in Nat
          /\ Space[Inode[home]] \in Nat
        BY <1>2, <1>6, InodeAssumption DEF RowsMakeBytes
    <2>5. /\ DOMAIN rows = DOMAIN children \cup (IF loose > 0 THEN {home} ELSE {})
          /\ \A n \in DOMAIN rows : rows[n] = IF n = home THEN loose ELSE children[n]
        BY DEF Walk!Rows
    <2> HIDE DEF rows
    <2>6. IsFiniteSet(DOMAIN rows) /\ \A n \in DOMAIN rows : rows[n] \in Nat
        <3>1. IsFiniteSet(DOMAIN children \cup {home})
            BY <2>3, FS_AddElement
        <3>2. DOMAIN rows \subseteq DOMAIN children \cup {home}
            BY <2>5
        <3>3. IsFiniteSet(DOMAIN rows)
            BY <3>1, <3>2, FS_Subset
        <3> QED BY <2>4, <2>5, <3>3
    <2>7. /\ \A n \in DOMAIN children : rows[n] = children[n]
          /\ DOMAIN children \subseteq DOMAIN rows
        BY <2>3, <2>5
    <2>8. SumFunctionOnSet(rows, DOMAIN children) = SumFunctionOnSet(children, DOMAIN children)
        BY <2>3, <2>7, SumSame
    <2>9. SumFunctionOnSet(children, DOMAIN children) \in Nat
        BY <2>3, <2>4, SumIsNat
    <2>10. total = SumFunctionOnSet(children, DOMAIN children) + loose
        <3>1. CASE loose > 0
            <4>1. DOMAIN rows = DOMAIN children \cup {home} /\ rows[home] = loose
                BY <2>5, <3>1
            <4>2. \A n \in DOMAIN children \cup {home} : rows[n] \in Int
                BY <2>6, <4>1
            <4>3. SumFunctionOnSet(rows, DOMAIN children \cup {home})
                    = SumFunctionOnSet(rows, DOMAIN children) + rows[home]
                BY <2>3, <4>2, SumOfOneMore
            <4> QED BY <2>8, <4>1, <4>3
        <3>2. CASE ~(loose > 0)
            <4>1. loose = 0 /\ DOMAIN rows = DOMAIN children
                BY <2>4, <2>5, <3>2
            <4> QED BY <2>8, <2>9, <4>1
        <3> QED BY <3>1, <3>2
    <2>11. bytes = Space[Inode[home]] + total
        BY <1>2, <2>4, <2>9, <2>10 DEF RowsMakeBytes
    <2>12. DOMAIN children' = kept /\ \A n \in kept : children'[n] = rows[n]
        BY <2>1
    <2>13. IsFiniteSet(kept)
        BY <2>2, <2>6, FS_Subset
    <2>14. SumFunctionOnSet(children', kept) = SumFunctionOnSet(rows, kept)
        BY <2>12, <2>13, SumSame
    <2>15. SumFunctionOnSet(rows, kept) <= total
        BY <2>2, <2>6, SumOfFewer
    <2>16. SumFunctionOnSet(rows, kept) \in Nat /\ total \in Nat
        BY <2>2, <2>6, <2>13, SumIsNat
    <2> DEFINE listed == Space[Inode[home]] + SumFunctionOnSet(children', DOMAIN children')
    <2>17. listed <= bytes
        BY <2>4, <2>11, <2>12, <2>14, <2>15, <2>16
    <2>18. Cardinality(DOMAIN children') < KeepChildren => listed = bytes
        <3> SUFFICES ASSUME Cardinality(kept) < KeepChildren PROVE listed = bytes
            BY <2>12
        <3>1. Cardinality(kept) # KeepChildren
            BY LimitAssumption, <2>13, FS_CardinalityType
        <3> QED BY <2>2, <2>11, <2>12, <2>14, <3>1
    <2>19. bytes' = bytes /\ home' = home
        BY <1>1
    <2> HIDE DEF total
    <2>20. Walk!SumFunctionOnSet(children', DOMAIN children')
             = SumFunctionOnSet(children', DOMAIN children')
        BY SumIsSum
    <2>21. Walk!Cardinality(DOMAIN children') = Cardinality(DOMAIN children')
        BY CountIsCount
    <2> QED BY <2>17, <2>18, <2>19, <2>20, <2>21 DEF Walk!RowsAddUp
<1>11. ~Walking' /\ Walking
    BY <1>1 DEF Walking
<1>12. Len(results') + Cardinality(todo') + 0 = Cardinality(Walk!RealUsers)
    <2>1. Cardinality(todo) \in Nat
        BY <1>2, AccountsFinite, FS_Subset, FS_CardinalityType DEF Reported
    <2>2. Len(results) + Cardinality(todo) + 1 = Cardinality(Walk!RealUsers)
        BY <1>2 DEF Reported
    <2> QED BY <1>1, <1>8, <2>1, <2>2
<1>13. Reported'
    BY <1>1, <1>2, <1>6, <1>8, <1>9, <1>10, <1>11, <1>12 DEF Reported
<1> QED BY <1>1, <1>11, <1>13 DEF WalkInv

\* Time, the flag, and what disappears: nothing that was counted changes.
LEMMA RestKeeps ==
    ASSUME WalkInv,
           Walk!NoAccountLeft \/ Walk!TimePasses \/ Walk!Cancels
             \/ (\E n \in Nodes : Walk!Changes(n)) \/ UNCHANGED walkVars
    PROVE  WalkInv'
<1>1. CASE Walk!NoAccountLeft
    <2>1. /\ at = "next" /\ at' = "done" /\ todo = {}
          /\ UNCHANGED <<todo, home, results, changed>>
        BY <1>1 DEF Walk!NoAccountLeft, Walk!outside
    <2>2. ~Walking /\ ~Walking' /\ Reported
        BY <2>1 DEF WalkInv, Walking
    <2>3. Walk!ExactWhenComplete'
        BY <2>1, <2>2 DEF Reported, Walk!ExactWhenComplete, Walk!DiskUsage, Walk!Due
    <2>4. Walk!RowsAddUp'
        BY <2>1 DEF Walk!RowsAddUp
    <2>5. Reported'
        BY <2>1, <2>2, <2>3, <2>4 DEF Reported
    <2> QED BY <2>1, <2>2, <2>5 DEF WalkInv
<1>2. ASSUME UNCHANGED <<todo, at, home, entering, stack, seen, stop, bytes, loose,
                         children, results>>,
             changed' = {} => changed = {}
      PROVE  WalkInv'
    <2>1. Walk!ExactWhenComplete'
        BY <1>2 DEF WalkInv, Reported, Walk!ExactWhenComplete, Walk!DiskUsage, Walk!Due
    <2>2. Walk!RowsAddUp'
        BY <1>2 DEF WalkInv, Reported, Walk!RowsAddUp
    <2>3. Walking' = Walking
        BY <1>2 DEF Walking
    <2>4. Reported'
        BY <1>2, <2>1, <2>2, <2>3 DEF WalkInv, Reported
    <2>5. StillToCome' = StillToCome
        BY <1>2 DEF StillToCome
    <2>6. \A G : Reached(G) => Reached(G)'
        BY <1>2, <2>5 DEF Reached
    <2>7. RowsMakeBytes => RowsMakeBytes'
        BY <1>2 DEF RowsMakeBytes
    <2>8. OnTheThreshold => OnTheThreshold'
        BY <1>2 DEF OnTheThreshold
    <2> QED BY <1>2, <2>3, <2>4, <2>6, <2>7, <2>8 DEF WalkInv
<1>3. CASE Walk!TimePasses
    BY <1>2, <1>3 DEF Walk!TimePasses, Walk!walker, Walk!sums
<1>4. CASE Walk!Cancels
    BY <1>2, <1>4 DEF Walk!Cancels, Walk!walker, Walk!sums
<1>5. CASE \E n \in Nodes : Walk!Changes(n)
    BY <1>2, <1>5 DEF Walk!Changes, Walk!walker, Walk!sums
<1>6. CASE UNCHANGED walkVars
    BY <1>2, <1>6 DEF walkVars
<1> QED BY <1>1, <1>3, <1>4, <1>5, <1>6

LEMMA WalkInvStart == BothInit => WalkInv
<1> SUFFICES ASSUME Walk!Init PROVE WalkInv
    BY DEF BothInit
<1>1. /\ todo = Walk!RealUsers /\ at = "next" /\ home \in Nodes /\ results = << >>
    BY DEF Walk!Init
<1>2. ~Walking
    BY <1>1 DEF Walking
<1>3. results \in Results /\ Len(results) = 0 /\ DOMAIN results = {}
    BY <1>1 DEF Results
<1>4. Cardinality(Walk!RealUsers) \in Nat
    BY AccountsFinite, FS_CardinalityType
<1>5. Len(results) + Cardinality(todo) + 0 = Cardinality(Walk!RealUsers)
    BY <1>1, <1>3, <1>4
<1>6. Walk!ExactWhenComplete
    BY <1>3 DEF Walk!ExactWhenComplete
<1>7. Walk!RowsAddUp
    BY <1>1 DEF Walk!RowsAddUp
<1>8. Reported
    BY <1>1, <1>2, <1>3, <1>5, <1>6, <1>7 DEF Reported
<1> QED BY <1>1, <1>2, <1>8 DEF WalkInv

LEMMA WalkInvStep == WalkInv /\ [BothNext]_all => WalkInv'
<1> SUFFICES ASSUME WalkInv, [BothNext]_all PROVE WalkInv'
    OBVIOUS
<1>1. CASE InCalls(Next) \/ WalkOver \/ UNCHANGED all
    <2>1. UNCHANGED walkVars
        BY <1>1 DEF InCalls, WalkOver, all
    <2> QED BY <2>1, RestKeeps
<1>2. CASE InWalk(Walk!Next)
    <2>1. Walk!Next
        BY <1>2 DEF InWalk
    <2> QED BY <2>1, NextAccountKeeps, VisitKeeps, BreaksKeeps, EnterKeeps, LeaveKeeps,
               ReportKeeps, RestKeeps
            DEF Walk!Next, Walk!Scanning
<1> QED BY <1>1, <1>2 DEF BothNext

-----------------------------------------------------------------------------
(* What follows *)

\* The accounts that are reported are as many as the people, at least, and as
\* many if the accounts of one person are neighbours.
LEMMA OneAccountEach ==
    LET people == {Database[i].uid : i \in Walk!Real}
    IN  /\ Cardinality(Walk!RealUsers) >= Cardinality(people)
        /\ Walk!IdsTogether => Cardinality(Walk!RealUsers) = Cardinality(people)
<1> DEFINE people == {Database[i].uid : i \in Walk!Real}
           ids == [i \in Walk!RealUsers |-> Database[i].uid]
<1>1. /\ IsFiniteSet(Walk!RealUsers) /\ Walk!RealUsers \subseteq Walk!Real
      /\ IsFiniteSet(Walk!Real)
    BY AccountsFinite
<1>2. \A i \in Walk!Real : i \in Nat /\ Database[i].name \in Nat
    BY AccountAssumption DEF Walk!Real
<1>3. \A i, j \in Walk!Real : i # j => Walk!Before(i, j) \/ Walk!Before(j, i)
    BY <1>2 DEF Walk!Before
<1>4. \A i, j, k \in Walk!Real : Walk!Before(i, j) /\ Walk!Before(j, k) => Walk!Before(i, k)
    BY <1>2 DEF Walk!Before
<1>5. \A i \in Walk!Real : ~Walk!Before(i, i)
    BY <1>2 DEF Walk!Before
\* The first account of a person is reported.
<1>6. ASSUME NEW u \in people PROVE \E i \in Walk!RealUsers : Database[i].uid = u
    <2> DEFINE R == {ij \in Walk!Real \X Walk!Real : Walk!Before(ij[1], ij[2])}
               S == {i \in Walk!Real : Database[i].uid = u}
    <2>1. S # {} /\ IsFiniteSet(S) /\ S \in SUBSET Walk!Real
        BY <1>1, FS_Subset
    <2>2. /\ \A i \in S : <<i, i>> \notin R
          /\ \A i, j \in S : i # j => <<i, j>> \in R \/ <<j, i>> \in R
          /\ \A i, j, k \in S : <<i, j>> \in R /\ <<j, k>> \in R => <<i, k>> \in R
        BY <1>3, <1>4, <1>5
    <2>3. Cardinality(S) \in Nat /\ 1 \in 1 .. Cardinality(S)
        BY <2>1, FS_CardinalityType, FS_EmptySet
    <2>4. PICK i \in S : RankIn(S, R, i) = 1
        <3> HIDE DEF S, R
        <3> QED BY <2>1, <2>2, <2>3, RankOnto
    <2>5. ASSUME NEW j \in S PROVE ~Walk!Before(j, i)
        <3> SUFFICES ASSUME Walk!Before(j, i) PROVE FALSE
            OBVIOUS
        <3> DEFINE B == {k \in S : <<k, i>> \in R}
        <3>1. j \in B
            OBVIOUS
        <3>2. IsFiniteSet(B) /\ Cardinality(B) \in Nat
            BY <2>1, FS_Subset, FS_CardinalityType
        <3>3. Cardinality(B) + 1 = 1
            BY <2>4 DEF RankIn
        <3> HIDE DEF B
        <3>4. Cardinality(B) = 0
            BY <3>2, <3>3
        <3> QED BY <3>1, <3>2, <3>4, FS_EmptySet
    <2>6. i \in Walk!Real /\ Database[i].uid = u
        OBVIOUS
    <2>7. i \in Walk!RealUsers
        BY <2>5, <2>6 DEF Walk!RealUsers, Walk!SameId
    <2> QED BY <2>6, <2>7
<1>7. ids \in Surjection(Walk!RealUsers, people)
    BY <1>1, <1>6 DEF Surjection
<1>8. IsFiniteSet(people) /\ Cardinality(people) <= Cardinality(Walk!RealUsers)
    <2> HIDE DEF people, ids
    <2> QED BY <1>1, <1>7, FS_Surjection
<1>9. Cardinality(people) \in Nat /\ Cardinality(Walk!RealUsers) \in Nat
    BY <1>1, <1>8, FS_CardinalityType
\* No second one is, if nobody stands between.
<1>10. ASSUME Walk!IdsTogether PROVE Cardinality(Walk!RealUsers) = Cardinality(people)
    <2>1. ASSUME NEW i \in Walk!RealUsers, NEW j \in Walk!RealUsers,
                 Database[i].uid = Database[j].uid, Walk!Before(i, j)
          PROVE  FALSE
        <3>1. i \in Walk!Real /\ j \in Walk!Real /\ Walk!SameId(i, j)
            BY <1>1, <2>1 DEF Walk!SameId
        <3>2. \A k \in Walk!Real : Walk!Before(i, k) /\ Walk!Before(k, j) => Walk!SameId(k, j)
            BY <1>10, <3>1 DEF Walk!IdsTogether
        <3> QED BY <2>1, <3>1, <3>2 DEF Walk!RealUsers
    <2>2. ids \in Injection(Walk!RealUsers, people)
        <3>1. \A i, j \in Walk!RealUsers : Database[i].uid = Database[j].uid => i = j
            BY <1>1, <1>3, <2>1
        <3> QED BY <1>1, <3>1 DEF Injection, IsInjective
    <2>3. Cardinality(Walk!RealUsers) <= Cardinality(people)
        <3> HIDE DEF people, ids
        <3> QED BY <1>8, <2>2, FS_Injection
    <2> HIDE DEF people
    <2> QED BY <1>8, <1>9, <2>3
<1> HIDE DEF people
<1>11. Cardinality(Walk!RealUsers) >= Cardinality(people)
    BY <1>8, <1>9
<1> QED BY <1>10, <1>11 DEF people

\* The invariant says what SoundResults says.
LEMMA WalkInvMeans == WalkInv => SoundResults
<1> SUFFICES ASSUME WalkInv PROVE Walk!SoundResults
    BY DEF SoundResults
<1>1. Walk!ExactWhenComplete /\ Walk!RowsAddUp
    BY DEF WalkInv, Reported
<1>2. Walk!NeverTooMuch
    <2> SUFFICES ASSUME Walking PROVE bytes + Walk!Held <= Walk!DiskUsage(home)
        BY DEF Walk!NeverTooMuch, Walking
    <2>1. PICK G \in SUBSET Nodes : Reached(G)
        BY DEF WalkInv
    <2>2. bytes + HeldIn(stack) = BlocksOf(G) /\ G \subseteq Walk!Due(home)
        BY <2>1 DEF Reached, Counted
    <2>3. Walk!Held = HeldIn(stack)
        BY SumIsSum DEF Walk!Held, HeldIn, Totals
    <2>4. Walk!DiskUsage(home) = BlocksOf(Walk!Due(home)) /\ Walk!Due(home) \in SUBSET Nodes
        BY SumIsSum DEF Walk!DiskUsage, BlocksOf, Inodes, Walk!Due
    <2>5. Inodes(G) \in SUBSET Inodes(Walk!Due(home))
        BY <2>2 DEF Inodes
    <2>6. BlocksOf(G) <= BlocksOf(Walk!Due(home))
        BY <2>4, <2>5, BlocksOfFacts, SumOfFewer DEF BlocksOf
    <2> QED BY <2>2, <2>3, <2>4, <2>6
<1>3. Walk!EachPersonOnce
    <2> DEFINE people == {Database[i].uid : i \in Walk!Real}
    <2> SUFFICES ASSUME at = "done"
                 PROVE  /\ Len(results) >= Cardinality(people)
                        /\ Walk!IdsTogether => Len(results) = Cardinality(people)
        BY CountIsCount DEF Walk!EachPersonOnce
    <2>1. todo = {} /\ ~Walking /\ results \in Results
          /\ Len(results) + Cardinality(todo) + 0 = Cardinality(Walk!RealUsers)
        BY DEF WalkInv, Reported, Walking
    <2>2. Cardinality({}) = 0 /\ Len(results) \in Nat
        BY <2>1, FS_EmptySet DEF Results
    <2>3. Len(results) = Cardinality(Walk!RealUsers)
        BY <2>1, <2>2
    <2> QED BY <2>3, OneAccountEach
<1> QED BY <1>1, <1>2, <1>3 DEF Walk!SoundResults

\* A scan of the homes (storage_users, scan_directory) reports what is there:
\* a result marked complete is what du says, no scan has counted more than
\* there is at any time whatever disappears meanwhile, the rows of a result add up
\* to it, and every person is reported, once if the accounts that share an id are
\* neighbours.
THEOREM ResultsAreSound == BothSpec => []SoundResults
<1>1. BothSpec => []WalkInv
    <2>1. BothInit => WalkInv
        BY WalkInvStart
    <2>2. WalkInv /\ [BothNext]_all => WalkInv'
        BY WalkInvStep
    <2> QED BY <2>1, <2>2, PTL DEF BothSpec
<1> QED BY <1>1, WalkInvMeans, PTL
=============================================================================

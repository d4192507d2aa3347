----------------------------- MODULE GameProofs -----------------------------
(***************************************************************************)
(* The board of scores and the field of the game.                          *)
(* For any number of accounts, names and ranks, where no two processes run *)
(* under one account: what was recorded stays, and no rank ever drops,     *)
(* though names are cut, writes fail and processes are killed. The run     *)
(* `together' shows why the accounts must be apart.                        *)
(* On any terminal, from any speed and history, however many obstacles are *)
(* followed: the next obstacle leaves room for a jump.                     *)
(***************************************************************************)
EXTENDS MCGame, SumTheorems, Sequences

USE OwnerAssumption, NamesAssumption, SizesAssumption

\* No two processes run under one account.
Apart == \A p, q \in Procs : Owner[p] = Owner[q] => p = q

-----------------------------------------------------------------------------
(* Types *)

\* A process leaves no more temporary files than processes were killed.
TypeInv == TypeOK /\ \A p \in Procs : litter[p] <= crashes

\* The name of a process without one is a name.
LEMMA NoMatterType == NoMatter \in Names
BY DEF NoMatter

\* The empty board is one.
LEMMA EmptyType == Empty \in Files
BY DEF Empty, Files, Scores

\* Merging two boards gives a board that has every name as high as either.
LEMMA Merging ==
    ASSUME NEW f \in Files, NEW g \in Files
    PROVE  /\ Merge(f, g) \in Files
           /\ \A n \in Names : Merge(f, g)[n] >= f[n] /\ Merge(f, g)[n] >= g[n]
BY DEF Merge, Files, Scores

\* A step that loads stays within the types.
LEMMA LoadsType ==
    ASSUME TypeOK, NEW p \in Procs, NEW why \in Purposes, Loads(p, why)
    PROVE  /\ pc' \in [Procs -> {"playing", "load", "asked", "own", "create", "rename",
                                 "told", "gone"}]
           /\ purpose' \in [Procs -> Purposes]
           /\ left' \in [Procs -> SUBSET Accounts]
           /\ board' \in [Procs -> Files]
BY EmptyType DEF TypeOK, Loads

\* So does one that says something.
LEMMA SaysType ==
    ASSUME TypeOK, NEW p \in Procs, NEW v \in Verdicts, Says(p, v)
    PROVE  verdict' \in [Procs -> Verdicts]
BY DEF TypeOK, Says

\* And one that forgets a game.
LEMMA ForgetsType ==
    ASSUME TypeOK, NEW p \in Procs, Forgets(p)
    PROVE  /\ purpose' \in [Procs -> Purposes]
           /\ left' \in [Procs -> SUBSET Accounts]
           /\ board' \in [Procs -> Files]
           /\ score' \in [Procs -> Scores]
           /\ name' \in [Procs -> Names]
           /\ mine' \in [Procs -> Files]
           /\ verdict' \in [Procs -> Verdicts]
BY EmptyType, NoMatterType DEF TypeOK, Forgets, Scores, Purposes, Verdicts

\* And one whose write fails.
LEMMA WriteFailsType ==
    ASSUME TypeInv, NEW p \in Procs, WriteFails(p)
    PROVE  TypeInv'
<1>1. "show" \in Purposes /\ "failed" \in Verdicts
  BY DEF Purposes, Verdicts
<1>2. TypeOK'
  BY <1>1, LoadsType, SaysType, EmptyType DEF TypeInv, TypeOK, WriteFails
<1>3. QED  BY <1>2 DEF TypeInv, WriteFails

\* What a process does by itself keeps the types.
LEMMA RecordingType ==
    ASSUME TypeInv, NEW p \in Procs, Recording(p)
    PROVE  TypeInv'
<1> USE DEF TypeInv, TypeOK
<1>1. \A why \in {"rank", "show"} : why \in Purposes
  BY DEF Purposes
<1>2. \A v \in {"recorded", "unranked", "notHigher", "failed"} : v \in Verdicts
  BY DEF Verdicts
<1>3. CASE LoadReads(p)
  <2>1. PICK a \in left[p] : board' = [board EXCEPT ![p] = Merge(@, file[a])]
    BY <1>3 DEF LoadReads
  <2>2. Merge(board[p], file[a]) \in Files
    BY <2>1, Merging
  <2>3. board' \in [Procs -> Files]
    BY <2>1, <2>2
  <2>4. left' \in [Procs -> SUBSET Accounts]
    BY <1>3 DEF LoadReads
  <2>5. QED  BY <1>3, <2>3, <2>4 DEF LoadReads
<1>4. CASE NameAsked(p)
  BY <1>4 DEF NameAsked
<1>5. CASE RecordCompared(p)
  <2>1. CASE Says(p, "notHigher") /\ Loads(p, "show")
    BY <1>1, <1>2, <1>5, <2>1, LoadsType, SaysType DEF RecordCompared
  <2>2. CASE pc' = [pc EXCEPT ![p] = "own"] /\ UNCHANGED <<purpose, left, board, verdict>>
    BY <1>5, <2>2 DEF RecordCompared
  <2>3. QED  BY <1>5, <2>1, <2>2 DEF RecordCompared
<1>6. CASE OwnRead(p)
  <2>1. mine' \in [Procs -> Files]
    BY <1>6 DEF OwnRead, Kept
  <2>2. QED  BY <1>6, <2>1 DEF OwnRead
<1>7. CASE TmpCreated(p)
  BY <1>7, WriteFailsType DEF TmpCreated
<1>8. CASE TmpRenamed(p)
  <2>1. CASE WriteFails(p)
    BY <2>1, WriteFailsType
  <2>2. CASE /\ file' = [file EXCEPT ![Owner[p]] = mine[p]]
             /\ mine' = [mine EXCEPT ![p] = Empty]
             /\ Loads(p, "rank")
             /\ UNCHANGED <<litter, score, name, verdict, crashes>>
    BY <1>1, <2>2, LoadsType, EmptyType
  <2>3. QED  BY <1>8, <2>1, <2>2 DEF TmpRenamed
<1>9. CASE RankTold(p)
  <2>1. \E v \in Verdicts : Says(p, v)
    BY <1>2, <1>9 DEF RankTold
  <2>2. QED  BY <1>1, <1>9, <2>1, LoadsType, SaysType DEF RankTold
<1>10. CASE BoardShown(p)
  BY <1>10 DEF BoardShown
<1>11. QED
  BY <1>3, <1>4, <1>5, <1>6, <1>7, <1>8, <1>9, <1>10 DEF Recording

\* Every step of Next keeps the types.
LEMMA TypePreserved == TypeInv /\ [Next]_vars => TypeInv'
<1> SUFFICES ASSUME TypeInv, [Next]_vars  PROVE TypeInv'
  OBVIOUS
<1> USE DEF TypeInv, TypeOK
<1>1. ASSUME NEW p \in Procs, GameEnds(p)  PROVE TypeInv'
  <2>1. "death" \in Purposes
    BY DEF Purposes
  <2>2. QED  BY <1>1, <2>1, LoadsType DEF GameEnds
<1>2. ASSUME NEW p \in Procs, NameSubmitted(p)  PROVE TypeInv'
  <2>1. "record" \in Purposes
    BY DEF Purposes
  <2>2. QED  BY <1>2, <2>1, LoadsType DEF NameSubmitted
<1>3. ASSUME NEW p \in Procs, NameSkipped(p)  PROVE TypeInv'
  BY <1>3 DEF NameSkipped
<1>4. ASSUME NEW p \in Procs, NextGame(p)  PROVE TypeInv'
  BY <1>4, ForgetsType DEF NextGame
<1>5. ASSUME NEW p \in Procs, Crash(p)  PROVE TypeInv'
  <2>1. crashes' = crashes + 1 /\ crashes' \in 0..MaxCrashes
    BY <1>5 DEF Crash
  <2>2. litter' \in [Procs -> 0..MaxCrashes] /\ \A q \in Procs : litter'[q] <= crashes'
    BY <1>5, <2>1 DEF Crash
  <2>3. QED  BY <1>5, <2>1, <2>2, ForgetsType DEF Crash
<1>6. ASSUME NEW p \in Procs, Restart(p)  PROVE TypeInv'
  BY <1>6 DEF Restart
<1>7. CASE UNCHANGED vars
  BY <1>7 DEF vars
<1>8. QED
  BY <1>1, <1>2, <1>3, <1>4, <1>5, <1>6, <1>7, RecordingType DEF Next, Playing

\* It starts with empty files and nobody loading.
LEMMA TypeInit == Init => TypeInv
BY EmptyType, NoMatterType DEF Init, TypeInv, TypeOK, Scores, Purposes, Verdicts

\* Every value the board and its processes keep stays of its kind.
THEOREM TypeCorrect == Spec => []TypeOK
<1>1. TypeInv => TypeOK
  BY DEF TypeInv
<1>2. QED  BY <1>1, TypeInit, TypePreserved, PTL DEF Spec
-----------------------------------------------------------------------------
(* A record that is written *)

\* The board a process loads has at least what its account's file holds, once
\* that file was read.
Seen(p) == Owner[p] \notin left[p] =>
                \A n \in Names : board[p][n] >= file[Owner[p]][n]

\* There is room for the score among those of the account's file.
Room(p) == score[p] > 0 /\ Cardinality(AtLeast(file[Owner[p]], score[p])) < Top

\* The file is about to have the new record.
Prepared(p) ==
    /\ score[p] > file[Owner[p]][name[p]]
    /\ mine[p] \in Kept([file[Owner[p]] EXCEPT ![name[p]] = score[p]])
    /\ mine[p][name[p]] = score[p]

\* The file has it.
Written(p) == score[p] > 0 /\ file[Owner[p]][name[p]] = score[p]

\* What makes RecordedStays inductive: what is known of the account's file at
\* each point between the end of a game and what is told of it. None but the
\* process itself changes that file.
Progress(p) ==
    /\ pc[p] = "load" => Seen(p)
    /\ pc[p] \in {"asked", "own"} \/ (pc[p] = "load" /\ purpose[p] = "record") => Room(p)
    /\ pc[p] = "own" => score[p] > file[Owner[p]][name[p]]
    /\ pc[p] \in {"create", "rename"} => Prepared(p)
    /\ pc[p] = "load" /\ purpose[p] = "rank" => Written(p)
    /\ verdict[p] # "unranked"
    /\ verdict[p] = "recorded" =>
          Written(p) /\ (pc[p] = "told" \/ (pc[p] = "load" /\ purpose[p] = "show"))

BoardInv == TypeInv /\ \A p \in Procs : Progress(p)

\* What concerns a process, and nothing else of it, is as before.
Unmoved(q) ==
    /\ file'[Owner[q]] = file[Owner[q]]
    /\ pc'[q] = pc[q] /\ purpose'[q] = purpose[q] /\ left'[q] = left[q]
    /\ board'[q] = board[q] /\ score'[q] = score[q] /\ name'[q] = name[q]
    /\ mine'[q] = mine[q] /\ verdict'[q] = verdict[q]

\* Then what is known of its file is as before.
LEMMA Standing ==
    ASSUME NEW q \in Procs, Progress(q), Unmoved(q)
    PROVE  Progress(q)'
BY DEF Progress, Unmoved, Seen, Room, Prepared, Written

\* A step of one process moves no other one, nor its file.
LEMMA OneMoves ==
    ASSUME TypeInv, Apart, NEW p \in Procs, NEW q \in Procs \ {p},
           Recording(p) \/ Playing(p) \/ Crash(p) \/ Restart(p)
    PROVE  Unmoved(q)
<1> USE DEF TypeInv, TypeOK, Unmoved
<1>1. Owner[q] # Owner[p]
  BY DEF Apart
<1>2. CASE GameEnds(p) \/ NameSubmitted(p) \/ NameSkipped(p)
  BY <1>2 DEF GameEnds, NameSubmitted, NameSkipped, Loads
<1>3. CASE NextGame(p) \/ Crash(p) \/ Restart(p)
  BY <1>3 DEF NextGame, Crash, Restart, Forgets
<1>4. CASE LoadReads(p) \/ NameAsked(p) \/ OwnRead(p) \/ BoardShown(p)
  BY <1>4 DEF LoadReads, NameAsked, OwnRead, BoardShown
<1>5. CASE RecordCompared(p) \/ RankTold(p)
  BY <1>5 DEF RecordCompared, RankTold, Loads, Says
<1>6. CASE TmpCreated(p)
  BY <1>6 DEF TmpCreated, WriteFails, Loads, Says
<1>7. CASE TmpRenamed(p)
  BY <1>1, <1>7 DEF TmpRenamed, WriteFails, Loads, Says
<1>8. QED
  BY <1>2, <1>3, <1>4, <1>5, <1>6, <1>7 DEF Recording, Playing

\* Fewer names reach a score on the lower of two boards.
LEMMA FewerAtLeast ==
    ASSUME NEW f \in Files, NEW g \in Files, \A n \in Names : f[n] <= g[n],
           NEW s \in Scores
    PROVE  /\ Cardinality(AtLeast(f, s)) \in Nat
           /\ Cardinality(AtLeast(g, s)) \in Nat
           /\ Cardinality(AtLeast(f, s)) <= Cardinality(AtLeast(g, s))
<1>1. AtLeast(f, s) \in SUBSET AtLeast(g, s)
  BY DEF AtLeast, Files, Scores
<1>2. IsFiniteSet(AtLeast(g, s)) /\ IsFiniteSet(AtLeast(f, s))
  BY FS_Subset DEF AtLeast
<1>3. Cardinality(AtLeast(f, s)) <= Cardinality(AtLeast(g, s))
  BY <1>1, <1>2, FS_Subset
<1>4. QED  BY <1>2, <1>3, FS_CardinalityType

\* A score there is room for is not cut when the file is cut to Keep names.
LEMMA NewIsKept ==
    ASSUME NEW f \in Files, NEW n \in Names, NEW s \in Scores, s > 0,
           Cardinality(AtLeast(f, s)) < Top,
           NEW g \in Kept([f EXCEPT ![n] = s])
    PROVE  g[n] = s
<1> DEFINE new == [f EXCEPT ![n] = s]
<1> SUFFICES ASSUME g[n] # s  PROVE FALSE
  OBVIOUS
<1>1. new \in Files /\ g \in Files /\ new[n] = s
  BY DEF Files, Kept
<1>2. g[n] = 0 /\ g # new
  BY <1>1 DEF Kept
<1>3. Cardinality(AtLeast(g, 1)) = Keep
  BY <1>2 DEF Kept
<1>4. AtLeast(g, 1) \in SUBSET AtLeast(f, s)
  <2> SUFFICES ASSUME NEW m \in Names, g[m] >= 1  PROVE f[m] >= s
    BY DEF AtLeast
  <2>1. m # n
    BY <1>2
  <2>2. g[m] > 0
    BY <1>1 DEF Files, Scores
  <2>3. new[m] >= new[n]
    BY <1>1, <1>2, <2>2 DEF Kept
  <2>4. new[m] = f[m]
    BY <2>1 DEF Files
  <2>5. QED  BY <1>1, <2>3, <2>4
<1>5. IsFiniteSet(AtLeast(f, s))
  BY FS_Subset DEF AtLeast
<1>6. /\ Cardinality(AtLeast(g, 1)) <= Cardinality(AtLeast(f, s))
      /\ Cardinality(AtLeast(f, s)) \in Nat
  BY <1>4, <1>5, FS_Subset, FS_CardinalityType
<1>7. QED  BY <1>3, <1>6

\* A failed write leaves the file, and says so.
LEMMA FailsProgress ==
    ASSUME TypeInv, NEW p \in Procs, Progress(p), WriteFails(p)
    PROVE  Progress(p)'
BY DEF TypeInv, TypeOK, WriteFails, Says, Loads, Progress, Seen

\* What a process does by itself takes it from one point to the next.
LEMMA RecordingProgress ==
    ASSUME TypeInv, TypeInv', NEW p \in Procs, Progress(p), Recording(p)
    PROVE  Progress(p)'
<1> USE DEF TypeInv, TypeOK
<1>1. /\ Owner[p] \in Accounts
      /\ file[Owner[p]] \in Files /\ board[p] \in Files /\ mine[p] \in Files
      /\ score[p] \in Scores /\ name[p] \in Names
  OBVIOUS
<1>2. CASE LoadReads(p)
  <2>1. PICK a \in left[p] : /\ left' = [left EXCEPT ![p] = @ \ {a}]
                             /\ board' = [board EXCEPT ![p] = Merge(@, file[a])]
    BY <1>2 DEF LoadReads
  <2>2. \A n \in Names : /\ board'[p][n] >= board[p][n]
                         /\ board'[p][n] >= file[a][n]
    BY <2>1, Merging
  <2>3. Seen(p)
    BY <1>2 DEF Progress, LoadReads
  <2>4. Seen(p)'
    <3> SUFFICES ASSUME Owner[p] \notin left'[p], NEW n \in Names
                 PROVE  board'[p][n] >= file[Owner[p]][n]
      BY <1>2 DEF Seen, LoadReads
    <3>1. CASE Owner[p] = a
      BY <2>2, <3>1
    <3>2. CASE Owner[p] # a
      <4>1. Owner[p] \notin left[p]
        BY <2>1, <3>2
      <4>2. board[p][n] >= file[Owner[p]][n]
        BY <2>3, <4>1 DEF Seen
      <4>3. QED  BY <1>1, <2>2, <4>2 DEF Files, Scores
    <3>3. QED  BY <3>1, <3>2
  <2>5. QED  BY <1>2, <2>4 DEF Progress, LoadReads, Room, Prepared, Written
<1>3. CASE NameAsked(p)
  <2>1. \A n \in Names : file[Owner[p]][n] <= board[p][n]
    BY <1>1, <1>3 DEF NameAsked, LoadedFor, Progress, Seen, Files, Scores
  <2>2. Qualifies(board[p], score[p]) => Room(p)
    <3> DEFINE held == Cardinality(AtLeast(file[Owner[p]], score[p]))
               shown == Cardinality(AtLeast(board[p], score[p]))
    <3>1. held \in Nat /\ shown \in Nat /\ held <= shown
      BY <1>1, <2>1, FewerAtLeast
    <3>2. shown < Top => held < Top
      BY <3>1
    <3>3. QED  BY <3>2 DEF Qualifies, Room
  <2>3. QED
    BY <1>3, <2>2 DEF NameAsked, LoadedFor, Progress, Room, Written
<1>4. CASE RecordCompared(p)
  <2>1. CASE Says(p, "notHigher") /\ Loads(p, "show")
    BY <1>4, <2>1 DEF RecordCompared, Says, Loads, Progress, Seen
  <2>2. CASE /\ board[p][name[p]] < score[p]
             /\ pc' = [pc EXCEPT ![p] = "own"]
             /\ UNCHANGED <<purpose, left, board, verdict>>
    <3>1. score[p] > file[Owner[p]][name[p]]
      BY <1>1, <1>4, <2>2 DEF RecordCompared, LoadedFor, Progress, Seen, Files, Scores
    <3>2. QED
      BY <1>4, <2>2, <3>1 DEF RecordCompared, LoadedFor, Progress, Room
  <2>3. QED  BY <1>4, <2>1, <2>2 DEF RecordCompared
<1>5. CASE OwnRead(p)
  <2>1. mine'[p] \in Kept([file[Owner[p]] EXCEPT ![name[p]] = score[p]])
    BY <1>5 DEF OwnRead
  <2>2. score[p] > file[Owner[p]][name[p]] /\ Room(p)
    BY <1>5 DEF OwnRead, Progress
  <2>3. mine'[p][name[p]] = score[p]
    BY <1>1, <2>1, <2>2, NewIsKept DEF Room
  <2>4. Prepared(p)'
    BY <1>5, <2>1, <2>2, <2>3 DEF Prepared, OwnRead
  <2>5. QED  BY <1>5, <2>4 DEF OwnRead, Progress
<1>6. CASE TmpCreated(p)
  <2>1. CASE pc' = [pc EXCEPT ![p] = "rename"] /\ UNCHANGED <<file, litter, purpose, left,
               board, score, name, mine, verdict, crashes>>
    BY <1>6, <2>1 DEF TmpCreated, Progress, Prepared
  <2>2. QED  BY <1>6, <2>1, FailsProgress DEF TmpCreated
<1>7. CASE TmpRenamed(p)
  <2>1. CASE /\ file' = [file EXCEPT ![Owner[p]] = mine[p]]
             /\ mine' = [mine EXCEPT ![p] = Empty]
             /\ Loads(p, "rank")
             /\ UNCHANGED <<litter, score, name, verdict, crashes>>
    <3>1. Prepared(p) /\ verdict[p] \notin {"recorded", "unranked"}
      BY <1>7 DEF TmpRenamed, Progress
    <3>2. file'[Owner[p]] = mine[p] /\ score[p] > 0
      BY <1>1, <2>1, <3>1 DEF Prepared, Files, Scores
    <3>3. Written(p)'
      BY <2>1, <3>1, <3>2 DEF Prepared, Written
    <3>4. Seen(p)'
      BY <1>1, <2>1 DEF Seen, Loads
    <3>5. QED  BY <2>1, <3>1, <3>3, <3>4 DEF Progress, Loads
  <2>2. QED  BY <1>7, <2>1, FailsProgress DEF TmpRenamed
<1>8. CASE RankTold(p)
  <2>1. Written(p) /\ board[p][name[p]] >= file[Owner[p]][name[p]]
    BY <1>1, <1>8 DEF RankTold, LoadedFor, Progress, Seen
  <2>2. board[p][name[p]] > 0
    BY <1>1, <2>1 DEF Written, Files, Scores
  <2>3. verdict'[p] = "recorded"
    BY <1>8, <2>2 DEF RankTold, Says
  <2>4. Written(p)' /\ Seen(p)'
    BY <1>1, <1>8, <2>1 DEF RankTold, Written, Seen, Loads
  <2>5. QED  BY <1>8, <2>3, <2>4 DEF RankTold, Progress, Loads
<1>9. CASE BoardShown(p)
  BY <1>9 DEF BoardShown, LoadedFor, Progress, Written
<1>10. QED
  BY <1>2, <1>3, <1>4, <1>5, <1>6, <1>7, <1>8, <1>9 DEF Recording

\* So does what its player does, and being killed.
LEMMA PlayingProgress ==
    ASSUME TypeInv, NEW p \in Procs, Progress(p), Playing(p) \/ Crash(p) \/ Restart(p)
    PROVE  Progress(p)'
<1> USE DEF TypeInv, TypeOK
<1>1. Owner[p] \in Accounts
  OBVIOUS
<1>2. CASE GameEnds(p)
  BY <1>1, <1>2 DEF GameEnds, Loads, Progress, Seen
<1>3. CASE NameSubmitted(p)
  BY <1>1, <1>3 DEF NameSubmitted, Loads, Progress, Seen, Room
<1>4. CASE NameSkipped(p)
  BY <1>4 DEF NameSkipped, Progress
<1>5. CASE NextGame(p) \/ Crash(p)
  BY <1>5 DEF NextGame, Crash, Forgets, Progress
<1>6. CASE Restart(p)
  BY <1>6 DEF Restart, Progress
<1>7. QED  BY <1>2, <1>3, <1>4, <1>5, <1>6 DEF Playing

\* Every step keeps what is known of every process's file.
LEMMA BoardPreserved == Apart /\ BoardInv /\ [Next]_vars => BoardInv'
<1> SUFFICES ASSUME Apart, BoardInv, [Next]_vars  PROVE BoardInv'
  OBVIOUS
<1>1. TypeInv'
  BY TypePreserved DEF BoardInv
<1>2. ASSUME NEW p \in Procs, Recording(p) \/ Playing(p) \/ Crash(p) \/ Restart(p),
             NEW q \in Procs
      PROVE  Progress(q)'
  <2>1. CASE q = p
    BY <1>1, <1>2, <2>1, RecordingProgress, PlayingProgress DEF BoardInv
  <2>2. CASE q # p
    BY <1>2, <2>2, OneMoves, Standing DEF BoardInv
  <2>3. QED  BY <2>1, <2>2
<1>3. ASSUME UNCHANGED vars, NEW q \in Procs  PROVE Progress(q)'
  BY <1>3, Standing DEF BoardInv, Unmoved, vars
<1>4. QED  BY <1>1, <1>2, <1>3 DEF Next, BoardInv

\* At the start nobody has recorded anything.
LEMMA BoardInit == Init => BoardInv
BY TypeInit DEF Init, BoardInv, Progress

\* Where every process has an account of its own, a record that was told as one
\* is in the account's file for as long as it is told, whatever the others
\* record and whoever is killed; and no one is told of a rank that is not there.
THEOREM RecordsStay == ASSUME Apart PROVE Spec => []RecordedStays
<1>1. BoardInv => RecordedStays
  <2> SUFFICES ASSUME BoardInv, NEW p \in Procs, verdict[p] = "recorded"
               PROVE  file[Owner[p]][name[p]] >= score[p]
    BY DEF RecordedStays, BoardInv, Progress
  <2>1. Written(p) /\ score[p] \in Nat
    BY DEF BoardInv, Progress, TypeInv, TypeOK, Scores
  <2>2. QED  BY <2>1 DEF Written
<1>2. QED  BY <1>1, BoardInit, BoardPreserved, PTL DEF Spec
-----------------------------------------------------------------------------
(* The ranks *)

\* A file that is replaced by one cut to the highest Keep names, with one name
\* put higher: the names that reach a score are as many as before, or Keep.
LEMMA RanksAfterWrite ==
    ASSUME TypeOK, NEW p \in Procs, NEW n \in Names, NEW s \in Scores,
           s > file[Owner[p]][n],
           NEW g \in Kept([file[Owner[p]] EXCEPT ![n] = s]),
           file' = [file EXCEPT ![Owner[p]] = g], NEW r \in Scores
    PROVE  Ranks(r)' >= Ranks(r)
<1> DEFINE f == file[Owner[p]]
           new == [f EXCEPT ![n] = s]
           before == {m \in Names : Holds(m, r)}
           after == {m \in Names : Holds(m, r)'}
<1>1. /\ f \in Files /\ new \in Files /\ g \in Files
      /\ \A m \in Names : new[m] >= f[m]
      /\ Owner[p] \in Accounts /\ file'[Owner[p]] = g
  BY DEF TypeOK, Files, Scores, Kept
<1>2. IsFiniteSet(before) /\ IsFiniteSet(after)
  BY FS_Subset
<1>3. Cardinality(before) \in Nat /\ Cardinality(after) \in Nat
  BY <1>2, FS_CardinalityType
<1>4. CASE before \subseteq after
  <2>1. Cardinality(before) <= Cardinality(after)
    BY <1>2, <1>4, FS_Subset
  <2>2. QED  BY <1>3, <2>1 DEF Ranks
<1>5. CASE ~(before \subseteq after)
  <2>1. PICK m \in Names : Holds(m, r) /\ ~Holds(m, r)'
    BY <1>5
  <2>2. PICK a \in Accounts : file[a][m] >= r
    BY <2>1 DEF Holds
  <2>3. a = Owner[p]
    BY <2>1, <2>2 DEF Holds, TypeOK
  <2>4. new[m] >= r
    BY <1>1, <2>2, <2>3 DEF Files, Scores
  <2>5. ~(g[m] >= r)
    BY <1>1, <2>1 DEF Holds
  <2>6. g[m] # new[m]
    BY <2>4, <2>5
  <2>7. Cardinality(AtLeast(g, 1)) = Keep
    BY <2>6 DEF Kept
  <2>8. AtLeast(g, 1) \in SUBSET after
    <3> SUFFICES ASSUME NEW k \in Names, g[k] >= 1  PROVE Holds(k, r)'
      BY DEF AtLeast
    <3>1. g[k] > 0 /\ g[k] = new[k]
      BY <1>1 DEF Kept, Files, Scores
    <3>2. new[k] >= new[m]
      BY <2>6, <3>1 DEF Kept
    <3>3. g[k] >= r
      BY <1>1, <2>4, <3>1, <3>2 DEF Files, Scores
    <3>4. QED  BY <1>1, <3>3 DEF Holds
  <2>9. Keep <= Cardinality(after)
    BY <1>2, <2>7, <2>8, FS_Subset
  <2>10. QED  BY <1>3, <2>9 DEF Ranks
<1>6. QED  BY <1>4, <1>5

\* Where every process has an account of its own, no step of any process makes
\* a rank of the board lower: not a record, a name that is cut, a write that
\* fails, or a kill.
THEOREM RanksStay == ASSUME Apart PROVE Spec => RanksNeverDrop
<1>1. BoardInv /\ [Next]_vars => [\A s \in Scores : Ranks(s)' >= Ranks(s)]_vars
  <2> SUFFICES ASSUME BoardInv, [Next]_vars, NEW s \in Scores
               PROVE  Ranks(s)' >= Ranks(s)
    OBVIOUS
  <2>1. CASE UNCHANGED file
    <3>1. Ranks(s)' = Ranks(s)
      BY <2>1 DEF Ranks, Holds
    <3>2. Ranks(s) \in Nat
      <4>1. IsFiniteSet({n \in Names : Holds(n, s)})
        BY FS_Subset
      <4>2. QED  BY <4>1, FS_CardinalityType DEF Ranks
    <3>3. QED  BY <3>1, <3>2
  <2>2. ASSUME NEW p \in Procs, TmpRenamed(p)  PROVE Ranks(s)' >= Ranks(s)
    <3>1. CASE file' = [file EXCEPT ![Owner[p]] = mine[p]]
      <4>1. Prepared(p)
        BY <2>2 DEF BoardInv, Progress, TmpRenamed
      <4>2. TypeOK /\ name[p] \in Names /\ score[p] \in Scores
        BY DEF BoardInv, TypeInv, TypeOK
      <4>3. QED  BY <3>1, <4>1, <4>2, RanksAfterWrite DEF Prepared
    <3>2. QED  BY <2>1, <2>2, <3>1 DEF TmpRenamed, WriteFails
  <2>3. QED
    BY <2>1, <2>2 DEF Next, Recording, Playing, GameEnds, NameSubmitted, NameSkipped,
       NextGame, LoadReads, NameAsked, RecordCompared, OwnRead, TmpCreated, WriteFails,
       RankTold, BoardShown, Crash, Restart, vars
<1>2. QED
  BY <1>1, BoardInit, BoardPreserved, PTL DEF Spec, RanksNeverDrop

-----------------------------------------------------------------------------
(* The field of the game: how far behind the last obstacle the next one comes *)

HIDE SizesAssumption
HIDE NamesAssumption
HIDE OwnerAssumption

\* The terminals the game runs on, the lengths of its field in dots, its speeds.
Wide == {c \in Int : c >= 48}
Long == 76..248
Speeds == 6000..13000

\* A terminal's field is never longer than the widest window, nor empty.
LEMMA FieldLength ==
    ASSUME NEW c \in Wide
    PROVE  Game!Field(c) \in Long
BY DEF Wide, Long, Game!Field, Game!Smaller

Obstacle == [x : Int, kind : Game!Kinds, size : 1..3, gap : Int]

\* An obstacle is three units wide at most.
LEMMA WidthOf ==
    ASSUME NEW o \in Obstacle
    PROVE  Game!Width(o) \in Nat /\ Game!Width(o) <= 138000 /\ Game!Edge(o) = o.x + Game!Width(o)
<1>1. PICK u : u = Game!UnitWidth(o.kind)
    OBVIOUS
<1>2. u \in {9, 13, 23}
    <2>1. o.kind \in {"small", "large", "low bird", "bird", "high bird"}
        BY DEF Obstacle, Game!Kinds
    <2> QED BY <1>1, <2>1 DEF Game!UnitWidth
<1>3. PICK n \in {1, 2, 3} : n = o.size
    BY DEF Obstacle
<1>4. Game!Width(o) = n * u * 2000
    BY <1>1, <1>3 DEF Game!Width, Game!Dot
<1>5. Game!Width(o) \in Nat /\ Game!Width(o) <= 138000
    <2>1. n * u \in Nat /\ n * u <= 69
        BY <1>2, <1>3
    <2> QED BY <1>4, <2>1
<1> QED BY <1>5 DEF Game!Edge

\* What was drawn with an obstacle is long enough for a jump at the speed then; it
\* has moved as far as the least speed takes it while the speed rose.
CameAt(o, s, v) ==
    /\ s \in 6000..v
    /\ o.gap >= Game!JumpGap(s)
    /\ o.x + (v - s) * 6000 <= Game!Field(columns) * Game!Dot

Came(o, v) == \E s : CameAt(o, s, v)

FieldInv ==
    /\ columns \in Wide /\ count \in Nat
    /\ speed \in Speeds
    /\ obstacles \in Seq(Obstacle)
    /\ \A i \in DOMAIN obstacles : Came(obstacles[i], speed)

\* The field that a frame begins with, and what of it goes on.
Ahead(o, s) == [o EXCEPT !.x = @ - s]
To(s) == [i \in DOMAIN obstacles |-> Ahead(obstacles[i], s)]
On(s) == {i \in DOMAIN obstacles : Game!Edge(To(s)[i]) > -4 * Game!Dot}

\* A game begins with an empty field.
LEMMA InitField == DinoAssumption /\ Game!Init => FieldInv
<1> SUFFICES ASSUME Game!Init PROVE FieldInv
    OBVIOUS
<1>1. PICK s \in Starts : columns = s.columns /\ speed = s.speed
    BY DEF Game!Init
<1>2. columns \in Wide /\ speed \in Speeds
    <2>1. s.columns \in Nat /\ s.columns >= 48 /\ s.speed \in 6000..13000
        BY DinoAssumption, SMTT(30) DEF Game!DinoBounds
    <2> QED BY <1>1, <2>1, SMTT(30) DEF Wide, Speeds
<1>3. obstacles = << >> /\ count = 0
    BY DEF Game!Init
<1> QED BY <1>2, <1>3 DEF FieldInv

\* Sets have as many members there as here.
LEMMA CountsOfGame == ASSUME NEW S PROVE Game!Cardinality(S) = Cardinality(S)
BY DEF Game!Cardinality, Cardinality

\* Those that go on keep their order, one place each; the last is the last if it
\* is one of them.
LEMMA MovedIs ==
    ASSUME FieldInv, NEW s \in Int
    PROVE  /\ Game!Moved(s) \in Seq(Obstacle)
           /\ Len(Game!Moved(s)) = Cardinality(On(s))
           /\ \A k \in DOMAIN Game!Moved(s) : \E i \in On(s) :
                /\ i \in DOMAIN obstacles
                /\ Game!Moved(s)[k] = Ahead(obstacles[i], s)
           /\ Len(obstacles) \in On(s) =>
                /\ Game!Moved(s) # << >>
                /\ Game!Moved(s)[Len(Game!Moved(s))]
                     = Ahead(obstacles[Len(obstacles)], s)
<1> DEFINE N == Len(obstacles)
           R == {ij \in On(s) \X On(s) : ij[1] < ij[2]}
           C == Cardinality(On(s))
           At(i, k) == Game!Cardinality({j \in On(s) : j < i}) + 1 = k
           From(k) == CHOOSE i \in On(s) : At(i, k)
<1>1. N \in Nat /\ DOMAIN obstacles = 1..N /\ On(s) \subseteq 1..N
    BY DEF FieldInv, On
<1>2. IsFiniteSet(On(s))
    <2>1. IsFiniteSet(1..N)
        BY <1>1, FS_Interval, 1 \in Int
    <2> QED BY <1>1, <2>1, FS_Subset
<1>3. \A i, j \in On(s) : <<i, j>> \in R <=> i < j
    OBVIOUS
<1>4. /\ C \in Nat
      /\ \A i \in On(s) : RankIn(On(s), R, i) \in 1..C
      /\ \A i, j \in On(s) : RankIn(On(s), R, i) = RankIn(On(s), R, j) => i = j
      /\ \A k \in 1..C : \E i \in On(s) : RankIn(On(s), R, i) = k
    <2>1. \A i \in On(s) : <<i, i>> \notin R
        BY <1>1, <1>3
    <2>2. \A i, j \in On(s) : i # j => <<i, j>> \in R \/ <<j, i>> \in R
        BY <1>1, <1>3
    <2>3. \A i, j, k \in On(s) : <<i, j>> \in R /\ <<j, k>> \in R => <<i, k>> \in R
        BY <1>1, <1>3
    <2> HIDE DEF R
    <2> QED BY <1>2, <2>1, <2>2, <2>3, RankOnto
<1>5. \A i \in On(s) : \A k : At(i, k) <=> RankIn(On(s), R, i) = k
    <2> TAKE i \in On(s)
    <2>1. {j \in On(s) : j < i} = {j \in On(s) : <<j, i>> \in R}
        BY <1>3
    <2>2. Game!Cardinality({j \in On(s) : j < i}) = Cardinality({j \in On(s) : <<j, i>> \in R})
        BY <2>1, CountsOfGame, Zenon
    <2> HIDE DEF R
    <2> QED BY <2>2 DEF RankIn
<1>6. Game!Moved(s) = [k \in 1..C |-> To(s)[From(k)]]
    <2>1. Game!Moved(s) = [k \in 1..Game!Cardinality(On(s)) |-> To(s)[From(k)]]
        BY DEF Game!Moved, To, On, Ahead
    <2> HIDE DEF From
    <2> QED BY <2>1, CountsOfGame
<1> HIDE DEF R, C, At
<1>7. \A k \in 1..C : From(k) \in On(s) /\ At(From(k), k)
    <2> TAKE k \in 1..C
    <2>1. \E i \in On(s) : At(i, k)
        BY <1>4, <1>5
    <2> QED BY <2>1
<1> HIDE DEF From
<1>8. ASSUME NEW i \in On(s)
      PROVE  /\ To(s)[i] = Ahead(obstacles[i], s) /\ To(s)[i] \in Obstacle
             /\ i \in DOMAIN obstacles
    <2>1. i \in DOMAIN obstacles /\ To(s)[i] = Ahead(obstacles[i], s)
        BY DEF On, To
    <2>2. obstacles[i] \in Obstacle
        BY <2>1 DEF FieldInv
    <2> QED BY <2>1, <2>2 DEF Obstacle, Ahead
<1>9. Game!Moved(s) \in Seq(Obstacle) /\ Len(Game!Moved(s)) = C /\ DOMAIN Game!Moved(s) = 1..C
    <2>1. Game!Moved(s) \in [1..C -> Obstacle]
        BY <1>6, <1>7, <1>8
    <2> QED BY <1>4, <2>1
<1>10. \A k \in 1..C : From(k) \in On(s)
                       /\ Game!Moved(s)[k] = Ahead(obstacles[From(k)], s)
    BY <1>6, <1>7, <1>8
<1>11. ASSUME N \in On(s)
       PROVE  C \in 1..C /\ From(C) = N
    <2>1. \A i \in On(s) : i # N => <<i, N>> \in R
        BY <1>1, <1>3, <1>11
    <2>2. PICK m \in On(s) : RankIn(On(s), R, m) = C
        <3>1. C \in 1..C
            <4>1. RankIn(On(s), R, N) \in 1..C
                BY <1>4, <1>11
            <4> QED BY <1>4, <4>1
        <3> QED BY <1>4, <3>1
    <2>3. m = N
        <3> SUFFICES ASSUME m # N PROVE FALSE
            OBVIOUS
        <3>1. <<m, N>> \in R
            BY <2>1
        <3>2. {j \in On(s) : <<j, m>> \in R} \cup {m} \subseteq {j \in On(s) : <<j, N>> \in R}
            <4>1. \A j \in On(s) : <<j, m>> \in R => <<j, N>> \in R
                BY <1>1, <1>3, <1>11, <3>1
            <4> QED BY <3>1, <4>1
        <3>3. <<m, m>> \notin R
            BY <1>1, <1>3
        <3>4. PICK A : A = {j \in On(s) : <<j, m>> \in R}
            OBVIOUS
        <3>5. PICK B : B = {j \in On(s) : <<j, N>> \in R}
            OBVIOUS
        <3>6. IsFiniteSet(A) /\ IsFiniteSet(B) /\ A \subseteq B /\ m \in B /\ m \notin A
            BY <1>2, <3>2, <3>3, <3>4, <3>5, FS_Subset
        <3>7. Cardinality(A) <= Cardinality(B) /\ (Cardinality(B) = Cardinality(A) => B = A)
            BY <3>6, FS_Subset
        <3>8. Cardinality(A) \in Nat /\ Cardinality(B) \in Nat
            BY <3>6, FS_CardinalityType
        <3>9. Cardinality(A) < Cardinality(B)
            BY <3>6, <3>7, <3>8
        <3>10. RankIn(On(s), R, N) > C
            BY <2>2, <3>4, <3>5, <3>8, <3>9 DEF RankIn
        <3> QED BY <1>4, <1>11, <3>10
    <2>4. C \in 1..C /\ RankIn(On(s), R, N) = C
        BY <1>4, <2>2, <2>3
    <2>5. RankIn(On(s), R, From(C)) = C /\ From(C) \in On(s)
        BY <1>5, <1>7, <2>4
    <2> QED BY <1>4, <1>11, <2>4, <2>5
<1>12. ASSUME N \in On(s)
       PROVE  /\ Game!Moved(s) # << >>
              /\ Game!Moved(s)[Len(Game!Moved(s))] = Ahead(obstacles[N], s)
    <2>1. C \in 1..C /\ Len(Game!Moved(s)) = C /\ From(C) = N
        BY <1>9, <1>11, <1>12
    <2> QED BY <1>9, <1>10, <2>1
<1> QED BY <1>8, <1>9, <1>10, <1>12 DEF C

\* One that moves on is as wide as it was.
LEMMA StepAhead ==
    ASSUME NEW o \in Obstacle, NEW s \in Int
    PROVE  LET m == Ahead(o, s)
           IN  m \in Obstacle /\ m.x = o.x - s /\ m.gap = o.gap /\ Game!Edge(m) = Game!Edge(o) - s
<1>1. PICK m : m = Ahead(o, s)
    OBVIOUS
<1>2. m \in Obstacle /\ m.x = o.x - s /\ m.gap = o.gap /\ m.kind = o.kind /\ m.size = o.size
    BY <1>1 DEF Obstacle, Ahead
<1>3. Game!Width(m) = Game!Width(o)
    BY <1>2 DEF Game!Width
<1>4. Game!Edge(m) = m.x + Game!Width(m) /\ Game!Edge(o) = o.x + Game!Width(o)
      /\ Game!Width(o) \in Nat /\ o.x \in Int
    BY WidthOf DEF Game!Edge, Obstacle
<1>5. Game!Edge(m) = Game!Edge(o) - s
    BY <1>2, <1>3, <1>4
<1> QED BY <1>1, <1>2, <1>5

Enough(g, s) == g \in Int /\ g >= Game!JumpGap(s)

\* A gap that is drawn is a jump at least.
LEMMA GapsAre ==
    ASSUME NEW k \in Game!Kinds, NEW n \in 1..3, NEW s \in Speeds, NEW g \in Game!Gaps(k, n, s)
    PROVE  Enough(g, s)
<1>1. Game!JumpGap(s) \in Int /\ s \in Int
    BY DEF Game!JumpGap, Speeds
<1>2. PICK own : own = 2 * n * Game!UnitWidth(k) * s
                         + (IF Game!Family(k) = "bird" THEN 90000 ELSE 72000)
    OBVIOUS
<1>3. own \in Int
    <2>1. PICK u \in Nat : u = Game!UnitWidth(k)
        BY DEF Game!UnitWidth
    <2>2. PICK m \in Int : m = 2 * n
        OBVIOUS
    <2>3. PICK mu \in Int : mu = m * u
        OBVIOUS
    <2>4. mu * s \in Int
        BY <1>1
    <2> QED BY <1>2, <2>1, <2>2, <2>3, <2>4
<1>4. g \in {Game!Greater(own, Game!JumpGap(s)), Game!Greater(own + own \div 2, Game!JumpGap(s))}
    BY <1>2 DEF Game!Gaps
<1> QED BY <1>1, <1>3, <1>4 DEF Game!Greater, Enough

Sped(v) == v \in Int /\ speed <= v /\ v <= speed + 1

\* A frame is as fast as the last one, or a thousandth faster.
LEMMA FrameSpeed ==
    ASSUME FieldInv, Game!Frame
    PROVE  speed' \in Speeds /\ Sped(speed')
<1>1. PICK u \in Int : u = speed /\ 6000 <= u /\ u <= 13000
    BY DEF FieldInv, Speeds
<1>2. speed' = Game!Smaller(u + 1, 13000)
    BY <1>1 DEF Game!Frame, Game!MaxSpeed
<1>3. PICK v \in Int : v = speed' /\ u <= v /\ v <= u + 1 /\ v <= 13000
    BY <1>1, <1>2 DEF Game!Smaller
<1> QED BY <1>1, <1>3 DEF Speeds, Sped

\* What goes on is as far from the right edge as its time on the field makes it.
LEMMA MovedCame ==
    ASSUME FieldInv
    PROVE  \A v \in Speeds : Sped(v) =>
             \A k \in DOMAIN Game!Moved(v) : Came(Game!Moved(v)[k], v)
<1> SUFFICES ASSUME NEW v \in Speeds, Sped(v), NEW k \in DOMAIN Game!Moved(v)
             PROVE  Came(Game!Moved(v)[k], v)
    OBVIOUS
<1>1. v \in Int /\ speed \in Int /\ speed <= v /\ v <= speed + 1 /\ columns \in Wide
    BY DEF FieldInv, Sped, Speeds
<1>2. PICK i \in On(v) : i \in DOMAIN obstacles /\ Game!Moved(v)[k] = Ahead(obstacles[i], v)
    BY <1>1, MovedIs
<1>3. PICK o \in Obstacle : o = obstacles[i]
    BY <1>2 DEF FieldInv
<1>4. PICK s : CameAt(o, s, speed)
    BY <1>2, <1>3 DEF FieldInv, Came
<1>5. PICK m : m = Game!Moved(v)[k]
    OBVIOUS
<1>6. m.x = o.x - v /\ m.gap = o.gap /\ o.x \in Int
    BY <1>1, <1>2, <1>3, <1>5, StepAhead DEF Obstacle
<1>7. /\ s \in 6000..speed
      /\ o.gap >= Game!JumpGap(s) /\ o.x + (speed - s) * 6000 <= Game!Field(columns) * Game!Dot
    BY <1>4 DEF CameAt
<1>8. PICK f \in Int : f = Game!Field(columns) * Game!Dot
    <2>1. Game!Field(columns) \in Int
        BY <1>1, FieldLength DEF Long
    <2> QED BY <2>1 DEF Game!Dot
<1>9. m.x + (v - s) * 6000 <= f
    BY <1>1, <1>6, <1>7, <1>8
<1>10. s \in 6000..v
    BY <1>1, <1>7
<1> QED BY <1>5, <1>6, <1>7, <1>8, <1>9, <1>10 DEF CameAt, Came

\* A frame leaves what goes on, or adds one at the right edge.
LEMMA FrameIs ==
    ASSUME FieldInv, Game!Frame
    PROVE  /\ columns' = columns
           /\ \/ obstacles' = Game!Moved(speed') /\ count' = count
              \/ /\ Game!Needed(Game!Moved(speed'))
                 /\ \E o \in Obstacle :
                        /\ obstacles' = Append(Game!Moved(speed'), o)
                        /\ o.x = Game!Field(columns) * Game!Dot
                        /\ o.gap >= Game!JumpGap(speed')
                 /\ count' \in Nat
<1>1. PICK v : v = speed'
    OBVIOUS
<1>2. v \in Speeds
    BY <1>1, FrameSpeed
<1>3. columns' = columns /\ count \in Nat /\ Game!Field(columns) * Game!Dot \in Int
    <2>1. Game!Field(columns) \in Int
        <3>1. columns \in Wide
            BY DEF FieldInv
        <3> QED BY <3>1, FieldLength DEF Long
    <2> QED BY <2>1 DEF Game!Frame, FieldInv, Game!Dot
<1>4. CASE obstacles' = Game!Moved(v) /\ count' = count
    BY <1>1, <1>3, <1>4
<1>5. CASE Game!Needed(Game!Moved(v)) /\ Game!Comes(Game!Moved(v), v)
    <2>1. PICK k \in Game!Drawn(v) : \E n \in Game!Sizes(k, v) : \E g \in Game!Gaps(k, n, v) :
            /\ obstacles' = Append(Game!Moved(v),
                    [x |-> Game!Field(columns) * Game!Dot, kind |-> k, size |-> n, gap |-> g])
            /\ count' = count + 1
        BY <1>5 DEF Game!Comes
    <2>2. PICK n \in Game!Sizes(k, v) : \E g \in Game!Gaps(k, n, v) :
            /\ obstacles' = Append(Game!Moved(v),
                    [x |-> Game!Field(columns) * Game!Dot, kind |-> k, size |-> n, gap |-> g])
            /\ count' = count + 1
        BY <2>1
    <2>3. PICK g \in Game!Gaps(k, n, v) :
            /\ obstacles' = Append(Game!Moved(v),
                    [x |-> Game!Field(columns) * Game!Dot, kind |-> k, size |-> n, gap |-> g])
            /\ count' = count + 1
        BY <2>2
    <2>4. k \in Game!Kinds
        BY DEF Game!Drawn, Game!Kinds
    <2>5. n \in 1..3
        BY DEF Game!Sizes
    <2>6. g \in Game!Gaps(k, n, v)
        OBVIOUS
    <2>7. Enough(g, v)
        BY <1>2, <2>4, <2>5, <2>6, GapsAre
    <2>8. g \in Int /\ g >= Game!JumpGap(v)
        BY <2>7 DEF Enough
    <2>9. PICK o : o = [x |-> Game!Field(columns) * Game!Dot, kind |-> k, size |-> n, gap |-> g]
        OBVIOUS
    <2>10. o \in Obstacle /\ o.x = Game!Field(columns) * Game!Dot /\ o.gap = g
        BY <1>3, <2>4, <2>5, <2>8, <2>9 DEF Obstacle
    <2>11. obstacles' = Append(Game!Moved(v), o)
        BY <2>3, <2>9, Zenon
    <2>12. count' \in Nat
        BY <1>3, <2>3
    <2> QED BY <1>1, <1>3, <1>5, <2>8, <2>10, <2>11, <2>12
<1>6. \/ obstacles' = Game!Moved(v) /\ count' = count
      \/ Game!Needed(Game!Moved(v)) /\ Game!Comes(Game!Moved(v), v)
    BY <1>1 DEF Game!Frame
<1> QED BY <1>4, <1>5, <1>6

\* Each frame keeps the gaps, and so does a key.
LEMMA StepField == FieldInv /\ [Game!Next]_Game!vars => FieldInv'
<1> SUFFICES ASSUME FieldInv, [Game!Next]_Game!vars PROVE FieldInv'
    OBVIOUS
<1>1. CASE Game!Frame
    <2>1. PICK v : v = speed'
        OBVIOUS
    <2>2. v \in Speeds /\ Sped(v) /\ v \in Int /\ v >= 6000
        <3>1. v \in Speeds /\ Sped(v)
            BY <1>1, <2>1, FrameSpeed
        <3> QED BY <3>1 DEF Speeds
    <2>3. Game!Moved(v) \in Seq(Obstacle)
        BY <2>2, MovedIs
    <2>4. \A k \in DOMAIN Game!Moved(v) : Came(Game!Moved(v)[k], v)
        BY <2>2, MovedCame
    <2>5. columns' = columns /\ columns \in Wide /\ count \in Nat
        BY <1>1, FrameIs DEF FieldInv
    <2>6. CASE obstacles' = Game!Moved(v) /\ count' = count
        BY <2>1, <2>2, <2>3, <2>4, <2>5, <2>6 DEF FieldInv, Came, CameAt
    <2>7. ASSUME NEW o \in Obstacle, obstacles' = Append(Game!Moved(v), o),
                 o.x = Game!Field(columns) * Game!Dot, o.gap >= Game!JumpGap(v), count' \in Nat
          PROVE  FieldInv'
        <3>1. PICK here \in Seq(Obstacle) : here = Game!Moved(v)
            BY <2>3
        <3>2. obstacles' \in Seq(Obstacle) /\ DOMAIN obstacles' = 1..(Len(here) + 1)
            BY <2>7, <3>1
        <3>3. CameAt(o, v, v)
            <4>1. PICK f \in Int : f = Game!Field(columns) * Game!Dot
                <5>1. Game!Field(columns) \in Int
                    BY <2>5, FieldLength DEF Long
                <5> QED BY <5>1 DEF Game!Dot
            <4>2. o.x + (v - v) * 6000 <= f
                BY <2>2, <2>7, <4>1
            <4> QED BY <2>2, <2>7, <4>1, <4>2 DEF CameAt
        <3>4. ASSUME NEW i \in DOMAIN obstacles' PROVE Came(obstacles'[i], v)
            <4>1. CASE i \in DOMAIN here
                <5>1. obstacles'[i] = here[i]
                    BY <2>7, <3>1, <4>1
                <5> QED BY <2>4, <3>1, <4>1, <5>1
            <4>2. CASE i \notin DOMAIN here
                <5>1. i = Len(here) + 1
                    BY <3>1, <3>2, <4>2
                <5>2. obstacles'[i] = o
                    BY <2>7, <3>1, <5>1
                <5> QED BY <3>3, <5>2 DEF Came
            <4> QED BY <4>1, <4>2
        <3>5. columns' \in Wide /\ count' \in Nat /\ speed' \in Speeds
            BY <2>1, <2>2, <2>5, <2>7
        <3>6. ASSUME NEW i \in DOMAIN obstacles' PROVE Came(obstacles[i], speed)'
            <4>1. PICK s : CameAt(obstacles'[i], s, v)
                BY <3>4 DEF Came
            <4>2. CameAt(obstacles[i], s, speed)'
                BY <2>1, <2>5, <4>1, SMTT(30) DEF CameAt
            <4> QED BY <2>1, <4>2 DEF Came
        <3> QED BY <3>2, <3>5, <3>6 DEF FieldInv
    <2> QED BY <1>1, <2>1, <2>6, <2>7, FrameIs
<1>2. CASE Game!Key \/ UNCHANGED Game!vars
    <2>1. /\ columns' = columns /\ speed' = speed
          /\ obstacles' = obstacles /\ count' = count
        BY <1>2 DEF Game!Key, Game!vars
    <2> QED BY <2>1 DEF FieldInv, Came, CameAt
<1> QED BY <1>1, <1>2 DEF Game!Next

-----------------------------------------------------------------------------
(* Landing to land *)

\* Speeds between which a field's length passes by.
Near(s, v) == s \in 6000..v /\ v - s <= 107

\* The length of a jump is a number.
LEMMA LengthIs == ASSUME NEW v \in Speeds PROVE Game!JumpLength(v) \in Int
<1>1. PICK t \in Int : t = Game!TakeOff(v)
    BY DEF Game!TakeOff, Speeds
<1>2. PICK l \in Int : l = 2 * t * v
    BY DEF Speeds
<1> QED BY <1>1, <1>2 DEF Game!JumpLength, Game!Gravity

\* A gap that was long enough for a jump when it was drawn is still long enough
\* for one when it has come in, though the field is faster then.
LEMMA StillEnough ==
    ASSUME NEW v \in Speeds, NEW s, Near(s, v)
    PROVE  Game!JumpGap(s) >= Game!JumpLength(v)
<1>1. v \in 6000..13000 /\ s \in 6000..v /\ v - s <= 107
    BY DEF Speeds, Near
<1>2. PICK t \in Int : t = Game!TakeOff(v)
    BY <1>1 DEF Game!TakeOff
<1>3. t <= 18984 /\ t >= 0
    BY <1>1, <1>2 DEF Game!TakeOff
<1>4. 2 * t * v <= 37968 * v /\ 2 * t * v \in Nat
    <2>1. \A a, b, c \in Nat : a <= b => a * c <= b * c
        <3> TAKE a, b, c \in Nat
        <3> HAVE a <= b
        <3>1. b * c = a * c + (b - a) * c /\ (b - a) * c >= 0
            OBVIOUS
        <3> QED BY <3>1
    <2>2. 2 * t \in Nat /\ 2 * t <= 37968 /\ v \in Nat /\ 37968 \in Nat
        BY <1>1, <1>3
    <2> QED BY <2>1, <2>2
<1>5. PICK l \in Int : l = 2 * t * v
    BY <1>4
<1>6. l \div 1097 <= (37968 * v) \div 1097
    <2>1. PICK m \in Int : m = 37968 * v
        BY <1>1
    <2>2. l <= m
        BY <1>4, <1>5, <2>1
    <2>3. l \div 1097 <= m \div 1097
        BY <1>5, <2>1, <2>2
    <2> QED BY <2>1, <2>3
<1>7. (40255 * s) \div 1000 >= (37968 * v) \div 1097
    BY <1>1
<1>8. Game!JumpLength(v) = l \div 1097
    BY <1>2, <1>5 DEF Game!JumpLength, Game!Gravity
<1>9. PICK a \in Int : a = (40255 * s) \div 1000
    BY <1>1
<1>10. PICK b \in Int : b = (37968 * v) \div 1097
    BY <1>1
<1>11. PICK c \in Int : c = l \div 1097
    BY <1>5
<1>12. a >= c
    BY <1>6, <1>7, <1>9, <1>10, <1>11
<1> QED BY <1>8, <1>9, <1>11, <1>12 DEF Game!JumpGap

\* The next one comes a jump behind the last, if the last is still there; if it has
\* left, the whole field is between them.
LEMMA LastHasRoom ==
    ASSUME FieldInv, Game!Frame, count' > count, obstacles # << >>
    PROVE  Game!Field(columns) * Game!Dot - (Game!Edge(obstacles[Len(obstacles)]) - speed')
             >= Game!Smaller(Game!JumpLength(speed'), (Game!Field(columns) + 4) * Game!Dot)
<1>1. PICK v : v = speed'
    OBVIOUS
<1>2. v \in Speeds /\ Sped(v) /\ v \in Int
    <2>1. v \in Speeds /\ Sped(v)
        BY <1>1, FrameSpeed
    <2> QED BY <2>1 DEF Speeds
<1>3. PICK F \in Int : F = Game!Field(columns) /\ 76 <= F /\ F <= 248
    <2>1. columns \in Wide
        BY DEF FieldInv
    <2> QED BY <2>1, FieldLength DEF Long
<1>4. PICK L \in DOMAIN obstacles : L = Len(obstacles)
    BY DEF FieldInv
<1>5. PICK o \in Obstacle : o = obstacles[L]
    BY <1>4 DEF FieldInv
<1>6. PICK e \in Int : e = Game!Edge(o)
    BY WidthOf DEF Obstacle
<1>7. Game!Needed(Game!Moved(v))
    <2>1. ~(count' = count)
        BY DEF FieldInv
    <2> QED BY <1>1, <2>1, FrameIs
<1>8. PICK m : m = Ahead(o, v)
    OBVIOUS
<1>9. m \in Obstacle /\ Game!Edge(m) = e - v
    BY <1>2, <1>6, <1>8, StepAhead
<1>10. L \in On(v) <=> e - v > -8000
    <2>1. To(v)[L] = m
        BY <1>5, <1>8 DEF To
    <2> QED BY <1>9, <2>1 DEF On, Game!Dot
<1>11. \A j \in Int :
            /\ j = Game!JumpLength(v)
            /\ F * 2000 - (e - v) >= j \/ F * 2000 - (e - v) >= (F + 4) * 2000
            => Game!Field(columns) * Game!Dot - (Game!Edge(obstacles[Len(obstacles)]) - speed')
                 >= Game!Smaller(Game!JumpLength(speed'), (Game!Field(columns) + 4) * Game!Dot)
    <2> TAKE j \in Int
    <2> HAVE /\ j = Game!JumpLength(v)
             /\ F * 2000 - (e - v) >= j \/ F * 2000 - (e - v) >= (F + 4) * 2000
    <2>1. Game!Edge(obstacles[Len(obstacles)]) = e /\ speed' = v
        BY <1>1, <1>4, <1>5, <1>6
    <2>2. F * 2000 - (e - v) >= Game!Smaller(j, (F + 4) * 2000)
        <3>1. PICK room \in Int : room = F * 2000 - (e - v)
            BY <1>2, <1>3, <1>6
        <3>2. PICK whole \in Int : whole = (F + 4) * 2000
            BY <1>3
        <3> QED BY <3>1, <3>2 DEF Game!Smaller
    <2> QED BY <1>3, <2>1, <2>2 DEF Game!Dot
<1>12. CASE L \notin On(v)
    <2>1. e - v <= -8000
        BY <1>2, <1>6, <1>10, <1>12
    <2>2. F * 2000 - (e - v) >= (F + 4) * 2000
        BY <1>2, <1>3, <1>6, <2>1
    <2>3. Game!JumpLength(v) \in Int
        BY <1>2, LengthIs
    <2> QED BY <1>11, <2>2, <2>3
<1>13. CASE L \in On(v)
    <2>1. PICK here \in Seq(Obstacle) : here = Game!Moved(v)
        BY <1>2, MovedIs
    <2>2. here # << >> /\ here[Len(here)] = m
        BY <1>2, <1>4, <1>5, <1>8, <1>13, <2>1, MovedIs
    <2>3. Game!Edge(m) + m.gap < F * 2000
        BY <1>3, <1>7, <2>1, <2>2 DEF Game!Needed, Game!Dot
    <2>4. PICK s : CameAt(m, s, v)
        <3>1. Len(here) \in DOMAIN here
            BY <2>1, <2>2
        <3>2. Len(here) \in DOMAIN Game!Moved(v) /\ Game!Moved(v)[Len(here)] = m
            BY <2>1, <2>2, <3>1
        <3>3. PICK k \in DOMAIN Game!Moved(v) : k = Len(here)
            BY <3>2
        <3>4. Came(Game!Moved(v)[k], v)
            BY <1>2, MovedCame
        <3> QED BY <3>2, <3>3, <3>4 DEF Came
    <2>5. s \in 6000..v /\ m.gap >= Game!JumpGap(s) /\ m.x + (v - s) * 6000 <= F * 2000
        BY <1>3, <2>4 DEF CameAt, Game!Dot
    <2>6. Game!Edge(m) = m.x + Game!Width(m) /\ Game!Width(m) \in Nat /\ Game!Width(m) <= 138000
        BY <1>9, WidthOf
    <2>7. m.x \in Int /\ m.gap \in Int
        BY <1>9 DEF Obstacle
    <2>8. v - s <= 107
        <3>1. PICK w \in Int : w = Game!Width(m) /\ w <= 138000
            BY <2>6
        <3>2. PICK x \in Int : x = m.x
            BY <2>7
        <3>3. x + w > -8000
            BY <1>9, <1>10, <1>13, <2>6, <3>1, <3>2
        <3>4. PICK d \in Int : d = v - s
            <4>1. s \in Int
                BY <1>2, <2>5
            <4> QED BY <1>2, <4>1
        <3>5. x + d * 6000 <= F * 2000
            BY <2>5, <3>2, <3>4
        <3>6. d <= 107
            BY <1>3, <3>1, <3>3, <3>5
        <3> QED BY <3>4, <3>6
    <2>9. Game!JumpGap(s) >= Game!JumpLength(v) /\ Game!JumpLength(v) \in Int
          /\ Game!JumpGap(s) \in Int
        <3>1. s \in Int /\ s \in 6000..v
            BY <1>2, <2>5
        <3>2. Game!JumpGap(s) \in Int
            BY <3>1 DEF Game!JumpGap
        <3>3. Game!JumpGap(s) >= Game!JumpLength(v) /\ Game!JumpLength(v) \in Int
            <4>1. Near(s, v)
                BY <1>2, <2>8, <3>1 DEF Near
            <4> QED BY <1>2, <4>1, StillEnough, LengthIs
        <3> QED BY <3>2, <3>3
    <2>10. F * 2000 - (e - v) >= Game!JumpLength(v)
        <3>1. PICK j \in Int : j = Game!JumpLength(v)
            BY <2>9
        <3>2. PICK h \in Int : h = Game!JumpGap(s) /\ h >= j
            BY <2>9, <3>1
        <3>3. PICK a \in Int : a = m.gap /\ a >= h
            BY <2>5, <2>7, <3>2
        <3>4. PICK d \in Int : d = e - v
            BY <1>2, <1>6
        <3>5. PICK f \in Int : f = F * 2000
            BY <1>3
        <3>6. d + a < f
            BY <1>9, <2>3, <3>3, <3>4, <3>5
        <3>7. f - d >= j
            BY <3>2, <3>3, <3>6
        <3> QED BY <3>1, <3>4, <3>5, <3>7
    <2> QED BY <1>11, <2>9, <2>10
<1> QED BY <1>12, <1>13

\* On whatever terminal, at whatever speed and after whatever obstacles: the next
\* comes no closer than a jump, or than the field is long.
THEOREM RoomIsLeft == GameSpec => RoomToLand
<1> DEFINE Landing == count' > count /\ obstacles # << >> =>
        Game!Field(columns) * Game!Dot - (Game!Edge(obstacles[Len(obstacles)]) - speed')
            >= Game!Smaller(Game!JumpLength(speed'), (Game!Field(columns) + 4) * Game!Dot)
<1>1. FieldInv /\ [Game!Next]_Game!vars => [Landing]_Game!vars
    <2> SUFFICES ASSUME FieldInv, Game!Next, count' > count, obstacles # << >>
                 PROVE  Landing
        BY DEF Game!vars
    <2>1. Game!Frame
        <3>1. ~Game!Key
            BY DEF Game!Key, FieldInv
        <3> QED BY <3>1 DEF Game!Next
    <2> QED BY <2>1, LastHasRoom
<1>2. GameInit => FieldInv
    BY DinoAssumption, InitField DEF GameInit
<1>3. [GameNext]_all => [Game!Next]_Game!vars
    BY DEF GameNext, FieldOver, all, fieldVars, Game!vars
<1>4. GameSpec => GameInit /\ [][GameNext]_all
    BY PTL DEF GameSpec
<1>5. GameSpec => [][Landing]_Game!vars
    <2> HIDE DEF Landing
    <2> QED BY <1>1, <1>2, <1>3, <1>4, StepField, PTL
<1> QED BY <1>5, PTL DEF RoomToLand, Game!RoomToLand
=============================================================================

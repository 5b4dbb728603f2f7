---------------------------- MODULE ForensicProofs ----------------------------
(***************************************************************************)
(* Proofs about Forensic, for every set of episodes and follow-ups, every  *)
(* number of crashes and every bound on time.                              *)
(***************************************************************************)
EXTENDS Forensic, TLAPS

USE ForensicAssumption

Turn == {Run} \cup Request

-----------------------------------------------------------------------------
(* Types.                                                                  *)

(* The handling places are those at which the trigger has taken an alert.  *)
Handling == Place \ {"down", "idle"}

(* An alert is being handled from the moment it is taken until its advance *)
(* has been written.                                                       *)
HandlesAlert == at \in Handling => ep \in Alerted

(* A follow-up that is under way has its case's record.                    *)
AskedIsRecorded ==
  \A f \in Request : req[f].at = "asked" => req[f].ep \in recorded

LEMMA InitType == Init => TypeOK
<1> SUFFICES ASSUME Init PROVE TypeOK
  OBVIOUS
<1>1. mem \in Cursor
  BY DEF Init, Cursor
<1>2. chats \in [Episode -> [Chat -> Seq(Turn)]]
  BY DEF Init, Turn
<1>3. req \in [Request -> [at: {"none", "asked", "done", "failed"},
                           ep: Episode \cup {None}, chat: Chat]]
  BY DEF Init, Chat
<1> QED
  BY <1>1, <1>2, <1>3 DEF Init, TypeOK, Place, Turn

LEMMA AppendedType ==
  ASSUME TypeOK, NEW e \in Episode, NEW c \in Chat, NEW turn \in Turn
  PROVE  /\ Appended(e, c, turn) \in [Episode -> [Chat -> Seq(Turn)]]
         /\ \A d \in Episode, k \in Chat :
              Appended(e, c, turn)[d][k] =
                IF d = e /\ k = c THEN Append(chats[d][k], turn)
                ELSE chats[d][k]
<1>1. chats \in [Episode -> [Chat -> Seq(Turn)]]
  BY DEF TypeOK, Turn
<1>2. Append(chats[e][c], turn) \in Seq(Turn)
  BY <1>1
<1> QED
  BY <1>1, <1>2 DEF Appended

LEMMA AppendedGrows ==
  ASSUME TypeOK, NEW e \in Episode, NEW c \in Chat, NEW turn \in Turn
  PROVE  /\ Appended(e, c, turn)[e][c] # <<>>
         /\ \A d \in Episode, k \in Chat :
              chats[d][k] # <<>> => Appended(e, c, turn)[d][k] # <<>>
<1>1. \A d \in Episode, k \in Chat : Append(chats[d][k], turn) # <<>>
  <2>1. \A d \in Episode, k \in Chat : chats[d][k] \in Seq(Turn)
    BY DEF TypeOK, Turn
  <2>2. ASSUME NEW s \in Seq(Turn) PROVE Append(s, turn) # <<>>
    OBVIOUS
  <2> QED BY <2>1, <2>2
<1>2. \A d \in Episode, k \in Chat :
        Appended(e, c, turn)[d][k] = IF d = e /\ k = c THEN Append(chats[d][k], turn)
                                     ELSE chats[d][k]
  BY AppendedType
<1>3. Appended(e, c, turn)[e][c] = Append(chats[e][c], turn)
  BY <1>2
<1>4. ASSUME NEW d \in Episode, NEW k \in Chat, chats[d][k] # <<>>
      PROVE  Appended(e, c, turn)[d][k] # <<>>
  <2>1. CASE d = e /\ k = c
    BY <1>1, <1>3, <2>1
  <2>2. CASE ~(d = e /\ k = c)
    BY <1>2, <1>4, <2>2
  <2> QED BY <2>1, <2>2
<1>5. Appended(e, c, turn)[e][c] # <<>>
  BY <1>1, <1>3
<1> QED
  BY <1>4, <1>5

LEMMA AdvancedType ==
  ASSUME TypeOK, NEW e \in Alerted
  PROVE  Advanced(mem, e) \in Cursor
<1>1. ledger[e] \in [ts: 1..MaxTime, co: SUBSET Episode] /\ e \in Episode
  BY DEF TypeOK, Alerted
<1>2. ledger[e].ts \in 1..MaxTime /\ mem.ts \in 0..MaxTime
  BY <1>1 DEF TypeOK, Cursor
<1>3. CASE ledger[e].ts > mem.ts
  BY <1>1, <1>2, <1>3 DEF Advanced, Cursor
<1>4. CASE ~(ledger[e].ts > mem.ts)
  BY <1>1, <1>4 DEF TypeOK, Advanced, Cursor
<1> QED
  BY <1>3, <1>4

LEMMA NextType ==
  ASSUME TypeOK, HandlesAlert, AskedIsRecorded, [Next]_vars
  PROVE  TypeOK'
<1> USE DEF TypeOK
<1>a. ep \in Alerted => ep \in Episode /\ ledger[ep] # None
  BY DEF Alerted
<1>1. CASE Pass
  BY <1>1 DEF Pass, cursorVars, caseVars, chatVars
<1>2. ASSUME NEW e \in Episode, NEW end \in 1..MaxTime, WriteLabel(e, end)
      PROVE  TypeOK'
  <2>1. [ep |-> e, end |-> end] \in Label
    BY DEF Label
  <2>2. labels' \subseteq Label
    BY <1>2, <2>1 DEF WriteLabel
  <2>3. UNCHANGED <<clock, ledger, at, batch, ep, fan, mem, disk, frozen, recorded,
                    reported, chats, torn, learnt, req, crashes>>
    BY <1>2 DEF WriteLabel, cursorVars, caseVars, chatVars
  <2> QED BY <2>2, <2>3
<1>3. ASSUME NEW row \in labels, Predict(row) PROVE TypeOK'
  <2>1. row.ep \in Episode /\ Record(row) \in [ts: 1..MaxTime, co: SUBSET Episode]
    BY DEF Label, Record, Active
  <2> QED BY <1>3, <2>1 DEF Predict, cursorVars, caseVars, chatVars
<1>4. CASE Start
  BY <1>4 DEF Start, Goto, Place, timeVars, caseVars, chatVars
<1>5. CASE Poll
  BY <1>5 DEF Poll, NewAlerts, timeVars, cursorVars, caseVars, chatVars
<1>6. ASSUME NEW e \in Episode, Take(e) PROVE TypeOK'
  BY <1>6 DEF Take, Goto, Place, timeVars, cursorVars, caseVars, chatVars
<1>7. CASE Freeze \/ WriteRecord \/ WriteReport
  <2>1. ep \in Episode
    BY <1>7, <1>a DEF Freeze, WriteRecord, WriteReport, Goto, HandlesAlert, Handling, Place
  <2> QED
    BY <1>7, <2>1 DEF Freeze, WriteRecord, WriteReport, Goto, Place, timeVars,
                      cursorVars, chatVars
<1>8. CASE Seed
  <2>1. ep \in Episode
    BY <1>8, <1>a DEF Seed, HandlesAlert, Handling, Place
  <2>2. Appended(ep, Initial, Run) \in [Episode -> [Chat -> Seq(Turn)]]
    BY <2>1, AppendedType DEF Chat, Turn
  <2> QED
    BY <1>8, <2>2 DEF Seed, AfterSeed, Place, Turn, timeVars, cursorVars, caseVars
<1>9. CASE Learn
  <2>1. ep \in Episode
    BY <1>9, <1>a DEF Learn, Goto, HandlesAlert, Handling, Place
  <2> QED
    BY <1>9, <2>1 DEF Learn, Goto, Place, timeVars, cursorVars, chatVars
<1>10. CASE FanOut
  <2>1. ledger[ep].co \subseteq Episode
    BY <1>10, <1>a DEF FanOut, HandlesAlert, Handling, Place
  <2> QED
    BY <1>10, <2>1 DEF FanOut, Place, timeVars, cursorVars, caseVars, chatVars
<1>11. ASSUME NEW c \in Episode, FaultChat(c) PROVE TypeOK'
  <2>1. ep \in Episode
    BY <1>11, <1>a DEF FaultChat, HandlesAlert, Handling, Place
  <2>2. Appended(ep, c, Run) \in [Episode -> [Chat -> Seq(Turn)]]
    BY <2>1, AppendedType DEF Chat, Turn
  <2> QED
    BY <1>11, <2>2 DEF FaultChat, Turn, timeVars, cursorVars, caseVars
<1>12. CASE MasterChat
  <2>1. ep \in Episode
    BY <1>12, <1>a DEF MasterChat, Goto, HandlesAlert, Handling, Place
  <2>2. Appended(ep, Master, Run) \in [Episode -> [Chat -> Seq(Turn)]]
    BY <2>1, AppendedType DEF Chat, Turn
  <2> QED
    BY <1>12, <2>2 DEF MasterChat, Goto, Place, Turn, timeVars, cursorVars, caseVars
<1>13. CASE Truncate
  <2>1. ep \in Alerted
    BY <1>13 DEF Truncate, Goto, HandlesAlert, Handling, Place
  <2>2. Advanced(mem, ep) \in Cursor
    BY <2>1, AdvancedType
  <2> QED
    BY <1>13, <2>2 DEF Truncate, Goto, Place, timeVars, caseVars, chatVars
<1>14. CASE Persist
  BY <1>14 DEF Persist, Goto, Place, timeVars, caseVars, chatVars
<1>15. CASE Crash
  <2>1. torn' \subseteq Episode \X Chat
    <3>1. Writing \subseteq Episode \X Chat
      <4>1. CASE at \in {"seed", "subs"}
        <5>1. ep \in Episode
          BY <4>1, <1>a DEF HandlesAlert, Handling, Place
        <5> QED BY <5>1 DEF Writing
      <4>2. CASE at \notin {"seed", "subs"}
        BY <4>2 DEF Writing
      <4> QED BY <4>1, <4>2
    <3> QED BY <3>1, <1>15 DEF Crash
  <2> QED
    BY <1>15, <2>1 DEF Crash, Place, timeVars, cursorVars, caseVars
<1>16. ASSUME NEW f \in Request, NEW e \in Episode, NEW c \in Chat, Ask(f, e, c)
       PROVE  TypeOK'
  BY <1>16 DEF Ask, timeVars, cursorVars, caseVars, chatVars
<1>17. ASSUME NEW f \in Request, Answer(f) PROVE TypeOK'
  <2>1. req[f].ep \in Episode /\ req[f].chat \in Chat
    BY <1>17 DEF Answer, AskedIsRecorded
  <2>2. Appended(req[f].ep, req[f].chat, f) \in [Episode -> [Chat -> Seq(Turn)]]
    BY <2>1, AppendedType DEF Turn
  <2> DEFINE Q == [at: {"none", "asked", "done", "failed"}, ep: Episode \cup {None},
                   chat: Chat]
  <2>3. req' \in [Request -> Q]
    <3>1. [req[f] EXCEPT !.at = "done"] \in Q
      <4>1. req[f] \in Q
        OBVIOUS
      <4>2. \A q \in Q : [q EXCEPT !.at = "done"] \in Q
        OBVIOUS
      <4> QED
        BY <4>1, <4>2
    <3>2. req' = [req EXCEPT ![f] = [req[f] EXCEPT !.at = "done"]]
      BY <1>17 DEF Answer
    <3>3. req \in [Request -> Q]
      OBVIOUS
    <3> HIDE DEF Q
    <3> QED BY <3>1, <3>2, <3>3
  <2>4. chats' \in [Episode -> [Chat -> Seq({Run} \cup Request)]]
    BY <1>17, <2>2 DEF Answer, Turn
  <2>5. UNCHANGED <<clock, labels, ledger, at, batch, ep, fan, mem, disk, frozen,
                    recorded, reported, torn, learnt, crashes>>
    BY <1>17 DEF Answer, timeVars, cursorVars, caseVars
  <2> QED
    BY <2>3, <2>4, <2>5
<1>18. CASE ApiCrash
  <2>1. torn' \subseteq Episode \X Chat
    <3>1. ASSUME NEW f \in Request, req[f].at = "asked"
          PROVE  <<req[f].ep, req[f].chat>> \in Episode \X Chat
      BY <3>1 DEF AskedIsRecorded
    <3> QED BY <3>1, <1>18 DEF ApiCrash
  <2>2. req' \in [Request -> [at: {"none", "asked", "done", "failed"},
                              ep: Episode \cup {None}, chat: Chat]]
    <3>1. ASSUME NEW f \in Request
          PROVE  [req[f] EXCEPT !.at = "failed"]
                   \in [at: {"none", "asked", "done", "failed"},
                        ep: Episode \cup {None}, chat: Chat]
      <4> DEFINE Q == [at: {"none", "asked", "done", "failed"},
                       ep: Episode \cup {None}, chat: Chat]
      <4>1. req[f] \in Q
        OBVIOUS
      <4>2. \A q \in Q : [q EXCEPT !.at = "failed"] \in Q
        OBVIOUS
      <4> QED
        BY <4>1, <4>2
    <3> QED BY <3>1, <1>18 DEF ApiCrash
  <2> QED
    BY <1>18, <2>1, <2>2 DEF ApiCrash, timeVars, cursorVars, caseVars
<1>19. CASE UNCHANGED vars
  BY <1>19 DEF vars, timeVars, cursorVars, caseVars, chatVars
<1> QED
  BY <1>1, <1>2, <1>3, <1>4, <1>5, <1>6, <1>7, <1>8, <1>9, <1>10, <1>11, <1>12,
     <1>13, <1>14, <1>15, <1>16, <1>17, <1>18, <1>19 DEF Next, Trigger

-----------------------------------------------------------------------------
(* What the files of a case hold, by the place of the trigger.             *)

FilesInv ==
  /\ HandlesAlert
  /\ AskedIsRecorded
  /\ recorded \subseteq frozen
  /\ reported \subseteq recorded
  /\ at \in Handling \ {"freeze"} => ep \in frozen
  /\ at \in Handling \ {"freeze", "record"} => ep \in recorded
  /\ at \in Handling \ {"freeze", "record", "report"} => ep \in reported
  /\ at \in {"learn", "fan", "subs", "truncate"} => chats[ep][Initial] # <<>>
  /\ at = "learn" => ledger[ep].co = {}
  /\ at = "truncate" => ledger[ep].co = {} \/ chats[ep][Master] # <<>>
  /\ batch \subseteq Alerted

(* Nothing is ever removed: files stay, chats grow, and the ledger keeps   *)
(* the first record of an episode.                                         *)
LEMMA FilesGrow ==
  ASSUME TypeOK, FilesInv, [Next]_vars
  PROVE  /\ frozen \subseteq frozen' /\ recorded \subseteq recorded'
         /\ reported \subseteq reported'
         /\ \A e \in Episode, c \in Chat :
              chats[e][c] # <<>> => chats'[e][c] # <<>>
         /\ \A e \in Episode : ledger[e] # None => ledger'[e] = ledger[e]
         /\ Alerted \subseteq Alerted'
<1>a. ASSUME NEW e \in Episode, NEW c \in Chat, NEW turn \in Turn,
             chats' = Appended(e, c, turn)
      PROVE  \A d \in Episode, k \in Chat :
               chats[d][k] # <<>> => chats'[d][k] # <<>>
  BY <1>a, AppendedGrows
<1>1. \A e \in Episode, c \in Chat : chats[e][c] # <<>> => chats'[e][c] # <<>>
  <2>1. CASE UNCHANGED chats
    BY <2>1
  <2>2. CASE Seed
    <3>1. ep \in Episode
      BY <2>2 DEF Seed, FilesInv, HandlesAlert, Handling, Place, Alerted, TypeOK
    <3> QED BY <2>1, <2>2, <3>1, <1>a DEF Seed, Chat, Turn
  <2>3. ASSUME NEW c \in Episode, FaultChat(c)
        PROVE  \A e \in Episode, k \in Chat : chats[e][k] # <<>> => chats'[e][k] # <<>>
    <3>1. ep \in Episode
      BY <2>3 DEF FaultChat, FilesInv, HandlesAlert, Handling, Place, Alerted, TypeOK
    <3> QED BY <2>3, <3>1, <1>a DEF FaultChat, Chat, Turn
  <2>4. CASE MasterChat
    <3>1. ep \in Episode
      BY <2>4 DEF MasterChat, Goto, FilesInv, HandlesAlert, Handling, Place, Alerted, TypeOK
    <3> QED BY <2>4, <3>1, <1>a DEF MasterChat, Chat, Turn
  <2>5. ASSUME NEW f \in Request, Answer(f)
        PROVE  \A e \in Episode, k \in Chat : chats[e][k] # <<>> => chats'[e][k] # <<>>
    <3>1. req[f].ep \in Episode /\ req[f].chat \in Chat
      BY <2>5 DEF Answer, FilesInv, AskedIsRecorded, TypeOK
    <3> QED BY <2>5, <3>1, <1>a DEF Answer, Turn
  <2>6. \/ UNCHANGED chats \/ Seed \/ (\E c \in Episode : FaultChat(c))
        \/ MasterChat \/ (\E f \in Request : Answer(f))
    BY DEF Next, Trigger, Pass, WriteLabel, Predict, Start, Poll, Take, Freeze,
           WriteRecord, WriteReport, Learn, FanOut, Truncate, Persist, Crash, Ask,
           ApiCrash, chatVars, vars
  <2> QED BY <2>1, <2>2, <2>3, <2>4, <2>5, <2>6
<1>2. frozen \subseteq frozen' /\ recorded \subseteq recorded' /\ reported \subseteq reported'
  BY DEF Next, Trigger, Pass, WriteLabel, Predict, Start, Poll, Take, Freeze,
         WriteRecord, WriteReport, Seed, Learn, FanOut, FaultChat, MasterChat,
         Truncate, Persist, Crash, Ask, Answer, ApiCrash, caseVars, vars
<1>3. \A e \in Episode : ledger[e] # None => ledger'[e] = ledger[e]
  <2>1. ASSUME NEW row \in labels, Predict(row)
        PROVE  \A e \in Episode : ledger[e] # None => ledger'[e] = ledger[e]
    BY <2>1 DEF Predict, TypeOK
  <2>2. UNCHANGED ledger \/ \E row \in labels : Predict(row)
    BY DEF Next, Trigger, Pass, WriteLabel, Start, Poll, Take, Freeze,
           WriteRecord, WriteReport, Seed, Learn, FanOut, FaultChat, MasterChat,
           Truncate, Persist, Crash, Ask, Answer, ApiCrash, timeVars, vars
  <2> QED BY <2>1, <2>2
<1> QED
  BY <1>1, <1>2, <1>3 DEF Alerted

LEMMA FilesInit == Init => FilesInv
BY DEF Init, FilesInv, HandlesAlert, AskedIsRecorded, Handling, Place, Alerted

LEMMA FilesNext ==
  ASSUME TypeOK, FilesInv, [Next]_vars
  PROVE  FilesInv'
<1> USE DEF FilesInv, HandlesAlert, AskedIsRecorded
<1> DEFINE Same == UNCHANGED <<at, ep, batch, caseVars>>
<1>a. at \in Handling => ep \in Episode /\ ledger[ep] # None
  BY DEF TypeOK, Alerted
<1>b. ASSUME Same, AskedIsRecorded' PROVE FilesInv'
  BY <1>a, <1>b, FilesGrow DEF TypeOK, Handling, Place, Chat, caseVars
<1>1. CASE Pass \/ UNCHANGED vars
  BY <1>1, <1>b DEF Pass, vars, caseVars
<1>2. ASSUME NEW e \in Episode, NEW end \in 1..MaxTime, WriteLabel(e, end)
      PROVE  FilesInv'
  BY <1>2, <1>b DEF WriteLabel, caseVars
<1>3. ASSUME NEW row \in labels, Predict(row) PROVE FilesInv'
  BY <1>3, <1>b DEF Predict, caseVars
<1>4. CASE Start
  BY <1>4 DEF Start, Goto, Handling, Place, Alerted, timeVars, caseVars, chatVars
<1>5. CASE Poll
  BY <1>5 DEF Poll, NewAlerts, Handling, Place, Alerted, timeVars, caseVars, chatVars
<1>6. ASSUME NEW e \in Episode, Take(e) PROVE FilesInv'
  BY <1>6 DEF Take, Goto, Handling, Place, Alerted, timeVars, caseVars, chatVars
<1>7. CASE Freeze
  BY <1>7 DEF Freeze, Goto, Handling, Place, Alerted, timeVars, chatVars
<1>8. CASE WriteRecord
  BY <1>8 DEF WriteRecord, Goto, Handling, Place, Alerted, timeVars, chatVars
<1>9. CASE WriteReport
  BY <1>9 DEF WriteReport, Goto, Handling, Place, Alerted, timeVars, chatVars
<1>10. CASE Seed
  <2>1. chats[ep][Initial] = <<>> /\ chats' = Appended(ep, Initial, Run)
          => chats'[ep][Initial] # <<>>
    <3>1. ep \in Episode
      BY <1>10, <1>a DEF Seed, Handling, Place
    <3> QED BY <3>1, AppendedGrows DEF Chat, Turn
  <2> QED
    BY <1>10, <2>1 DEF Seed, AfterSeed, Handling, Place, Alerted, timeVars, caseVars
<1>11. CASE Learn
  BY <1>11 DEF Learn, Goto, Handling, Place, Alerted, timeVars, chatVars
<1>12. CASE FanOut
  BY <1>12 DEF FanOut, Handling, Place, Alerted, timeVars, caseVars, chatVars
<1>13. ASSUME NEW c \in Episode, FaultChat(c) PROVE FilesInv'
  BY <1>13, <1>b DEF FaultChat, caseVars
<1>14. CASE MasterChat
  <2>1. chats'[ep][Master] # <<>>
    <3>1. ep \in Episode
      BY <1>14, <1>a DEF MasterChat, Goto, Handling, Place
    <3> QED BY <1>14, <3>1, AppendedGrows DEF MasterChat, Chat, Turn
  <2>2. chats'[ep][Initial] # <<>>
    BY <1>14, <1>a, FilesGrow DEF MasterChat, Goto, Handling, Place, Chat
  <2> QED
    BY <1>14, <2>1, <2>2 DEF MasterChat, Goto, Handling, Place, Alerted, timeVars, caseVars
<1>15. CASE Truncate \/ Persist
  BY <1>15 DEF Truncate, Persist, Goto, Handling, Place, Alerted, timeVars, caseVars, chatVars
<1>16. CASE Crash
  BY <1>16 DEF Crash, Handling, Place, Alerted, timeVars, caseVars
<1>17. ASSUME NEW f \in Request, NEW e \in Episode, NEW c \in Chat, Ask(f, e, c)
       PROVE  FilesInv'
  BY <1>17, <1>b DEF Ask, caseVars, TypeOK
<1>18. ASSUME NEW f \in Request, Answer(f) PROVE FilesInv'
  <2>1. AskedIsRecorded'
    BY <1>18 DEF Answer, TypeOK, caseVars
  <2> QED BY <1>18, <2>1, <1>b DEF Answer, caseVars
<1>19. CASE ApiCrash
  <2>1. AskedIsRecorded'
    BY <1>19 DEF ApiCrash, TypeOK, caseVars
  <2> QED BY <1>19, <2>1, <1>b DEF ApiCrash, caseVars
<1> QED
  BY <1>1, <1>2, <1>3, <1>4, <1>5, <1>6, <1>7, <1>8, <1>9, <1>10, <1>11, <1>12,
     <1>13, <1>14, <1>15, <1>16, <1>17, <1>18, <1>19 DEF Next, Trigger

LEMMA FilesInvariant == Spec => [](TypeOK /\ FilesInv)
<1>1. Init => TypeOK /\ FilesInv
  BY InitType, FilesInit
<1>2. TypeOK /\ FilesInv /\ [Next]_vars => (TypeOK /\ FilesInv)'
  BY NextType, FilesNext DEF FilesInv
<1> QED
  BY <1>1, <1>2, PTL DEF Spec

(* Every reachable state of the pipeline is well typed.                    *)
THEOREM TypeCorrect == Spec => []TypeOK
BY FilesInvariant, PTL

(* A case that is listed has its record, a recorded case its whole frozen  *)
(* window, and a follow-up under way a case it can read, whatever crashes. *)
THEOREM ReadersAreServed == Spec => []ReadersFindAll
<1>1. FilesInv => ReadersFindAll
  BY DEF FilesInv, AskedIsRecorded, ReadersFindAll
<1> QED
  BY <1>1, FilesInvariant, PTL

-----------------------------------------------------------------------------
(* The cursor.                                                             *)

(* What the cursor may pass: a case with all its files.                    *)
Complete(e) ==
  /\ e \in frozen \cap recorded \cap reported
  /\ chats[e][Initial] # <<>>
  /\ ledger[e].co # {} => chats[e][Master] # <<>>

(* The alerts of the last poll that are not yet behind the cursor.         *)
Current == IF at \in Handling \ {"persist"} THEN {ep} ELSE {}
Pending == batch \cup Current

(* The cursor is never ahead of the clock nor of a case, and any alert     *)
(* that neither it nor the batch covers is as young as those of the batch. *)
CursorInv ==
  /\ mem.ts <= clock
  /\ mem.fired \subseteq Alerted
  /\ disk # Torn => disk = mem
  /\ \A e \in Episode : ledger[e] # None => ledger[e].ts <= clock
  /\ \A e \in Alerted : Seen(mem, e) => Complete(e)
  /\ \A e \in Pending : ~Seen(mem, e)
  /\ Current \cap batch = {}
  /\ \A e \in Current, b \in batch : ledger[e].ts <= ledger[b].ts
  /\ \A p \in Pending, e \in Alerted :
       Seen(mem, e) \/ e \in Pending \/ ledger[p].ts <= ledger[e].ts

LEMMA LedgerType ==
  ASSUME TypeOK, NEW e \in Episode, ledger[e] # None
  PROVE  ledger[e] \in [ts: 1..MaxTime, co: SUBSET Episode] /\ ledger[e].ts \in Nat
<1>1. ledger[e] \in [ts: 1..MaxTime, co: SUBSET Episode]
  BY DEF TypeOK
<1>2. ledger[e].ts \in 1..MaxTime
  BY <1>1
<1> QED
  BY <1>1, <1>2

(* An advance covers what the cursor covered and the alert itself, and     *)
(* beyond that only what is older.                                         *)
LEMMA AdvanceSees ==
  ASSUME TypeOK, NEW p \in Alerted, ~Seen(mem, p)
  PROVE  /\ Seen(Advanced(mem, p), p)
         /\ Advanced(mem, p).ts = ledger[p].ts
         /\ Advanced(mem, p).fired \subseteq mem.fired \cup {p}
         /\ \A e \in Episode : ledger[e] # None =>
              /\ Seen(mem, e) => Seen(Advanced(mem, p), e)
              /\ Seen(Advanced(mem, p), e) =>
                   Seen(mem, e) \/ e = p \/ ledger[e].ts < ledger[p].ts
<1>1. mem.ts \in Nat /\ mem.fired \subseteq Episode /\ mem \in Cursor
  BY DEF TypeOK, Cursor
<1>2. p \in Episode /\ ledger[p] # None
  BY DEF Alerted
<1>3. ledger[p].ts \in Nat
  BY <1>2, LedgerType
<1>4. CASE ledger[p].ts > mem.ts
  <2>1. Advanced(mem, p) = [ts |-> ledger[p].ts, fired |-> {p}]
    BY <1>4 DEF Advanced
  <2>2. Advanced(mem, p).ts = ledger[p].ts /\ Advanced(mem, p).fired = {p}
    BY <2>1
  <2>3. ASSUME NEW e \in Episode, ledger[e] # None
        PROVE  /\ Seen(mem, e) => Seen(Advanced(mem, p), e)
               /\ Seen(Advanced(mem, p), e) =>
                    Seen(mem, e) \/ e = p \/ ledger[e].ts < ledger[p].ts
    <3>1. ledger[e].ts \in Nat
      BY <2>3, LedgerType
    <3> QED BY <1>1, <1>3, <1>4, <2>2, <3>1 DEF Seen
  <2> QED BY <2>2, <2>3 DEF Seen
<1>5. CASE ~(ledger[p].ts > mem.ts)
  <2>1. Advanced(mem, p) = [mem EXCEPT !.fired = @ \cup {p}]
    BY <1>5 DEF Advanced
  <2>2. Advanced(mem, p).ts = mem.ts /\ Advanced(mem, p).fired = mem.fired \cup {p}
    BY <1>1, <2>1 DEF Cursor
  <2>3. ledger[p].ts = mem.ts
    BY <1>1, <1>3, <1>5 DEF Seen
  <2> QED BY <1>1, <2>2, <2>3 DEF Seen
<1> QED
  BY <1>4, <1>5

LEMMA CursorInit == Init => CursorInv
<1> SUFFICES ASSUME Init PROVE CursorInv
  OBVIOUS
<1>1. mem.ts = 0 /\ mem.fired = {}
  BY DEF Init
<1>2. Current = {} /\ Pending = {} /\ Alerted = {}
  BY DEF Init, Current, Pending, Alerted, Handling
<1> QED
  BY <1>1, <1>2 DEF Init, CursorInv

(* A case stays complete.                                                  *)
LEMMA CompleteStays ==
  ASSUME TypeOK, FilesInv, [Next]_vars, NEW e \in Alerted, Complete(e)
  PROVE  Complete(e)'
BY FilesGrow DEF Complete, Alerted, Chat

(* Steps that leave the cursor, the batch and the ledger alone.            *)
LEMMA CursorSame ==
  ASSUME TypeOK, FilesInv, CursorInv, [Next]_vars,
         UNCHANGED <<ledger, mem, disk, batch>>, clock <= clock',
         Current' = Current
  PROVE  CursorInv'
<1>1. Alerted' = Alerted /\ Pending' = Pending
  BY DEF Alerted, Pending
<1>2. \A e : Seen(mem, e)' <=> Seen(mem, e)
  BY DEF Seen
<1>3. mem.ts \in Nat /\ clock \in Nat /\ clock' \in Nat
  BY NextType DEF TypeOK, Cursor, FilesInv
<1>4. mem'.ts <= clock'
  BY <1>3 DEF CursorInv
<1>5. \A e \in Episode : ledger'[e] # None => ledger'[e].ts <= clock'
  BY <1>3, LedgerType DEF CursorInv
<1>6. \A e \in Alerted' : Seen(mem, e)' => Complete(e)'
  BY <1>1, <1>2, CompleteStays DEF CursorInv
<1> QED
  BY <1>1, <1>2, <1>4, <1>5, <1>6 DEF CursorInv

LEMMA CursorNext ==
  ASSUME TypeOK, FilesInv, CursorInv, [Next]_vars
  PROVE  CursorInv'
<1>a. clock \in Nat /\ clock' \in Nat /\ mem.ts \in Nat
  BY NextType DEF TypeOK, Cursor, FilesInv
<1>b. at \in Handling => ep \in Alerted
  BY DEF FilesInv, HandlesAlert
<1>1. CASE Pass
  BY <1>1, <1>a, CursorSame DEF Pass, Current, cursorVars
<1>2. ASSUME NEW row \in labels, Predict(row) PROVE CursorInv'
  <2>1. CASE ledger[row.ep] # None
    <3>1. UNCHANGED ledger
      BY <1>2, <2>1 DEF Predict, TypeOK
    <3> QED BY <1>2, <1>a, <3>1, CursorSame DEF Predict, Current, cursorVars
  <2>2. CASE ledger[row.ep] = None
    <3> DEFINE n == row.ep
    <3>1. n \in Episode /\ ledger'[n] = Record(row) /\ Record(row).ts = clock
      BY <1>2, <2>2 DEF Predict, TypeOK, Label, Record
    <3>2. \A e \in Episode : e # n => ledger'[e] = ledger[e]
      BY <1>2, <3>1 DEF Predict, TypeOK
    <3>3. UNCHANGED <<clock, at, ep, batch, mem, disk>>
      BY <1>2 DEF Predict, cursorVars
    <3>4. Alerted' \subseteq Alerted \cup {n} /\ Alerted \subseteq Alerted' /\ n \notin Alerted
      BY <2>2, <3>2, FilesGrow DEF Alerted
    <3>5. Current' = Current /\ Pending' = Pending
      BY <3>3 DEF Current, Pending
    <3>6. Pending \subseteq Alerted
      BY <1>b DEF Pending, Current, FilesInv
    <3>7. \A e \in Alerted : Seen(mem, e)' <=> Seen(mem, e)
      BY <3>2, <3>3, <3>4 DEF Seen, Alerted
    <3>8. ~Seen(mem, n)'
      BY <1>a, <3>1, <3>3, <3>4 DEF Seen, CursorInv
    <3>9. \A e \in Alerted' : Seen(mem, e)' => Complete(e)'
      BY <3>4, <3>7, <3>8, CompleteStays DEF CursorInv
    <3>10. \A e \in Alerted : ledger'[e].ts = ledger[e].ts /\ ledger[e].ts <= clock
      BY <3>2, <3>4 DEF CursorInv, Alerted
    <3>11. \A p \in Pending, e \in Alerted' :
             Seen(mem, e)' \/ e \in Pending \/ ledger'[p].ts <= ledger'[e].ts
      BY <3>1, <3>4, <3>6, <3>7, <3>10 DEF CursorInv
    <3>12. \A e \in Episode : ledger'[e] # None => ledger'[e].ts <= clock'
      BY <1>a, <3>1, <3>2, <3>3 DEF CursorInv
    <3>13. /\ \A e \in Pending : ~Seen(mem, e)'
           /\ \A e \in Current, b \in batch : ledger'[e].ts <= ledger'[b].ts
      BY <3>6, <3>7, <3>10 DEF CursorInv, Pending
    <3>14. /\ mem'.ts <= clock' /\ mem'.fired \subseteq Alerted'
           /\ disk' # Torn => disk' = mem'
      BY <3>3, <3>4 DEF CursorInv
    <3> QED BY <3>3, <3>5, <3>9, <3>11, <3>12, <3>13, <3>14 DEF CursorInv
  <2> QED BY <2>1, <2>2
<1>3. CASE Start
  <2>1. mem' = mem
    BY <1>3 DEF Start, CursorInv
  <2>2. Current' = Current
    BY <1>3 DEF Start, Goto, Current, Handling
  <2> QED BY <1>3, <1>a, <2>1, <2>2, CursorSame DEF Start, timeVars
<1>4. CASE Poll
  <2>1. UNCHANGED <<clock, ledger, at, ep, mem, disk>> /\ caseVars' = caseVars /\ chats' = chats
    BY <1>4 DEF Poll, timeVars, cursorVars, chatVars
  <2>2. Current = {} /\ Current' = {} /\ Pending' = NewAlerts
    BY <1>4, <2>1 DEF Poll, Current, Handling, Pending
  <2>3. /\ \A e \in Alerted : Seen(mem, e) \/ e \in NewAlerts
        /\ \A e \in NewAlerts : ~Seen(mem, e)
    BY DEF NewAlerts, Alerted
  <2>4. Alerted' = Alerted /\ \A e : Seen(mem, e)' <=> Seen(mem, e)
    BY <2>1 DEF Alerted, Seen
  <2>5. \A e \in Alerted : Seen(mem, e) => Complete(e)'
    BY CompleteStays DEF CursorInv
  <2> QED BY <2>1, <2>2, <2>3, <2>4, <2>5 DEF CursorInv
<1>5. ASSUME NEW e \in Episode, Take(e) PROVE CursorInv'
  <2>1. UNCHANGED <<clock, ledger, mem, disk>>
    BY <1>5 DEF Take, timeVars, cursorVars
  <2>2. Current' = {e} /\ Current = {} /\ batch' = batch \ {e} /\ e \in batch
    BY <1>5 DEF Take, Goto, Current, Handling, Place
  <2>3. Pending' = Pending
    BY <2>2 DEF Pending
  <2>4. Alerted' = Alerted /\ \A x : Seen(mem, x)' <=> Seen(mem, x)
    BY <2>1 DEF Alerted, Seen
  <2>5. \A x \in Alerted : Seen(mem, x) => Complete(x)'
    BY CompleteStays DEF CursorInv
  <2>6. \A b \in batch' : ledger'[e].ts <= ledger'[b].ts
    BY <1>5, <2>1, <2>2 DEF Take
  <2> QED BY <2>1, <2>2, <2>3, <2>4, <2>5, <2>6 DEF CursorInv
<1>6. CASE Truncate
  <2>1. /\ UNCHANGED <<clock, ledger, ep, batch>>
        /\ mem' = Advanced(mem, ep) /\ disk' = Torn
    BY <1>6 DEF Truncate, timeVars
  <2>2. Current = {ep} /\ Current' = {} /\ Pending' = batch /\ Pending = batch \cup {ep}
    BY <1>6, <2>1 DEF Truncate, Goto, Current, Handling, Place, Pending
  <2>3. ep \in Alerted /\ ~Seen(mem, ep)
    BY <1>6, <1>b, <2>2 DEF Truncate, Goto, Handling, Place, CursorInv
  <2>4. Complete(ep)
    BY <1>6 DEF Truncate, Goto, FilesInv, Handling, Place, Complete
  <2>5. /\ Seen(mem, ep)' /\ mem'.ts = ledger[ep].ts
        /\ mem'.fired \subseteq mem.fired \cup {ep}
    BY <2>1, <2>3, AdvanceSees DEF Seen
  <2>6. ASSUME NEW e \in Alerted
        PROVE  /\ Seen(mem, e) => Seen(mem, e)'
               /\ Seen(mem, e)' =>
                    Seen(mem, e) \/ e = ep \/ ledger[e].ts < ledger[ep].ts
    <3>1. e \in Episode /\ ledger[e] # None
      BY DEF Alerted
    <3> QED BY <2>1, <2>3, <3>1, AdvanceSees DEF Seen
  <2>7. Alerted' = Alerted /\ batch \subseteq Alerted
    BY <2>1 DEF Alerted, FilesInv
  <2>8. \A e \in Alerted : ledger[e].ts \in Nat
    BY LedgerType DEF Alerted
  <2>9. ASSUME NEW e \in Alerted, Seen(mem, e)' PROVE Complete(e)'
    <3>1. Seen(mem, e) \/ e = ep
      BY <2>2, <2>3, <2>6, <2>7, <2>8, <2>9 DEF CursorInv, Pending
    <3>2. Complete(e)
      BY <2>4, <3>1 DEF CursorInv
    <3> QED BY <3>2, CompleteStays
  <2>10. \A b \in batch : ~Seen(mem, b)'
    <3> SUFFICES ASSUME NEW b \in batch PROVE ~Seen(mem, b)'
      OBVIOUS
    <3>1. b \in Alerted /\ b # ep /\ ~Seen(mem, b) /\ ledger[ep].ts <= ledger[b].ts
      BY <2>2, <2>7 DEF CursorInv
    <3>2. ledger[b].ts \in Nat /\ ledger[ep].ts \in Nat
      BY <2>3, <2>8, <3>1
    <3>3. Seen(mem, b)' => Seen(mem, b) \/ b = ep \/ ledger[b].ts < ledger[ep].ts
      BY <2>6, <3>1
    <3> QED BY <3>1, <3>2, <3>3
  <2>11. \A p \in batch, e \in Alerted :
           Seen(mem, e)' \/ e \in batch \/ ledger[p].ts <= ledger[e].ts
    <3> SUFFICES ASSUME NEW p \in batch, NEW e \in Alerted
                 PROVE  Seen(mem, e)' \/ e \in batch \/ ledger[p].ts <= ledger[e].ts
      OBVIOUS
    <3>1. Seen(mem, e) \/ e \in batch \/ e = ep \/ ledger[p].ts <= ledger[e].ts
      BY <2>2 DEF CursorInv
    <3>2. Seen(mem, e) \/ e = ep => Seen(mem, e)'
      <4>1. Seen(mem, e) => Seen(mem, e)'  BY <2>6
      <4>2. e = ep => Seen(mem, e)'
        BY <2>1, <2>5 DEF Seen
      <4> QED BY <4>1, <4>2
    <3> QED BY <3>1, <3>2
  <2>12. mem'.ts <= clock' /\ mem'.fired \subseteq Alerted'
    BY <2>1, <2>3, <2>5, <2>7 DEF CursorInv, Alerted
  <2>13. \A e \in Episode : ledger'[e] # None => ledger'[e].ts <= clock'
    BY <2>1 DEF CursorInv
  <2> QED BY <2>1, <2>2, <2>7, <2>9, <2>10, <2>11, <2>12, <2>13 DEF CursorInv
<1>7. CASE Persist
  <2>1. UNCHANGED <<clock, ledger, ep, batch, mem>> /\ disk' = mem
    BY <1>7 DEF Persist, timeVars
  <2>2. Current' = Current
    BY <1>7 DEF Persist, Goto, Current, Handling
  <2>3. CursorInv'
    <3>1. Alerted' = Alerted /\ Pending' = Pending
      BY <2>1, <2>2 DEF Alerted, Pending
    <3>2. \A e : Seen(mem, e)' <=> Seen(mem, e)
      BY <2>1 DEF Seen
    <3>3. \A e \in Alerted : Seen(mem, e) => Complete(e)'
      BY CompleteStays DEF CursorInv
    <3> QED BY <2>1, <2>2, <3>1, <3>2, <3>3 DEF CursorInv
  <2> QED BY <2>3
<1>8. CASE /\ batch' = {} /\ Current' = {}
           /\ UNCHANGED <<clock, ledger, mem, disk>>
  <2>1. Alerted' = Alerted /\ Pending' = {} /\ \A e : Seen(mem, e)' <=> Seen(mem, e)
    BY <1>8 DEF Alerted, Pending, Seen
  <2>2. \A e \in Alerted : Seen(mem, e) => Complete(e)'
    BY CompleteStays DEF CursorInv
  <2> QED BY <1>8, <2>1, <2>2 DEF CursorInv
<1>9. CASE Crash
  <2>1. Current' = {}
    BY <1>9 DEF Crash, Current, Handling
  <2> QED BY <1>8, <1>9, <2>1 DEF Crash, timeVars, cursorVars
<1>10. CASE at' = at /\ UNCHANGED <<clock, ledger, mem, disk, batch, ep>>
  BY <1>10, <1>a, CursorSame DEF Current
<1>11. CASE /\ at \in Handling \ {"persist"} /\ at' \in Handling \ {"persist"}
            /\ UNCHANGED <<clock, ledger, mem, disk, batch, ep>>
  BY <1>11, <1>a, CursorSame DEF Current
<1>12. CASE Seed \/ FanOut
  <2>1. at \in Handling \ {"persist"} /\ UNCHANGED <<clock, ledger, mem, disk, ep>>
    BY <1>12 DEF Seed, FanOut, Handling, Place, timeVars, cursorVars
  <2>2. \/ at' = "down" /\ batch' = {}
        \/ at' \in Handling \ {"persist"} /\ batch' = batch
    BY <1>12 DEF Seed, AfterSeed, FanOut, Handling, Place
  <2>3. at' = "down" => Current' = {}
    BY DEF Current, Handling
  <2> QED BY <1>8, <1>11, <2>1, <2>2, <2>3
<1>13. CASE Freeze \/ WriteRecord \/ WriteReport \/ Learn \/ MasterChat
  BY <1>11, <1>13 DEF Freeze, WriteRecord, WriteReport, Learn, MasterChat, Goto,
                      Handling, Place, timeVars, cursorVars
<1>14. ASSUME \/ \E c \in Episode : FaultChat(c)
              \/ \E e \in Episode, end \in 1..MaxTime : WriteLabel(e, end)
              \/ \E f \in Request, e \in Episode, c \in Chat : Ask(f, e, c)
              \/ \E f \in Request : Answer(f)
              \/ ApiCrash \/ UNCHANGED vars
       PROVE  CursorInv'
  BY <1>10, <1>14 DEF FaultChat, WriteLabel, Ask, Answer, ApiCrash, vars, timeVars,
                      cursorVars
<1> QED
  BY <1>1, <1>2, <1>3, <1>4, <1>5, <1>6, <1>7, <1>9, <1>12, <1>13, <1>14
     DEF Next, Trigger

LEMMA CursorInvariant == Spec => [](TypeOK /\ FilesInv /\ CursorInv)
<1>1. Init => TypeOK /\ FilesInv /\ CursorInv
  BY InitType, FilesInit, CursorInit
<1>2. TypeOK /\ FilesInv /\ CursorInv /\ [Next]_vars => (TypeOK /\ FilesInv /\ CursorInv)'
  BY NextType, FilesNext, CursorNext DEF FilesInv
<1> QED
  BY <1>1, <1>2, PTL DEF Spec

(* Whatever the trigger dies of and whenever, the cursor file has passed   *)
(* only alerts whose case is complete: a restart skips none.               *)
THEOREM NoneIsSkipped == Spec => []NoAlertSkipped
<1>1. CursorInv => NoAlertSkipped
  BY DEF CursorInv, NoAlertSkipped, Complete
<1> QED
  BY <1>1, CursorInvariant, PTL

(* No advance of the cursor and no restart forgets an alert it has fired.  *)
THEOREM FiredForGood == Spec => FiredStaysFired
<1>1. ASSUME TypeOK, FilesInv, CursorInv, [Next]_vars,
             NEW e \in Episode, ledger[e] # None, Seen(mem, e)
      PROVE  Seen(mem, e)'
  <2>1. ledger'[e] = ledger[e]
    BY <1>1, FilesGrow
  <2>2. CASE mem' = mem
    BY <1>1, <2>1, <2>2 DEF Seen
  <2>3. CASE Truncate
    <3>1. ep \in Alerted
      BY <1>1, <2>3 DEF Truncate, Goto, FilesInv, HandlesAlert, Handling, Place
    <3>2. ep \in Pending
      BY <2>3 DEF Truncate, Goto, Pending, Current, Handling, Place
    <3>3. ~Seen(mem, ep)
      BY <1>1, <3>2 DEF CursorInv
    <3>4. Seen(Advanced(mem, ep), e)
      BY <1>1, <3>1, <3>3, AdvanceSees
    <3> QED BY <2>1, <2>3, <3>4 DEF Truncate, Seen
  <2>4. CASE Start
    BY <1>1, <2>2, <2>4 DEF Start, CursorInv
  <2>5. mem' = mem \/ Truncate \/ Start
    BY <1>1 DEF Next, Trigger, Pass, WriteLabel, Predict, Poll, Take, Freeze,
                WriteRecord, WriteReport, Seed, Learn, FanOut, FaultChat, MasterChat,
                Persist, Crash, Ask, Answer, ApiCrash, cursorVars, vars
  <2> QED BY <2>2, <2>3, <2>4, <2>5
<1>2. TypeOK /\ FilesInv /\ CursorInv /\ [Next]_vars
        => [\A e \in Episode : ledger[e] # None /\ Seen(mem, e) => Seen(mem, e)']_vars
  BY <1>1
<1> QED
  BY <1>2, CursorInvariant, PTL DEF Spec, FiredStaysFired

-----------------------------------------------------------------------------
(* The creation run and its verdict.                                       *)

RunInv ==
  /\ RunIsKeptOnce
  /\ \A e \in Episode : learnt[e] = 1 => ledger[e] # None
  /\ at = "learn" => learnt[ep] = 0 /\ Runs(ep) # {}

(* What an append to some chat does to the runs of the first chats.        *)
LEMMA RunsAppended ==
  ASSUME TypeOK, NEW e \in Episode, NEW c \in Chat, NEW turn \in Turn,
         chats' = Appended(e, c, turn), NEW d \in Episode
  PROVE  Runs(d)' = IF d = e /\ c = Initial /\ turn = Run
                    THEN Runs(d) \cup {Len(chats[d][Initial]) + 1} ELSE Runs(d)
<1>1. chats'[d][Initial] = IF d = e /\ Initial = c
                           THEN Append(chats[d][Initial], turn)
                           ELSE chats[d][Initial]
  <2>1. \A x \in Episode, k \in Chat :
          Appended(e, c, turn)[x][k] = IF x = e /\ k = c THEN Append(chats[x][k], turn)
                                       ELSE chats[x][k]
    BY AppendedType
  <2>2. Initial \in Chat
    BY DEF Chat
  <2>3. Appended(e, c, turn)[d][Initial] =
          IF d = e /\ Initial = c THEN Append(chats[d][Initial], turn)
          ELSE chats[d][Initial]
    BY <2>1, <2>2
  <2> QED BY <2>3
<1>2. chats[d][Initial] \in Seq(Turn)
  BY DEF TypeOK, Turn, Chat
<1>3. CASE d = e /\ c = Initial
  <2> DEFINE old == chats[d][Initial]
             new == Append(old, turn)
  <2>1. /\ DOMAIN new = 1..(Len(old) + 1) /\ DOMAIN old = 1..Len(old)
        /\ Len(old) \in Nat
        /\ \A i \in 1..Len(old) : new[i] = old[i]
        /\ new[Len(old) + 1] = turn
    BY <1>2
  <2>2. Runs(d)' = {i \in DOMAIN new : new[i] = Run}
    BY <1>1, <1>3 DEF Runs
  <2>3. Runs(d) = {i \in DOMAIN old : old[i] = Run}
    BY DEF Runs
  <2> HIDE DEF new, old
  <2>4. Runs(d)' = {i \in 1..(Len(old) + 1) : new[i] = Run}
    BY <2>1, <2>2
  <2>5. Runs(d) = {i \in 1..Len(old) : old[i] = Run}
    BY <2>1, <2>3
  <2>6. CASE turn = Run
    <3>1. Runs(d)' = Runs(d) \cup {Len(old) + 1}
      BY <2>1, <2>4, <2>5, <2>6
    <3> QED BY <1>3, <2>6, <3>1 DEF old
  <2>7. CASE turn # Run
    <3>1. Runs(d)' = Runs(d)
      BY <2>1, <2>4, <2>5, <2>7
    <3> QED BY <2>7, <3>1
  <2> QED BY <2>6, <2>7
<1>4. CASE ~(d = e /\ c = Initial)
  BY <1>1, <1>4 DEF Runs
<1> QED
  BY <1>3, <1>4

LEMMA RunInit == Init => RunInv
<1> SUFFICES ASSUME Init PROVE RunInv
  OBVIOUS
<1>1. \A e \in Episode : chats[e][Initial] = <<>> /\ learnt[e] = 0
  BY DEF Init, Chat
<1>2. \A e \in Episode : Runs(e) = {}
  BY <1>1 DEF Runs
<1> QED
  BY <1>1, <1>2 DEF Init, RunInv, RunIsKeptOnce

(* Steps that leave the runs and the verdicts alone.                       *)
LEMMA RunSame ==
  ASSUME TypeOK, FilesInv, RunInv, [Next]_vars, UNCHANGED learnt,
         \A e \in Episode : Runs(e)' = Runs(e),
         at' = "learn" => at = "learn" /\ ep' = ep
  PROVE  RunInv'
<1>1. \A e \in Episode : learnt[e] = 1 => ledger'[e] = ledger[e]
  BY FilesGrow DEF RunInv
<1>2. RunIsKeptOnce' /\ \A e \in Episode : learnt'[e] = 1 => ledger'[e] # None
  BY <1>1 DEF RunInv, RunIsKeptOnce
<1>3. at' = "learn" => learnt'[ep'] = 0 /\ Runs(ep)' # {}
  <2>1. at = "learn" => ep \in Episode
    BY DEF FilesInv, HandlesAlert, Handling, Place, Alerted
  <2>2. at' = "learn" => Runs(ep)' = Runs(ep)
    BY <2>1 DEF Runs
  <2> QED BY <2>2 DEF RunInv
<1> QED
  BY <1>2, <1>3 DEF RunInv

LEMMA RunNext ==
  ASSUME TypeOK, FilesInv, RunInv, [Next]_vars
  PROVE  RunInv'
<1>a. Initial \in Chat /\ Master \in Chat /\ Run \in Turn /\ Initial # Master
  BY DEF Chat, Turn
<1>b. at \in Handling => ep \in Episode /\ ledger[ep] # None
  BY DEF FilesInv, HandlesAlert, Alerted
<1>c. ASSUME chats' = chats PROVE \A e \in Episode : Runs(e)' = Runs(e)
  BY <1>c DEF Runs
<1>1. CASE Seed
  <2>1. ep \in Episode /\ ledger[ep] # None /\ UNCHANGED <<ledger, ep, learnt>>
    BY <1>1, <1>b DEF Seed, Handling, Place, timeVars, caseVars
  <2>2. CASE chats' = chats /\ at' # "learn"
    BY <1>c, <2>1, <2>2, RunSame
  <2>3. CASE chats[ep][Initial] = <<>> /\ chats' = Appended(ep, Initial, Run)
    <3>1. Runs(ep) = {}
      BY <2>3 DEF Runs
    <3>2. \A d \in Episode :
            Runs(d)' = IF d = ep /\ Initial = Initial /\ Run = Run
                       THEN Runs(d) \cup {Len(chats[d][Initial]) + 1} ELSE Runs(d)
      BY <1>a, <2>1, <2>3, RunsAppended
    <3>3. \A d \in Episode : d # ep => Runs(d)' = Runs(d)
      BY <3>2
    <3>4. Runs(ep)' = {Len(chats[ep][Initial]) + 1}
      BY <2>1, <3>1, <3>2
    <3>5. learnt[ep] = 0
      <4>1. learnt[ep] \in Nat /\ learnt[ep] <= 1 /\ learnt[ep] # 1
        BY <2>1, <3>1 DEF TypeOK, RunInv, RunIsKeptOnce
      <4> QED BY <4>1
    <3>6. ASSUME NEW d \in Episode
          PROVE  /\ \A i, j \in Runs(d)' : i = j
                 /\ learnt'[d] <= 1
                 /\ learnt'[d] = 1 => Runs(d)' # {} /\ ledger'[d].co = {}
                 /\ learnt'[d] = 1 => ledger'[d] # None
      <4>1. CASE d = ep
        BY <2>1, <3>4, <3>5, <4>1
      <4>2. CASE d # ep
        BY <2>1, <3>3, <4>2 DEF RunInv, RunIsKeptOnce
      <4> QED BY <4>1, <4>2
    <3>7. learnt'[ep'] = 0 /\ Runs(ep)' # {}
      BY <2>1, <3>4, <3>5
    <3> QED BY <3>6, <3>7 DEF RunInv, RunIsKeptOnce
  <2> QED BY <1>1, <2>2, <2>3 DEF Seed, AfterSeed
<1>2. CASE Learn
  <2>1. ep \in Episode /\ learnt[ep] = 0 /\ Runs(ep) # {} /\ ledger[ep] # None
    BY <1>2, <1>b DEF Learn, Goto, Handling, Place, RunInv
  <2>2. ledger[ep].co = {}
    BY <1>2 DEF Learn, Goto, FilesInv
  <2>3. /\ UNCHANGED <<ledger, ep, chats>> /\ at' = "truncate"
        /\ learnt' = [learnt EXCEPT ![ep] = 1]
    BY <1>2, <2>1 DEF Learn, Goto, timeVars, chatVars, TypeOK
  <2>4. /\ learnt'[ep] = 1
        /\ \A d \in Episode : d # ep => learnt'[d] = learnt[d]
    BY <2>1, <2>3 DEF TypeOK
  <2>5. ASSUME NEW d \in Episode
        PROVE  /\ \A i, j \in Runs(d)' : i = j
               /\ learnt'[d] <= 1
               /\ learnt'[d] = 1 => Runs(d)' # {} /\ ledger'[d].co = {}
               /\ learnt'[d] = 1 => ledger'[d] # None
    <3>1. Runs(d)' = Runs(d)
      BY <1>c, <2>3
    <3>2. CASE d = ep
      BY <2>1, <2>2, <2>3, <2>4, <3>1, <3>2 DEF RunInv, RunIsKeptOnce
    <3>3. CASE d # ep
      BY <2>3, <2>4, <3>1, <3>3 DEF RunInv, RunIsKeptOnce
    <3> QED BY <3>2, <3>3
  <2> QED BY <2>3, <2>5 DEF RunInv, RunIsKeptOnce
<1>3. ASSUME NEW e \in Episode, NEW c \in Chat, NEW turn \in Turn,
             chats' = Appended(e, c, turn), ~(c = Initial /\ turn = Run)
      PROVE  \A d \in Episode : Runs(d)' = Runs(d)
  BY <1>3, RunsAppended
<1>4. ASSUME NEW c \in Episode, FaultChat(c) PROVE RunInv'
  <2>1. ep \in Episode
    BY <1>4, <1>b DEF FaultChat, Handling, Place
  <2>2. c \in Chat /\ c # Initial
    BY DEF Chat
  <2>3. \A d \in Episode : Runs(d)' = Runs(d)
    BY <1>3, <1>4, <1>a, <2>1, <2>2 DEF FaultChat
  <2> QED BY <1>4, <2>3, RunSame DEF FaultChat, caseVars
<1>5. CASE MasterChat
  <2>1. ep \in Episode
    BY <1>5, <1>b DEF MasterChat, Goto, Handling, Place
  <2>2. \A d \in Episode : Runs(d)' = Runs(d)
    BY <1>3, <1>5, <1>a, <2>1 DEF MasterChat
  <2> QED BY <1>5, <2>2, RunSame DEF MasterChat, Goto, caseVars
<1>6. ASSUME NEW f \in Request, Answer(f) PROVE RunInv'
  <2>1. req[f].ep \in Episode /\ req[f].chat \in Chat /\ f \in Turn /\ f # Run
    BY <1>6 DEF Answer, FilesInv, AskedIsRecorded, TypeOK, Turn
  <2>2. \A d \in Episode : Runs(d)' = Runs(d)
    BY <1>3, <1>6, <2>1 DEF Answer
  <2> QED BY <1>6, <2>2, RunSame DEF Answer, caseVars
<1>7. CASE /\ UNCHANGED <<learnt, chats>>
           /\ at' = "learn" => at = "learn" /\ ep' = ep
  BY <1>c, <1>7, RunSame
<1>8. CASE \/ Pass \/ Start \/ Poll \/ Freeze \/ WriteRecord \/ WriteReport \/ FanOut
           \/ Truncate \/ Persist \/ Crash \/ ApiCrash \/ UNCHANGED vars
           \/ \E e \in Episode, end \in 1..MaxTime : WriteLabel(e, end)
           \/ \E row \in labels : Predict(row)
           \/ \E e \in Episode : Take(e)
           \/ \E f \in Request, e \in Episode, c \in Chat : Ask(f, e, c)
  BY <1>7, <1>8 DEF Pass, Start, Poll, Freeze, WriteRecord, WriteReport, FanOut,
                    Truncate, Persist, Crash, ApiCrash, WriteLabel, Predict, Take, Ask,
                    Goto, vars, caseVars, chatVars
<1> QED
  BY <1>1, <1>2, <1>4, <1>5, <1>6, <1>8 DEF Next, Trigger

LEMMA RunInvariant == Spec => [](TypeOK /\ FilesInv /\ RunInv)
<1>1. Init => TypeOK /\ FilesInv /\ RunInv
  BY InitType, FilesInit, RunInit
<1>2. TypeOK /\ FilesInv /\ RunInv /\ [Next]_vars => (TypeOK /\ FilesInv /\ RunInv)'
  BY NextType, FilesNext, RunNext DEF FilesInv
<1> QED
  BY <1>1, <1>2, PTL DEF Spec

(* However often a case is created anew, its first chat has the creation   *)
(* run at most once and the knowledge base its verdict at most once.       *)
THEOREM RunsOnce == Spec => []RunIsKeptOnce
<1>1. RunInv => RunIsKeptOnce
  BY DEF RunInv
<1> QED
  BY <1>1, RunInvariant, PTL

-----------------------------------------------------------------------------
(* The pipeline as a case feed.                                            *)

LEMMA FeedInit == Init => Feed!Init
BY DEF Init, Feed!Init, Alerted

(* Each step alerts, opens a case, learns a verdict, or is hidden.         *)
LEMMA FeedNext ==
  ASSUME TypeOK, FilesInv, RunInv, [Next]_vars
  PROVE  [Feed!Next]_(Feed!vars)
<1>a. at \in Handling => ep \in Alerting /\ ep \in Episode /\ ledger[ep] # None
  BY DEF FilesInv, HandlesAlert, Alerted
<1>1. ASSUME NEW row \in labels, Predict(row) PROVE [Feed!Next]_(Feed!vars)
  <2> DEFINE n == row.ep
  <2>1. /\ n \in Episode /\ UNCHANGED <<reported, learnt>>
        /\ \A e \in Episode : e # n => ledger'[e] = ledger[e]
    BY <1>1 DEF Predict, TypeOK, Label, caseVars
  <2>2. CASE ledger[n] = None /\ n \in Alerting
    <3>1. Record(row) # None
      <4>1. Record(row) \in [ts: 1..MaxTime, co: SUBSET Episode]
        BY DEF Record, Active, TypeOK, Label
      <4> QED BY <4>1
    <3>2. ledger'[n] = Record(row)
      BY <1>1, <2>1, <2>2 DEF Predict, TypeOK
    <3>3. n \notin Alerted /\ Alerted' = Alerted \cup {n}
      BY <2>1, <2>2, <3>1, <3>2 DEF Alerted
    <3>4. Feed!Alert(n)
      BY <2>1, <3>3 DEF Feed!Alert
    <3> QED BY <2>2, <3>4 DEF Feed!Next
  <2>3. CASE ledger[n] # None \/ n \notin Alerting
    <3>1. Alerted' = Alerted
      <4>1. CASE ledger[n] # None
        BY <1>1, <4>1 DEF Predict, TypeOK, Alerted
      <4>2. CASE n \notin Alerting
        BY <2>1, <4>2 DEF Alerted
      <4> QED BY <2>3, <4>1, <4>2
    <3> QED BY <2>1, <3>1 DEF Feed!vars
  <2> QED BY <2>2, <2>3
<1>2. CASE WriteReport
  <2>1. ep \in Alerted /\ Alerted' = Alerted /\ reported' = reported \cup {ep}
        /\ learnt' = learnt
    BY <1>2, <1>a DEF WriteReport, Goto, Handling, Place, Alerted, timeVars
  <2>2. CASE ep \in reported
    BY <2>1, <2>2 DEF Feed!vars
  <2>3. CASE ep \notin reported
    <3>1. Feed!Open(ep)
      BY <2>1, <2>3 DEF Feed!Open
    <3> QED BY <2>1, <3>1 DEF Feed!Next, Alerted
  <2> QED BY <2>2, <2>3
<1>3. CASE Learn
  <2>1. /\ ep \in Alerting /\ ep \in reported /\ learnt[ep] = 0
        /\ Alerted' = Alerted /\ reported' = reported
        /\ learnt' = [learnt EXCEPT ![ep] = 1]
    BY <1>3, <1>a DEF Learn, Goto, Handling, Place, Alerted, timeVars, FilesInv,
                      RunInv, TypeOK
  <2>2. [e \in Alerting |-> learnt[e]]' =
          [[e \in Alerting |-> learnt[e]] EXCEPT ![ep] = 1]
    BY <2>1 DEF TypeOK
  <2>3. Feed!Learn(ep)
    BY <2>1, <2>2 DEF Feed!Learn
  <2> QED BY <2>1, <2>3, ZenonT(20) DEF Feed!Next, Feed!Learn
<1>4. CASE UNCHANGED <<ledger, reported, learnt>>
  BY <1>4 DEF Feed!vars, Alerted
<1>5. CASE \/ Pass \/ Start \/ Poll \/ Freeze \/ WriteRecord \/ Seed \/ FanOut
           \/ MasterChat \/ Truncate \/ Persist \/ Crash \/ ApiCrash \/ UNCHANGED vars
           \/ \E e \in Episode, end \in 1..MaxTime : WriteLabel(e, end)
           \/ \E e \in Episode : Take(e)
           \/ \E c \in Episode : FaultChat(c)
           \/ \E f \in Request, e \in Episode, c \in Chat : Ask(f, e, c)
           \/ \E f \in Request : Answer(f)
  BY <1>4, <1>5 DEF Pass, Start, Poll, Freeze, WriteRecord, Seed, FanOut, MasterChat,
                    Truncate, Persist, Crash, ApiCrash, WriteLabel, Take, FaultChat,
                    Ask, Answer, vars, timeVars, caseVars
<1> QED
  BY <1>1, <1>2, <1>3, <1>5 DEF Next, Trigger

(* The pipeline keeps what the case feed promises: with its files and its  *)
(* restarts hidden, an alert becomes known and then has a case, both for   *)
(* good, and a case's verdict is learnt at most once.                      *)
THEOREM PipelineImplementsFeed == Spec => ImplementsFeed
<1>1. Init => Feed!Init
  BY FeedInit
<1>2. TypeOK /\ FilesInv /\ RunInv /\ [Next]_vars => [Feed!Next]_(Feed!vars)
  BY FeedNext
<1> QED
  BY <1>1, <1>2, RunInvariant, PTL DEF Spec, ImplementsFeed, Feed!Spec
=============================================================================

------------------------- MODULE MailRequestProofs -------------------------
(***************************************************************************)
(* Theorems about MailRequest, for every set of requests, keys of a body   *)
(* and configured values.  Types are right for any number of workers; that *)
(* a mail has the content of its own request is shown for a server with    *)
(* one worker, the premise under which nothing else writes the Account.    *)
(***************************************************************************)
EXTENDS MailRequest, TLAPS

(* How far a worker has come: a mail is empty until its session begins,    *)
(* and a session has parts left to read.                                   *)
StepOK ==
    /\ step \in [Worker -> Nat]
    /\ \A w \in Worker :
          /\ pc[w] = "fill" => mail[w] = <<>>
          /\ pc[w] = "session" => step[w] \in 1..Len(Parts)

(* The setters a handler has called put the values of its request.         *)
FilledSoFar ==
    \A w \in Worker : pc[w] = "fill" =>
        \A i \in 1..Len(Setters) :
            (i < step[w] /\ Setters[i] # "attachment")
                => account[Setters[i]] = FromJson(request[w], Setters[i])

(* During a session the Account holds the request that is being mailed.    *)
AccountIsMine ==
    \A w \in Worker : InSession(w) =>
        \A f \in Field \ {"attachment"} : account[f] = FromJson(request[w], f)

MInv == TypeOK /\ StepOK /\ FilledSoFar /\ AccountIsMine /\ OwnContent

(* There is one mail at a time when there is one worker.                   *)
OneWorker == \A v, w \in Worker : v = w

-----------------------------------------------------------------------------
(* The fields and the parts.                                               *)

LEMMA SettersAre ==
    /\ Len(Setters) = 6
    /\ Field = {"to_email", "email_subject", "email_body", "from_email",
                "from_password", "attachment"}
    /\ \A i \in 1..Len(Setters) : Setters[i] \in Field
    /\ \A f \in Field : \E i \in 1..Len(Setters) : f = Setters[i]
PROOF
  <1>1. Len(Setters) = 6  BY DEF Setters
  <1>2. /\ Setters[1] = "to_email" /\ Setters[2] = "email_subject"
        /\ Setters[3] = "email_body" /\ Setters[4] = "from_email"
        /\ Setters[5] = "from_password" /\ Setters[6] = "attachment"
    BY DEF Setters
  <1>3. Field = {Setters[i] : i \in 1..6}  BY <1>1 DEF Field
  <1>4. 1..6 = {1, 2, 3, 4, 5, 6}  OBVIOUS
  <1>5. Field = {Setters[1], Setters[2], Setters[3], Setters[4], Setters[5], Setters[6]}
    BY <1>3, <1>4
  <1>6. Field = {"to_email", "email_subject", "email_body", "from_email",
                 "from_password", "attachment"}
    BY <1>5, <1>2
  <1> QED  BY <1>1, <1>3, <1>6

LEMMA PartsAre ==
    /\ Len(Parts) = 9
    /\ \A i \in 1..Len(Parts) : Parts[i].field \in Field
PROOF
  <1>1. Len(Parts) = 9  BY DEF Parts
  <1>2. /\ Parts[1].field = "from_email" /\ Parts[2].field = "from_password"
        /\ Parts[3].field = "from_email" /\ Parts[4].field = "to_email"
        /\ Parts[5].field = "from_email" /\ Parts[6].field = "to_email"
        /\ Parts[7].field = "email_subject" /\ Parts[8].field = "attachment"
        /\ Parts[9].field = "email_body"
    BY DEF Parts
  <1>3. 1..9 = {1, 2, 3, 4, 5, 6, 7, 8, 9}  OBVIOUS
  <1> QED  BY <1>1, <1>2, <1>3, SettersAre

LEMMA FromJsonType ==
    ASSUME NEW r \in Request, NEW f \in Field
    PROVE  FromJson(r, f) \in Value
PROOF BY DEF FromJson, Value

(* A setter changes its own field only, and gives it the value of the      *)
(* request unless it is the one of the attachments.                        *)
LEMMA FillIs ==
    ASSUME NEW w \in Worker, NEW f \in Field, account \in [Field -> Value],
           request[w] \in Request
    PROVE  /\ Fill(w, f) \in [Field -> Value]
           /\ f # "attachment" => Fill(w, f)[f] = FromJson(request[w], f)
           /\ \A g \in Field : g # f => Fill(w, f)[g] = account[g]
PROOF BY FromJsonType DEF Fill

-----------------------------------------------------------------------------
(* Types and progress, for any number of workers.                          *)

LEMMA InitTypes == Init => TypeOK /\ StepOK
PROOF
  <1> SUFFICES ASSUME Init PROVE TypeOK /\ StepOK  OBVIOUS
  <1>1. <<>> \in Seq(Value)  OBVIOUS
  <1> QED  BY <1>1 DEF Init, TypeOK, StepOK, Value

LEMMA TypesKept == TypeOK /\ StepOK /\ [Next]_vars => TypeOK' /\ StepOK'
PROOF
  <1> SUFFICES ASSUME TypeOK, StepOK, [Next]_vars PROVE TypeOK' /\ StepOK'
    OBVIOUS
  <1>1. ASSUME NEW w \in Worker, NEW r \in Request, Take(w, r)
        PROVE  TypeOK' /\ StepOK'
    <2>1. <<>> \in Seq(Value) /\ Len(<<>>) = 0  OBVIOUS
    <2>2. 1 \in 1..Len(Setters)  BY SettersAre
    <2> QED  BY <1>1, <2>1, <2>2 DEF Take, TypeOK, StepOK
  <1>2. ASSUME NEW w \in Worker, Set(w)  PROVE TypeOK' /\ StepOK'
    <2>1. step[w] \in 1..6 /\ pc[w] = "fill" /\ request[w] \in Request /\ mail[w] = <<>>
      BY <1>2, SettersAre DEF Set, TypeOK, StepOK
    <2>2. account' \in [Field -> Value]
      <3>1. Setters[step[w]] \in Field  BY <2>1, SettersAre
      <3> QED  BY <1>2, <2>1, <3>1, FillIs DEF Set, TypeOK
    <2>3. CASE step[w] < Len(Setters)
      <3>1. step' = [step EXCEPT ![w] = step[w] + 1] /\ pc' = pc
        BY <1>2, <2>3 DEF Set, StepOK
      <3>2. step'[w] \in 1..6 /\ step' \in [Worker -> Nat]
        BY <2>1, <2>3, <3>1, SettersAre DEF StepOK
      <3>3. \A v \in Worker : v # w => step'[v] = step[v]  BY <3>1 DEF StepOK
      <3>4. TypeOK'  BY <1>2, <2>1, <2>2, <3>1, <3>2, <3>3, SettersAre DEF Set, TypeOK
      <3>5. StepOK'  BY <1>2, <2>1, <3>1, <3>2, <3>3 DEF Set, StepOK
      <3> QED  BY <3>4, <3>5
    <2>4. CASE ~(step[w] < Len(Setters))
      <3>1. Len(mail[w]) = 0  BY <2>1
      <3>2. 1 \in 1..Len(Parts)  BY PartsAre
      <3>3. /\ step' = [step EXCEPT ![w] = 1] /\ pc' = [pc EXCEPT ![w] = "session"]
            /\ step'[w] = 1 /\ step' \in [Worker -> Nat]
        BY <1>2, <2>4 DEF Set, StepOK
      <3>4. \A v \in Worker : v # w => step'[v] = step[v]  BY <3>3 DEF StepOK
      <3>5. TypeOK'  BY <1>2, <2>1, <2>2, <3>1, <3>3, <3>4 DEF Set, TypeOK
      <3>6. StepOK'  BY <1>2, <2>1, <3>2, <3>3, <3>4 DEF Set, StepOK, TypeOK
      <3> QED  BY <3>5, <3>6
    <2> QED  BY <2>3, <2>4
  <1>3. ASSUME NEW w \in Worker, Session(w)  PROVE TypeOK' /\ StepOK'
    <2> DEFINE v == account[Parts[step[w]].field]
    <2>1. /\ pc[w] = "session" /\ step[w] \in 1..9 /\ step[w] = Len(mail[w]) + 1
          /\ mail[w] \in Seq(Value)
      BY <1>3, PartsAre DEF Session, TypeOK, StepOK
    <2>2. v \in Value  BY <2>1, PartsAre DEF TypeOK
    <2>3. Append(mail[w], v) \in Seq(Value) /\ Len(Append(mail[w], v)) = Len(mail[w]) + 1
      BY <2>1, <2>2
    <2>4. mail' = [mail EXCEPT ![w] = Append(mail[w], v)]
      BY <1>3 DEF Session, ReadPart, TypeOK
    <2>5. step' = [step EXCEPT ![w] = step[w] + 1]
      BY <1>3 DEF Session, ReadPart, StepOK
    <2> HIDE DEF v
    <2>6. CASE step[w] = Len(Parts)
      <3>1. pc' = [pc EXCEPT ![w] = "sent"]  BY <1>3, <2>6 DEF Session, ReadPart
      <3> QED  BY <1>3, <2>1, <2>3, <2>4, <2>5, <2>6, <3>1, PartsAre
               DEF Session, TypeOK, StepOK
    <2>7. CASE step[w] # Len(Parts)
      <3>1. pc' = pc  BY <1>3, <2>7 DEF Session, ReadPart
      <3> QED  BY <1>3, <2>1, <2>3, <2>4, <2>5, <2>7, <3>1, PartsAre
               DEF Session, TypeOK, StepOK
    <2> QED  BY <2>6, <2>7
  <1>4. ASSUME NEW w \in Worker, Respond(w)  PROVE TypeOK' /\ StepOK'
    BY <1>4 DEF Respond, TypeOK, StepOK
  <1>5. CASE UNCHANGED vars
    BY <1>5 DEF vars, TypeOK, StepOK
  <1> QED  BY <1>1, <1>2, <1>3, <1>4, <1>5 DEF Next

(* Every step of a worker, in any order and with any number of workers,    *)
(* keeps the variables in their types: handle_email_POST and the session   *)
(* read no field that is not there.                                        *)
THEOREM TypeCorrect == Spec => []TypeOK
PROOF
  <1>1. Spec => [](TypeOK /\ StepOK)  BY InitTypes, TypesKept, PTL DEF Spec
  <1> QED  BY <1>1, PTL

-----------------------------------------------------------------------------
(* The content of a mail, with one worker.                                 *)

LEMMA InitMine == Init => FilledSoFar /\ AccountIsMine /\ OwnContent
PROOF BY DEF Init, FilledSoFar, AccountIsMine, OwnContent, InSession

LEMMA MineKept ==
    ASSUME OneWorker, MInv, [Next]_vars
    PROVE  FilledSoFar' /\ AccountIsMine' /\ OwnContent'
PROOF
  <1> USE DEF InSession
  <1>0. TypeOK /\ StepOK /\ FilledSoFar /\ AccountIsMine /\ OwnContent  BY DEF MInv
  <1>1. ASSUME NEW w \in Worker, NEW r \in Request, Take(w, r)
        PROVE  FilledSoFar' /\ AccountIsMine' /\ OwnContent'
    <2>1. pc'[w] \in {"fill", "crashed"} /\ step'[w] = 1
      BY <1>0, <1>1 DEF Take, TypeOK, StepOK
    <2>2. \A v \in Worker : v = w  BY DEF OneWorker
    <2>3. FilledSoFar'  BY <2>1, <2>2, SettersAre DEF FilledSoFar
    <2>4. AccountIsMine' /\ OwnContent'  BY <2>1, <2>2 DEF AccountIsMine, OwnContent
    <2> QED  BY <2>3, <2>4
  <1>2. ASSUME NEW w \in Worker, Set(w)
        PROVE  FilledSoFar' /\ AccountIsMine' /\ OwnContent'
    <2> DEFINE s == Setters[step[w]]
    <2>1. step[w] \in 1..6 /\ pc[w] = "fill" /\ request[w] \in Request
      BY <1>0, <1>2, SettersAre DEF Set, TypeOK
    <2>2. \A v \in Worker : v = w  BY DEF OneWorker
    <2>3. s \in Field  BY <2>1, SettersAre
    <2>4. account' = Fill(w, s) /\ request' = request  BY <1>2 DEF Set
    <2>5. /\ s # "attachment" => account'[s] = FromJson(request[w], s)
          /\ \A g \in Field : g # s => account'[g] = account[g]
      BY <1>0, <2>1, <2>3, <2>4, FillIs DEF TypeOK
    <2>6. \A i \in 1..Len(Setters) : (i <= step[w] /\ Setters[i] # "attachment")
             => account'[Setters[i]] = FromJson(request[w], Setters[i])
      <3> SUFFICES ASSUME NEW i \in 1..Len(Setters), i <= step[w], Setters[i] # "attachment"
                   PROVE  account'[Setters[i]] = FromJson(request[w], Setters[i])
        OBVIOUS
      <3>1. CASE Setters[i] = s  BY <2>5, <3>1
      <3>2. CASE Setters[i] # s
        <4>1. i < step[w] /\ i \in Nat  BY <2>1, <3>2, SettersAre
        <4>2. account[Setters[i]] = FromJson(request[w], Setters[i])
          BY <1>0, <2>1, <4>1 DEF FilledSoFar
        <4> QED  BY <2>5, <3>2, <4>2, SettersAre
      <3> QED  BY <3>1, <3>2
    <2> HIDE DEF s
    <2>7. CASE step[w] < Len(Setters)
      <3>1. pc'[w] = "fill" /\ step'[w] = step[w] + 1
        BY <1>0, <1>2, <2>1, <2>7 DEF Set, TypeOK, StepOK
      <3>2. FilledSoFar'
        BY <2>1, <2>2, <2>4, <2>6, <3>1, SettersAre DEF FilledSoFar, FromJson
      <3>3. AccountIsMine' /\ OwnContent'  BY <2>2, <3>1 DEF AccountIsMine, OwnContent
      <3> QED  BY <3>2, <3>3
    <2>8. CASE ~(step[w] < Len(Setters))
      <3>1. pc'[w] = "session" /\ mail'[w] = <<>>
        BY <1>0, <1>2, <2>1, <2>8 DEF Set, TypeOK, StepOK
      <3>2. \A i \in 1..Len(Setters) : i <= step[w]  BY <2>1, <2>8, SettersAre
      <3>3. AccountIsMine'
        BY <2>2, <2>4, <2>6, <3>2, SettersAre DEF AccountIsMine, FromJson
      <3>4. FilledSoFar'  BY <2>2, <3>1 DEF FilledSoFar
      <3>5. OwnContent'
        <4>1. Len(mail'[w]) = 0  BY <3>1
        <4> QED  BY <2>2, <4>1 DEF OwnContent
      <3> QED  BY <3>3, <3>4, <3>5
    <2> QED  BY <2>7, <2>8
  <1>3. ASSUME NEW w \in Worker, Session(w)
        PROVE  FilledSoFar' /\ AccountIsMine' /\ OwnContent'
    <2> DEFINE v == account[Parts[step[w]].field]
    <2>1. /\ pc[w] = "session" /\ step[w] \in 1..9 /\ step[w] = Len(mail[w]) + 1
          /\ mail[w] \in Seq(Value)
      BY <1>0, <1>3, PartsAre DEF Session, TypeOK, StepOK
    <2>2. \A x \in Worker : x = w  BY DEF OneWorker
    <2>3. mail'[w] = Append(mail[w], v)
      BY <1>0, <1>3 DEF Session, ReadPart, TypeOK
    <2>4. account' = account /\ request' = request  BY <1>3 DEF Session
    <2>5. pc'[w] \in {"session", "sent"}
      BY <1>0, <1>3, <2>1 DEF Session, ReadPart, TypeOK
    <2>6. FilledSoFar'  BY <2>2, <2>5 DEF FilledSoFar
    <2>7. AccountIsMine'  BY <1>0, <2>1, <2>2, <2>4 DEF AccountIsMine, FromJson
    <2>8. ASSUME NEW i \in 1..Len(mail'[w]), Parts[i].field # "attachment"
          PROVE  mail'[w][i] = FromJson(request[w], Parts[i].field)
      <3>1. CASE i = step[w]
        <4>1. Parts[i].field \in Field  BY <2>1, <3>1, PartsAre
        <4>2. account[Parts[i].field] = FromJson(request[w], Parts[i].field)
          BY <1>0, <2>1, <2>8, <4>1 DEF AccountIsMine
        <4>3. mail'[w][i] = account[Parts[i].field]  BY <2>1, <2>3, <3>1
        <4> QED  BY <4>2, <4>3
      <3>2. CASE i # step[w]
        <4>1. i \in 1..Len(mail[w]) /\ mail'[w][i] = mail[w][i]  BY <2>1, <2>3, <3>2
        <4>2. mail[w][i] = FromJson(request[w], Parts[i].field)
          BY <1>0, <2>1, <2>8, <4>1 DEF OwnContent
        <4> QED  BY <4>1, <4>2
      <3> QED  BY <3>1, <3>2
    <2> HIDE DEF v
    <2>9. OwnContent'  BY <2>2, <2>4, <2>8 DEF OwnContent, FromJson
    <2> QED  BY <2>6, <2>7, <2>9
  <1>4. ASSUME NEW w \in Worker, Respond(w)
        PROVE  FilledSoFar' /\ AccountIsMine' /\ OwnContent'
    <2>1. pc'[w] = "idle"  BY <1>0, <1>4 DEF Respond, TypeOK
    <2>2. \A v \in Worker : v = w  BY DEF OneWorker
    <2> QED  BY <2>1, <2>2 DEF FilledSoFar, AccountIsMine, OwnContent
  <1>5. CASE UNCHANGED vars
    BY <1>0, <1>5 DEF vars, FilledSoFar, AccountIsMine, OwnContent, FromJson
  <1> QED  BY <1>1, <1>2, <1>3, <1>4, <1>5 DEF Next

(* With one worker, every part of a mail, but for the attachments, is what *)
(* the request that is being processed gave for it: the setters of         *)
(* handle_email_POST are all called before startEmailTransaction, and      *)
(* nothing writes the Account until that returns.                          *)
THEOREM OwnContentAlone ==
    ASSUME OneWorker
    PROVE  Spec => []OwnContent
PROOF
  <1>1. Init => MInv  BY InitTypes, InitMine DEF MInv
  <1>2. MInv /\ [Next]_vars => MInv'  BY TypesKept, MineKept DEF MInv
  <1>3. MInv => OwnContent  BY DEF MInv
  <1> QED  BY <1>1, <1>2, <1>3, PTL DEF Spec

=============================================================================

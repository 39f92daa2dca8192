---------------------------- MODULE MailRequest ----------------------------
(***************************************************************************)
(* POST /api/v1/email: the workers put the fields of a request into the    *)
(* one SMTP::Account of the process, one setter after the other, and start *)
(* a session (SmtpSession), whose states read them back one by one, on the *)
(* reactor thread.  Nothing locks the Account between the two.             *)
(*                                                                         *)
(* The value of a field is the request it came from.  The JSON body of a   *)
(* request is the set of its keys; a body that is no JSON, or that the     *)
(* parser does not take for one, ends the process.  Every request is made  *)
(* once.                                                                   *)
(***************************************************************************)
EXTENDS Integers, Sequences

CONSTANTS
    Worker,
    Request,
    Keys,           \* the keys of the JSON body of each request
    NotJson,        \* the requests whose body is not JSON, or empty
    Configured,     \* value: what the options --email-from-... gave
    Empty,          \* value: the empty string or list
    NoRequest

Key == {"to", "subject", "body", "emailbody", "files", "from", "passwd"}
ASSUME KeysAssumption == Keys \in [Request -> SUBSET Key]
ASSUME NotJsonAssumption == NotJson \subseteq Request
ASSUME ValuesAssumption ==
    /\ {Configured, Empty, NoRequest} \cap Request = {}
    /\ Configured # Empty

Value == Request \cup {Configured, Empty}

(* The setters handle_email_POST calls, in order, and the key of each.     *)
Setters == <<"to_email", "email_subject", "email_body", "from_email",
             "from_password", "attachment">>
Field == {Setters[i] : i \in 1..Len(Setters)}
KeyOf == [to_email |-> "to", email_subject |-> "subject", email_body |-> "emailbody",
          from_email |-> "from", from_password |-> "passwd", attachment |-> "files"]

(* The parts of a mail, in the order in which the session reads them.      *)
Parts == <<[part |-> "username",   field |-> "from_email"],
           [part |-> "password",   field |-> "from_password"],
           [part |-> "MAIL FROM",  field |-> "from_email"],
           [part |-> "RCPT TO",    field |-> "to_email"],
           [part |-> "From",       field |-> "from_email"],
           [part |-> "To",         field |-> "to_email"],
           [part |-> "Subject",    field |-> "email_subject"],
           [part |-> "attachment", field |-> "attachment"],
           [part |-> "text",       field |-> "email_body"]>>
RcptTo == 4

VARIABLES
    todo,       \* the requests that have not been made yet
    pc,         \* control point of each worker
    request,    \* the request it processes
    step,       \* the setter or the part that comes next
    account,    \* the fields of Account::instance()
    mail        \* what the session of a worker has read so far

vars == <<todo, pc, request, step, account, mail>>

TypeOK ==
    /\ todo \subseteq Request
    /\ pc \in [Worker -> {"idle", "fill", "session", "sent", "crashed"}]
    /\ request \in [Worker -> Request \cup {NoRequest}]
    /\ account \in [Field -> Value]
    /\ mail \in [Worker -> Seq(Value)]
    /\ \A w \in Worker :
          /\ pc[w] = "fill" => step[w] \in 1..Len(Setters)
          /\ pc[w] = "session" => step[w] = Len(mail[w]) + 1
          /\ pc[w] = "sent" => Len(mail[w]) = Len(Parts)
          /\ pc[w] # "idle" => request[w] \in Request \ todo

Init ==
    /\ todo = Request
    /\ pc = [w \in Worker |-> "idle"]
    /\ request = [w \in Worker |-> NoRequest]
    /\ step = [w \in Worker |-> 1]
    /\ account = [f \in Field |->
                    IF f \in {"from_email", "from_password"} THEN Configured ELSE Empty]
    /\ mail = [w \in Worker |-> <<>>]

-----------------------------------------------------------------------------
(* bsoncxx::from_json throws on a body that is no JSON, also on an empty   *)
(* one, and nothing catches it.                                            *)
Take(w, r) ==
    /\ pc[w] = "idle" /\ r \in todo
    /\ todo' = todo \ {r}
    /\ request' = [request EXCEPT ![w] = r]
    /\ pc' = [pc EXCEPT ![w] = IF r \in NotJson THEN "crashed" ELSE "fill"]
    /\ step' = [step EXCEPT ![w] = 1]
    /\ mail' = [mail EXCEPT ![w] = <<>>]
    /\ UNCHANGED account

(* What the handler found in the body for a field: the value of its key,   *)
(* or, without the key, an empty string or list.                           *)
FromJson(r, f) == IF KeyOf[f] \in Keys[r] THEN r ELSE Empty

(* One setter call; the attachments are only set when there are some.      *)
Fill_KeepOld(w, f) ==                                             \* mutant
    IF FromJson(request[w], f) = Empty THEN account
    ELSE [account EXCEPT ![f] = FromJson(request[w], f)]
Fill(w, f) ==
    IF f = "attachment" /\ FromJson(request[w], f) = Empty
    THEN account ELSE [account EXCEPT ![f] = FromJson(request[w], f)]

Set(w) ==
    /\ pc[w] = "fill"
    /\ account' = Fill(w, Setters[step[w]])
    /\ IF step[w] < Len(Setters)
       THEN step' = [step EXCEPT ![w] = @ + 1] /\ UNCHANGED pc
       ELSE step' = [step EXCEPT ![w] = 1] /\ pc' = [pc EXCEPT ![w] = "session"]
    /\ UNCHANGED <<todo, request, mail>>

(* The session reads the field of the next part.  Without a recipient it   *)
(* sends no RCPT command and gets no further.                              *)
ReadPart_Skip(w) ==                                               \* mutant
    /\ mail' = [mail EXCEPT ![w] = IF account[Parts[step[w]].field] = Empty THEN @
                                   ELSE Append(@, account[Parts[step[w]].field])]
    /\ step' = [step EXCEPT ![w] = @ + 1]
    /\ pc' = IF step[w] = Len(Parts) THEN [pc EXCEPT ![w] = "sent"] ELSE pc
ReadPart(w) ==
    /\ mail' = [mail EXCEPT ![w] = Append(@, account[Parts[step[w]].field])]
    /\ step' = [step EXCEPT ![w] = @ + 1]
    /\ pc' = IF step[w] = Len(Parts) THEN [pc EXCEPT ![w] = "sent"] ELSE pc

Session(w) ==
    /\ pc[w] = "session"
    /\ step[w] > RcptTo => mail[w][RcptTo] # Empty
    /\ ReadPart(w)
    /\ UNCHANGED <<todo, request, account>>

(* startEmailTransaction returns when the session is over, however far it  *)
(* got, and the request is answered with success.                          *)
Respond(w) ==
    /\ pc[w] \in {"session", "sent"}
    /\ pc' = [pc EXCEPT ![w] = "idle"]
    /\ request' = [request EXCEPT ![w] = NoRequest]
    /\ UNCHANGED <<todo, step, account, mail>>

Running == \A w \in Worker : pc[w] # "crashed"
Next == Running /\ \E w \in Worker :
    \/ \E r \in Request : Take(w, r)
    \/ Set(w) \/ Session(w) \/ Respond(w)

Spec == Init /\ [][Next]_vars

-----------------------------------------------------------------------------
(* Properties.                                                             *)

InSession(w) == pc[w] \in {"session", "sent"}

(* "Send e-mail with POST request": what a session sends is what its own   *)
(* request gave, nothing of another one, and nothing it gave is missing.   *)
(* Attachments are left out: the Account keeps those of an earlier mail.   *)
(* Holds for one mail at a time.                                           *)
OwnContent ==
    \A w \in Worker : InSession(w) =>
        \A i \in 1..Len(mail[w]) : LET f == Parts[i].field IN
            f # "attachment" => mail[w][i] = FromJson(request[w], f)

=============================================================================

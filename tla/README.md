# granada in TLA+

granada is a C++ server (ACE, OpenSSL, the MongoDB driver) that serves the REST
interface of a shipping business and sends its e-mails.  This directory models
its control: the reactor and its workers, the framing of requests, the SMTP
session and the threads around it, the server while it sends e-mails, the text
parser, and the REST handlers over the database.  TLC checks small instances;
TLAPS proves the safety of the server, of the framing of requests, of the text
parser, of an SMTP session and the threads around it, of the Account and of the REST
handlers for all values of their constants: every invariant that a passing run checks,
for mails as long as no line of the SMTP server is cut in two (section 4).

## 1. The system

| Component | Code | State | Operations | Interacts with |
|---|---|---|---|---|
| WebServer | `src/webservice.cc` 1700-1965, `inc/webservice.h` 183-240 | pool of connections by descriptor, list of workers and round robin iterator, shutdown semaphore, `m_stopMe` | accept, cleanup timer, signals, event loop, destructor | reactor call-backs; queues of the workers |
| MicroService (worker) | `webservice.cc` 1600-1675 | message queue, `m_continue` | take a request, process it, write the answer to a descriptor number; stop on `MB_PCSIG` | the semaphore; MongoDB; SMTP::User |
| WebConnection | `webservice.cc` 1982-2215 | buffer, expected length, timer id | buffer a request, hand it to a worker | recv; the WebServer's pool |
| Http, URI | `src/http_parser.cc` | a map of tokens | header, body, parameters | all handlers |
| REST handlers | `webservice.cc` 15-1567 | none of their own | shipments, accounts, inventory, documents: POST, GET, PUT, DELETE | MongoDB |
| MongodbClient | `mongodbc/src/mongodbc.cc` | pool of driver connections | find, update, insert, delete | shared by the workers |
| SMTP::User, Client | `src/emailservice.cc`, `inc/emailservice.hpp` | `m_mailServiceAvailable`, a semaphore, the stream | connect, read, write, stop | worker (waits for the mail), a mail thread, the reactor |
| SMTP states | `src/emailservice_fsm.cc` | the active state, step of the login | `onResponse` of GREETING, HELO, MAIL, RCPT, DATA, BODY, QUIT | the SMTP server |
| SMTP::Tls | `emailservice.cc` 6-100 | `m_isTlsUP`, the SSL object | start, read, write | the stream |
| SMTP::Account | `emailservice.hpp` 450-542 | one instance: addressee, text, sender, files | setters and getters | written by `handle_email_POST`, read by the session |
| main | `src/webservice_main.cc` | none | options, set-up | all |

The hard parts are concurrent: one reactor thread, N workers, and during a mail
a further thread that runs the same reactor; they share descriptor numbers, the
connection pool, one semaphore per purpose, and the Account, mostly with no
lock.  TCP splits and joins what it carries, timers race with readers, signals
nest.  What makes each component correct:

* WebServer: no handler or timer outlives its connection; requests queued are
  answered; a signal leads to a stop in which workers finish one by one.
* WebConnection: each message handed to a worker is exactly one request.
* SMTP: the mail is delivered once, or the session ends; credentials only go
  where the server asked for them; nobody waits for ever.
* Account: a mail has the content of its own request.
* REST: a delivered shipment is final; what one handler creates the others find;
  stock changes are neither lost nor made twice, and stay with their account.

`PROJECT.json` lists the hazards at the lines where they bite.

## 2. The modules

| Module | Models | Notes |
|---|---|---|
| `ServerLife` | - | what the server promises its clients |
| `WebServer` | WebServer, MicroService, lifetime of connections | implements `ServerLife` |
| `Granada` | the server while workers send mails | EXTENDS `WebServer` |
| `WebConnection` | framing of requests, `Http::get_header`, `get_body` | byte streams |
| `HttpParser` | `parse_uri`, `parse_mime_header`, the map they fill | a client that encodes, the machine that decodes |
| `SmtpSession` | SMTP states, Tls, reader of replies; a server with faults | implements `MailTransfer` |
| `MailTransfer` | - | what a mail transaction promises |
| `MailTransaction` | the three threads of a mail | EXTENDS `SmtpSession` |
| `MailRequest` | `handle_email_POST` and the Account | |
| `RestApi` | REST handlers, the MongoDB calls, the relay to ajoul | |
| `WebServerProofs` | - | theorems of WebServer: shutdown, connections, refinement |
| `GranadaProofs`, `WebConnectionProofs`, `HttpParserProofs`, `SmtpSessionProofs`, `MailTransactionProofs`, `MailRequestProofs`, `RestApiProofs` | - | theorems of the others |
| `MC*` | instances for TLC | |

How they fit together: `WebConnection` is what `ReadRequest` of `WebServer` does in
detail; `RestApi` and `MailRequest` are what a worker does while `WebServer` has it
busy; `MailTransaction` is what `Granada` abstracts to a session that is over some
time, and `SmtpSession` what goes over the wire meanwhile.

### WebServer
`master` is the control point of the reactor thread: `spawn` (the constructor
starts a worker per acquire), `loop` (handle_events), `put` (inside the `putq` of
a request), `close` (between the two closes of a timed out connection), `exited`,
`gone`.  `frames` is the stack of `handle_signal` calls: a signal is delivered
where the thread waits, so that a SIGTERM may nest in the handler of a SIGINT;
`next` is the worker the frame has come to, `holding` that it has acquired but
not put `MB_PCSIG` yet.  A descriptor is a number: `fdt` says who owns it
(a connection, a file of a worker, nobody), `pool` what the server believes,
`reg` what is registered, `timers` which cleanup timers are pending.  A worker is
`none`, `spawned` (created, has not released yet), `idle`, `busy`, `acking`
(queue deactivated, about to release) or `stopped`.  Time is abstracted: a
pending timer may fire at any moment.  Timer id 0 is not restarted by
`handle_input` (`timerId() > 0`), hence the alternative in `ReadEof`.

### ServerLife
Five phases, the requests that were taken, and the work of each worker.  The
mapping at the end of `WebServer` takes the phase from `master`, `stopMe` and
`frames`, the work of a worker from what it processes and the part of its queue
ahead of `MB_PCSIG`; a request is taken when it was read from its connection and is
not in a `putq` any more.  The read itself is one step (`ReadRequest`), also where the
code waits in recv; section 5 says what a signal can do there.

### Granada
`mail` is how far the mail of each worker is: `starting` (User and Client are
created), `registered` (with the reactor for READ), `session` (the Client also owns
the signals), `over`.  `owner` is who is registered for SIGINT and SIGTERM: the
server, or the worker whose Client registered last; `stop()` gives nothing back.  A
signal the Client gets is `lost` to the server.  Steps of the reactor thread and of
workers that send no mail are those of `WebServer`, and so is the reactor's right
to dispatch (`Dispatching`): the session goes on only between two handlers.

### WebConnection
A byte is a pair (request, position).  `ReadFirst` is the first recv with the
computation of the expected length, `LoopRecv`, `LoopEof`, `LoopError` the loop
for the rest, in which the reactor thread stays (`reactor`, `current`).  A header
has `HdrLen` bytes; `CTPos` and `CLPos` stand for the Content-Type and
Content-Length fields.  A tidy client sends a header in one segment and waits for
a request to be read before it sends the next; `manners` is what a client may do
beyond that (split a header, pipeline, reset, give a length that is no number), chosen
in `Init` out of `Manners`.

### HttpParser
The client chooses a request and a style and writes it: a request line of symbols
(characters, escapes, the word HTTP), header lines, and the body, which `get_header`
includes unless it is JSON.  `parse_uri` is one action per case of its switch,
`parse_mime_header` one step per line; what both find goes into `tokenMap`, whose
`insert` keeps the first value.

### SmtpSession and MailTransfer
A reply is a code and the text that follows it, a chunk a prefix of the replies
that have arrived; `Read(k)` reads k of them at once.  The hash map of
`getSmtpStatusCode` yields any of them.  `tlsUp` is `m_isTlsUP`, which no
constructor sets.  The server of the model answers by the protocol; `faults` is
what else may happen, chosen in `Init` out of `FaultSets`: rejections and an idle
time-out (`Polite`), a connection that breaks, replies that do not follow the
protocol, a failed handshake, a first value of `m_isTlsUP` other than false, and a
network that cuts a line in two (`midLine`).

`parseSmtpCommand` looks at every chunk alone, and nothing puts a line together that
TCP has cut.  `Cuts(line)` is what the two parts are parsed to, in their chunks:
nothing at all (cut in the code), a reply whose text is only a part or the whole of
the first word, and for the rest an exception of `stoi` (`throws`), a reply with some
other number, a word that spoils the number of the line behind it (`glued`), or
nothing.  A chunk without any reply makes `getSmtpStatusCode` read the first element
of an empty map: `rx` crashes there, and where `stoi` throws.

What the client writes to a connection the server has closed is lost, and makes its
host reset the connection (`server` becomes `reset`).  A later write fails: it raises
SIGPIPE, which ends the process, or `Tls::write` repeats `SSL_write` for ever
(`MayFail`, `reactor` becomes `crashed` or `stuck`).  A server that closes with
commands unread resets the connection at once (`Quit`).
The refinement mapping takes `progress` from the acceptance of the message by the
server, the state QUIT and the login, and `open` from `m_mailServiceAvailable`.

### MailTransaction
`worker` runs `startEmailTransaction`, `thread` the Client's `svc` and `main`, and the
reactor call-backs run in either.  `sem` is the semaphore, `semPtr` that its
`unique_ptr` is not null (`main` ends with `m_semaphore.release()`, which is
`unique_ptr::release`).

### MailRequest
A value of the Account is the request it came from, `Configured`, or `Empty`.  A worker
fills the fields one by one, then its session reads the parts one by one.  A body that
is not JSON, or empty, throws in the first `from_json...`, and the process ends.

### RestApi
A document is its collection, the values at the paths that filters use, the
activity of a shipment and the quantity of a stock.  `process_request(r)` is the
dispatch and the handlers, up to the call of the database: which collection, which
filter, what to do, and the answers with and without a match.  `InsertNext` and
`Visit` are one document of the call (MongoDB is atomic per document),
`DatabaseFails` an exception of the driver before, between or after two of them,
`Send` the answer, of which status, declared length and length sent are kept.
`Connected`, `Authorized`, `Created` and `RelayFails` are the relay of a shipment to
ajoul, which is external and may fail in every way.  `done` counts what a request
has changed, `booked` what clients were told of the stock.  The requests come from a
suite, chosen in `Init` out of `Suites`; pages of the web interface and the
configuration are requests of a suite too.

## 3. The runs

Fault sets, manners and suites are chosen in `Init`, so that one run checks each
property wherever its premise holds: a property that needs, say, a tidy client
names it.

| Run | Checks | Bounds, and why they are enough |
|---|---|---|
| `server_core` | TypeOK, OneToken, AtMostOneRuns, ShutdownProgress, HandlersAlive, TimersMatchPool, PoolOwnsFd, LifeSpec | 3 connections on 2 descriptors and 3 timers: numbers are reused; 2 workers with queues of 1: putq waits, and there is a first and a last worker; 2 signals, nested or in sequence; a file that a worker opens |
| `server_live` | SignalStops, PeerClosedReaped, RequestServed | 2 workers with queues of 2, 2 connections on one descriptor with 2 requests each, 1 signal: after a second one the shutdown may hang (section 5) |
| `granada_mails` | GTypeOK, HandlerReturns, MailReturns | 2 workers with queues of 1, 2 mails: both may send one at a time, or one after the other; 5 requests on one connection: both queues full and one more; 1 signal, for the server or for a Client |
| `smtp_faults` | TypeOK, SecretsAnswerChallenges, NeverMisread, AlwaysReturns, TransferSpec, MailDelivered, SessionEnds | five fault sets: none; the polite ones without and with rejected recipients; those `SessionEnds` is about; all, with lines cut anywhere; 3 recipients: pipelined replies in every split, and a QUIT more than once; a message of 2 lines: a server that reads it as commands answers twice |
| `tx_threads` | TxTypeOK, UserOutlivesInput, AcquireNeverWaits, WorkerReturns | all interleavings of three threads; all faults with lines cut anywhere, and the polite ones with a greeting that comes when the worker already waits |
| `conn_framing` | TypeOK, FramingExact, BytesKept, SentIsProcessed | 2 clients with requests of every kind, both tidy or one with all bad manners; a recv of 4 bytes and headers of 3: a request in one recv, in several, and two in one |
| `http_texts` | TypeOK, QueryAsSent, HeadersAsSent | up to 2 parameters, equal or different, values with every character that has a meaning, 3 ways to escape; headers that repeat names or the name of a parameter, bodies that look like headers |
| `mail_serial` | TypeOK, OwnContent | one worker, 4 requests in any order: three with different keys, one whose body is not JSON |
| `rest_suites` | TypeOK, FoundIfThere, StockMatchesAnswers, AnswerMatchesEffect, DeliveredIsFinal, OwnDocsOnly | 2 workers; a suite of shipments (creation in bulk, single and list update, delivery, query) and one of stock (accounts whose codes have 2 and 3 characters, one sku), 4 requests each; one with every endpoint and branch, 2 requests |

What the properties are about is said above each of them in its module.  Some have
premises, and the premises are what the code needs: `PoolOwnsFd` that no worker has
opened a file, `RequestServed` a worker that is not the last (nobody waits for it),
`AlwaysReturns` a server that keeps to the protocol and a network that cuts no line
(and, where the server rejects recipients, that no QUIT goes to a connection it has
reset), `MailDelivered` a server that accepts everything and no line cut, `SessionEnds`
a server that gives up idle clients and none of the faults in `Spinning`, which leave the
reactor thread in `Tls::write` or the client logging in for ever, `WorkerReturns` that
the greeting is not lost,
`FramingExact` headers in one segment, `SentIsProcessed` tidy clients that do not
close in the middle of a request, `HeadersAsSent` names that no parameter has and
values without blanks, `StockMatchesAnswers` a sku that was created once,
`OwnDocsOnly` a request that is no deletion and whose two lengths share a bit.
`HandlerReturns` and `MailReturns` name the
one circle in which they fail.  Section 5 says what happens without them.

Deadlock is checked in `server_live` and `server_stale`, where everything but the
final state can go on.  Elsewhere it is off: a session ends, the requests are used
up, a process crashes, and with two signals or a mail the shutdown may hang.

Runs that TLC finds violated; each is a finding in `PROJECT.json` with the line it
contradicts.

| Run | What the counterexample is |
|---|---|
| `server_stale` | a connection is closed by its timer while its request is processed; the answer goes to the next client on that descriptor |
| `granada_deaf` | a mail registers its Client for SIGINT; the next SIGINT goes to the Client, and the server does not stop |
| `mail_mixed` | two workers fill and read the one Account: a mail has the addressee of one request and the text of another |

### Fairness
`WebServer!Fairness`: every thread runs, the reactor serves every ready handle and
every due timer (`select` reports all of them), a worker finishes what it
processes.  Nothing is assumed of clients and signals.  `Granada!GFairSpec`: the same,
and a worker registers its client when the reactor lets it, a session is dispatched
until it is over (its server gives up idle clients), `startEmailTransaction` returns
when the flag is down; nothing is assumed while the reactor thread is in a handler.
`WebConnection!FairSpec`: strong fairness of the dispatch to each connection (`Serve`), since the loop for the rest
of a request disables it again and again but a ready handle is dispatched when the
thread is back in the reactor; weak fairness of that loop (`Loop`); a client
finishes a request it has begun or closes.  `SmtpSession!FairSpec`: what has arrived
is read, the server answers and, where the fault set says it may, gives up an idle
client: the program has no timer of its own.

## 4. The proofs

The assumptions are those at the head of the modules (sizes are positive, bounds
are naturals, model values are distinct from data; in `RestApi` that a request is
what its JSON and its query can be: documents are records, quantities numbers, lists
finite) and, for some theorems, premises that are named in their statement.  TLC
evaluates the assumptions, and the premises about the requests of a suite
(`PlainSuites`), on the instances it checks.

### The server: `WebServerProofs`
For every `NWorkers`, `QueueMax` and every set of connections, descriptors and timers:

* `TypeCorrect`: `Spec => []TypeOK`.
* `TokenUnique`: `Spec => []OneToken`.
* `ShutdownInOrder`: `Spec => []ShutdownProgress`.
* `DrainedBeforeStop`: `Spec => []AtMostOneRuns`.
* `TimersAgree`, `NoDanglingHandler`, `DescriptorsOwned`: `Spec => []TimersMatchPool`,
  `[]HandlersAlive`, `[]PoolOwnsFd`.
* `ServerImplementsLife`: `Spec => LifeSpec`.

The shutdown.  A unit of the semaphore is a right to go on, and it is in one place:
the semaphore, a worker that has not released yet, or a frame of `handle_signal`
between its acquire and its putq.  `OneToken` says so, but it is not inductive: that
`SignalPut` puts the `MB_PCSIG` of a worker that does not hold one already, and that
a release comes from the one holder, needs to know how far each frame is.
`ShutdownProgress` says that; the two together are the invariant `SInv`.
`AtMostOneRuns` follows: when `stopMe` is set all workers were told, and those not
stopped hold the one token.  The steps that do not touch semaphore, frames, queues
and workers are one lemma (`SInvQuiet`), the others have one lemma each.

The connections.  `CInv` is `TimersMatchPool`, `PoolOwnsFd`, `RegPooled` (what is
registered is pooled until the shutdown deletes the connections, also while no event
can be dispatched) and `CloseSafe` (between the two closes of a timed out connection
its descriptor is not pooled, and as long as no worker opens a file it cannot be
given out).  `HandlersAlive` is a part of it.

The refinement.  `LInv` adds to `SInv` what the mapping looks at: workers were told
in order and only by a signal (`ToldInOrder`, `ToldBySignal`), the request in a
`putq` is the next one of its connection (`PutIsNext`), a worker is busy exactly
when it has a request (`BusyHasRequest`).  Then `StartLoop` is `Serve`; `PutRequest`
is `HandOver`, or `ThrowAway` when the queue is deactivated; `Respond` is `Answer`;
the first `Signal` is `Drain`; the first `SignalFinish` is `Stop`, whose guard
is `AtMostOneRuns`; `Destroy` is `Exit`; every other step stutters.  Lemmas at the
head of the module say what the part of a queue ahead of `MB_PCSIG` is after an
append and after a take.

### The server with mails: `GranadaProofs`
* `MailsRefineServer`: `GSpec => Spec`: seen without its mails the process is a
  WebServer, hence
* `TokenUniqueWithMails` and `LifeWithMails`: the shutdown keeps its order, and the
  server its promise, also while workers send mails.
* `GTypeCorrect`: `GSpec => []GTypeOK`; that a worker in a mail is busy needs
  `ShutdownProgress`, so that no step of the shutdown moves it.

### A session: `SmtpSessionProofs`
For every number of recipients, length of a message and all sets of faults, in sessions
in which no line is cut (`~May("midLine")`, a premise of the statements):

* `SessionTyped`: `Spec => [](~May("midLine") => TypeOK)`.
* `SecretsOnlyToChallenges`, `ContentIsContent`: the same of `SecretsAnswerChallenges`
  and `NeverMisread`.
* `PoliteSessionsReturn`: `Spec => []AlwaysReturns`; its premise `faults \subseteq Polite`
  has no cut lines in it.
* `SessionIsTransfer`: `Spec /\ ~May("midLine") => TransferSpec`, the refinement of
  `MailTransfer`.

The premise is where the proofs end, not the properties, which TLC checks with lines
cut anywhere (`smtp_faults`, `tx_threads`).  A cut line makes two replies of one, and
with each the client and the server get further out of step: the invariant below
rests on the lockstep of the two.  `WholeInv` says that without cuts every chunk is a
row of whole lines, and `NextWhole` that a step then is one of `WholeNext`, where
`Reads(k)` is the one way to read k lines; all else is proved of `WholeNext`.

`SInv` is `TypeOK`, `OpenInv` and `OverInv`.  While the connection is open and the
client alive, `OpenInv` says where both are: up to the reply to MAIL FROM they are
in lockstep, one command or its reply under way (`Lockstep`), and what the client
writes arrives (`Reachable`).  From the recipients on commands are pipelined and the
machine may run ahead of the replies; then the order of what is under way to the
server (`Pipeline`) says how it will be taken: a message finds the server in data
mode, or a DATA is ahead of it, or no recipient was accepted (`DataMode`).
`OverInv` says that afterwards nothing can break the promises any more.  A step of
the server has one lemma per command, a `Read` one per state of the machine.
`PoliteInv` is for servers that keep to the protocol: before TLS the session has but
one course, spelled out in `BeforeTls`; after it (`InTls`) no STARTTLS and no 220 is
under way, so that nothing touches the TLS stream again.
`PatientInv` adds to it, where the server rejects no recipient, why nothing is ever
written to a connection that has been reset.  In QUIT the client writes when it looks
at a reply that is neither a 221 nor a 250 other than "2.0.0" (`Asks`).  Such replies
and the commands that will get one (`Pending`) are none in DATA, at most one in BODY
and at most two in QUIT: a read that writes a command gives up the reply it answers
(`ReadsAndWrites`), a server that answers one gives up the command (`TakeCounts`).  So
when the server takes the first QUIT one of the two is that QUIT, and at most one write
is left to come; if a second QUIT was behind it, and the close resets the connection,
none.  A server that rejects recipients sends more such replies, and there the client
does write after the reset, as `AlwaysReturns` says.

The refinement.  The acceptance of the password is `Login`, the step of the machine to
QUIT `Submit`, the acceptance of the message `Deliver`; the two ends of
`m_mailServiceAvailable` are `Begin` and `End`; the other steps stutter.  The session
could submit before it has logged in, or after it has ended, only on a reply it does
not expect.  `TransferInv` adds to `SInv` that there is none: the states of the mail
come after the login (`LoginFirst`), the replies under way are those the state can
take (`NoStray`), and a client beyond the greeting has not been given up
(`StillOpen`), also where it reads replies of a connection that is gone.

### The threads of a mail: `MailTransactionProofs`
For every set of faults, that is whatever the server does and in whatever order the
worker, the Client's thread and the reactor call-backs run, as long as no line is cut:

* `TxTyped`: `TxSpec => [](~May("midLine") => TxTypeOK)`.
* `NoInputAfterReturn` and `AcquireIsFree`: the same of `UserOutlivesInput` and
  `AcquireNeverWaits`.

`TxInv` is `TxTypeOK`, `Talk` and `ThreadInv`.  The worker may put the machine back to
GREETING in the middle of the dialogue, which no step of a session does, so that
`SInv` is no invariant here.  `Talk` says what is left of it: which commands and
replies can be under way together, in which order (`Dialogue`), that the recipients
are sent in one row (`OneBatch`), and above all that STARTTLS is asked once and
`endEmailTransaction` comes once (`TlsAsked`, `OneEnd`).  `ThreadInv` counts the units
of the semaphore (`Units`: one at first and one from `svc`, less that of the worker
and the one of the reactor thread); `AcquireNeverWaits` follows from that count and
from `Lively`, that what the reactor still has to finish is there.
`UserOutlivesInput` follows from `DoneIsOver` and `HandlerGone`: the worker leaves its
loop when the flag is down, and with the handler still there the flag is down only
while the call that removes it is under way.

### The framing: `WebConnectionProofs`
For every set of clients, their requests and manners, every length of a header and
of a recv:

* `Typed`: `Spec => []TypeOK`.
* `FramingIsExact`: `Spec => []FramingExact`.
* `BytesAreKept`: `Spec => []BytesKept`.

`ConnInv` says of the reactor thread that it stays in its loop only for a request of
which a part is missing (`Reader`), and of each connection its types, `Kept` (messages,
buffer and inbox are in this order what was sent) and, when its client is tidy,
`Framed`: the messages are the first requests, each whole; the bytes in the buffer and
in the inbox are of the next one, in order; the expected length is its length; and
the first segment of a request holds its header, or all of it when it has no length.
`FlattenSeq` is a recursive function over sequences of unbounded length.  The
induction theorems of the library cannot be used, for they take an operator as a
parameter, but an induction can be stated for a set: a set of naturals with 0 that
is closed under successor has all of them (`NatSetInduction`, from the well-founded
order of the naturals), and the numbers for which a lemma holds are such a set.

### The text parser: `HttpParserProofs`
For every alphabet (with the `G` of a request line, and the characters that have a
meaning apart), every request and style of encoding:

* `Typed`: `Spec => []TypeOK`.
* `QueryIsAsSent`: `Spec => []QueryAsSent`.
* `HeadersAreAsSent`: `Spec => []HeadersAsSent`.

The parser does not know what it reads; `UriPlace` says where it is in what the
client encoded: before the path (`AtStart`), in a text (`InTarget`), or behind the
target (`AtEnd`).  In a text, what was read and what is left of it (`Reading`) are the
path, or the name or the value of the i-th parameter, and the rest of the input is
what follows it (`InPath`, `InName`, `InValue`); the map holds the parameters before
it, a repeated name with its first value (`QueryRead`).  A character of a text is read
as itself, whatever its encoding, and only a delimiter ends the text (`EncodedIs`,
`CharRead`).  `MimePlace(m)` says that m lines were read: the headers among them that
no parameter hides are in the map, and the names of the others are not
(`HeadersRead`); after the headers a line can only add keys, since `insert` replaces
nothing (`PastHeaders`).  `Rest` and `Squeezed` are recursive functions that build a
text from its end; `BackwardExists` and `BackwardTyped` are about both, by the
induction over sets of naturals above.

### The Account and the REST handlers
* `MailRequestProofs!TypeCorrect`: `Spec => []TypeOK`; `OwnContentAlone`: with one
  worker (`OneWorker`), `Spec => []OwnContent`.  `MInv` says that what was set so far
  is the worker's request, and that during a session the Account holds it.
* `RestApiProofs!DeliveredStays`: `Spec => DeliveredIsFinal`, for every suite: both
  filters of `handle_shipment_PUT` exclude a proof of delivery, and they are tested
  again for each document.
* `OthersSpared`: `Spec => OwnDocsOnly`, for every suite.  The property itself names the
  two ways in which the code reaches documents of other accounts: `handle_DELETE`
  ignores `accountCode`, and the lengths of a stock update may share no bit
  (`Overlooked`).
* `AnswersAreTrue`: `Spec => []AnswerMatchesEffect`.  `EffectOK` relates, at each control
  point, what was done so far to the count from which the answer is made.
* `Typed`: `Spec => []TypeOK`.  A count stays below the number of documents because a
  scan counts only what it has `seen`, and sees a document once (`Counted`).
* `ThereIsFound`: `Spec => []FoundIfThere` when updates of shipments are read as they
  are meant (`UpdatesPlain`: the text of a PUT names no other method, the single
  number and the account are no lists, a shipment has an account).  `Looked` says that
  while nothing was found nothing that was `seen`, and at the end nothing that was
  `there`, matches the call; that it stays so although other workers change the
  documents is `Fate`: a document keeps its collection and the paths that filters use,
  a deleted one does not come back, a delivered one does not change.
* `StockIsAsTold`: `Spec => []StockMatchesAnswers` when stock requests name no other
  method and create one sku at a time (`StockPlain`), and the mark of a deleted
  document is not a document (`DeletedIsNone`).  Between the update of a document and
  its answer a change is pending with its worker (`Pend`), and `StockIs` says that the
  quantity is what was told plus what is pending with all workers.  That sum over a
  set of workers of unknown size is not computed, but stated to exist: `Total(P, t)`
  says that there is a measure of sets of workers to which each contributes its
  number and which is `t` for all of them.  Two lemmas are all that is needed: it is 0
  if nobody has anything pending, and moves by `d` when one worker's number does.

### Only model-checked
All liveness properties: fairness and ENABLED are beyond these provers.  The safety of
a mail on a network that cuts lines.

## 5. Other disagreements of the code with itself

Met while modelling, present in the models, and excluded by a premise of the
properties instead of shown by a run.  Three are stated as properties that no run
checks, since they do not hold; to see why, name them in the given cfg.

* `WebServer!StopMeStops` (`MCWebServer_live.cfg` with `MaxSignals = 2` and
  `CHECK_DEADLOCK FALSE`, for the process then hangs): a second
  signal nests in the handler of the first (`webservice.cc:1780`) and tells all
  workers; the outer handler then waits for a token that nobody gives back, with
  `m_stopMe` set.
* `MailTransaction!GreetingAfterReset` (`MCMailTransaction_threads.cfg`): the reactor
  thread may handle the greeting before the worker resets the machine
  (`emailservice.cc:320`); the greeting is lost and the session stuck.
* `WebConnection!BufferedBeforeProcessing` (`MCWebConnection_framing.cfg`): a header in
  two segments is passed on as two requests (`webservice.cc:2123`).

Server and connections:

* `webservice.cc:1721` closes the descriptor that the destructor (1993) of the
  connection has closed; a worker may have opened a file under that number.
* `webservice.cc:2070` hands pipelined requests of one connection to different
  workers: each answers in order, but between them there is none.
* `webservice.cc:2072` and 1784 wait for room in the queue, or for the token, of a
  worker; when that worker sends a mail, it waits for the reactor thread in turn,
  and nobody goes on (`WaitsForMail` in `Granada`).
* `webservice.cc:2127` returns -1, that is true, and line 2195 true when recv
  fails: what is in the buffer, if there is one, is processed as a request.
* `webservice.cc:2146`: `stoi` of a Content-Length that is no number, or too large,
  throws in the reactor thread, and nothing catches it: the process ends
  (`ReadGarbled`).
* `webservice.cc:2185` computes what is missing as a signed number: a client that
  pipelines makes it negative, and the loop goes on behind the buffer until recv fails,
  when what is there is processed (2195).  The copy at 2152 has gone past the buffer
  before, if more than 512 bytes came too many.  The model stops in `overrun`.
* `webservice.cc:2190-2201` waits in recv, in the reactor thread, where a signal may be
  delivered: `handle_signal` (1780-1800) then deletes all connections, that one
  included, and its `handle_input` goes on.  `ReadRequest` of `WebServer` is one step:
  its properties are about signals at the other waits of the thread.

E-mail:

* `emailservice.cc:66` sets `m_isTlsUP` after a failed handshake, with the SSL object
  freed; the next read uses it.
* `emailservice_fsm.cc:353` goes on with the login whatever the reply to STARTTLS
  was; with a server that offers AUTH in plain text, the credentials go in plain text.
* `emailservice.cc:158` does not tell the end of a plain TCP stream from a reply;
  `getSmtpStatusCode` takes the first of no replies.
* `emailservice.cc:160` hands what one recv or SSL_read gave to a parser that expects
  whole lines (`emailservice_fsm.cc:19-98`).  When TCP cuts a line, in plain text or in
  TLS and with the most polite of servers, the part without a text leaves an empty map,
  whose first element is read (96-97), and a rest may make `stoi` throw (47, 57, 76) or
  pass for a reply of its own: the process ends, or the mail is not delivered
  (`midLine`).
* `emailservice.cc:90-98` repeats an SSL_write that fails, without end: after a failed
  handshake with a null or freed object, on a connection that was reset unless SIGPIPE
  has ended the process.  The reactor thread stays there (`stuck`) and the worker in the
  loop at 323.  It takes a failed handshake, a broken connection, or a server that
  rejects recipients: then the client says QUIT more than once
  (`emailservice_fsm.cc:761-804` answers any reply but 221 and most 250 with QUIT), and
  the server has closed after the first.
* `emailservice.cc:225` means to close the descriptor, and calls
  `ACE_Task::close(flags)`: the stream of a mail is never closed.  The descriptors of
  mails are therefore none of `Fd`, and that they run out is not modelled.
* `emailservice.cc:285` is `unique_ptr::release`: the pointer is given away instead of
  the semaphore released, and the reactor thread may be about to acquire it.
* `emailservice_fsm.cc:384` starts the login over after any failure but 535, as often
  as it fails; the state RESET it names is not entered.
* `webservice.cc:628` sets the attachments only when a request has some: later mails
  carry those of earlier ones.  Line 625 sets the sender also when the request names
  none, and the configured one is lost.
* `webservice.cc:609`: a body that is not JSON makes bsoncxx throw, and nothing catches it;
  `Http::body` is also empty when the header does not say `application/json`.
* `webservice.cc:611` reads the key `emailbody`; the comment at 599 documents `body`.

Text of requests:

* `http_parser.cc:131`: `stoi` throws when the two characters behind a percent sign
  are no number, and nothing catches it: the process ends.
* In a query an unescaped `=` in a value makes what precedes it the name of the
  parameter, a second `?` makes it the path.  `QueryAsSent` is about clients that
  escape both.
* `inc/http_parser.h:26` keeps the first value of a key, and parameters come first: a
  parameter hides the header of its name.  The body of a request that is not JSON
  is parsed as headers.  All blanks are taken out of header values.
* `webservice.cc:128` looks for the method anywhere in the request.

REST:

* `webservice.cc:1406` writes `qty.length() & acc.length()` for `&&`: the account of a
  stock update counts only when the two lengths share a bit.  With a quantity of one
  digit and a code of two characters the stock of every account is changed.
* `webservice.cc:1327` sets whatever fields the body of an update has, the number of the
  shipment and its account included; `Change` sets the activity only.
* `webservice.cc:788` passes an empty filter when a query has both a number and an
  account; bsoncxx throws, and nothing catches it.
* `webservice.cc:44` deletes by `shipmentNo`; shipments are created and found under
  `shipment.awbno`.  `accountCode` of a DELETE is ignored.
* `webservice.cc:1199` asks for the sku `""` when the query names none, where the
  comment at 1188 promises all stock.
* `webservice.cc:1566` sends the header of an error response and not the body whose
  length it declares.
* `webservice.cc:480` does not check the recv of ajoul's reply (a failure makes a
  string of length -1), and 488 answers 200 with the reply to the authorization,
  whether or not ajoul created the shipment.  Neither read has a time limit (404): a
  silent ajoul keeps the worker for ever.
* `mongodbc.cc:748` keeps a view of a document that is freed at the end of the
  statement.
* `mongodbc.cc:399`: a bulk insertion that throws half way leaves the documents it has
  inserted; a client that repeats the request creates them twice.
* `webservice.cc:713`, the index page for uris under `/webui/`, cannot be reached: the
  branch at line 660 has the same condition.

## 6. Not modelled

* RESET, VRFY, NOOP, EXPN and HELP of the SMTP machine: no transition reaches them.
* The MongoDB calls no handler uses, and the connection pool of the driver.
* Locks of the libraries (async-signal safety), SIGPIPE of a send to a connection
  that was reset (`webservice.cc:160`), what a freed object does: the models stop
  where undefined behaviour of this kind begins.
* The contents and content types of pages; the wording of mails and answers.
* Option parsing, which is over before any thread runs; the OAuth2 and WhatsApp
  stubs; the test of the e-mail service, a sequence of calls against a fixture.

## 7. Plan

Everything planned is modelled: WebServer and ServerLife; SmtpSession,
MailTransfer and MailTransaction; Granada; WebConnection and HttpParser;
MailRequest; RestApi with the relay and the failures of the database.

Every invariant and action property of the passing runs is a theorem as well.  What
stays with TLC is liveness (`SignalStops`, `PeerClosedReaped`, `RequestServed`,
`SentIsProcessed`, `MailDelivered`, `SessionEnds`, `WorkerReturns`, `HandlerReturns`,
`MailReturns`).

## 8. Running

    tlc -config MCWebServer_core.cfg MCWebServer
    tlapm WebServerProofs.tla

and likewise for the other `MC*` modules, whose cfg names end in the name of their
run, and the other `*Proofs` modules.

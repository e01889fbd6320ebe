# A TLA+ model of simple-chat

TLA+ modules, TLC configurations and TLAPS proofs for the chat server and the
command line client of this repository. Paths below are relative to the
repository's root.

## The system

    client --TCP--> connection task --forward_to_room--> room (bounded channel)
                                                              |
    client <--TCP-- connection task <--user channel-- dispatcher (broadcast)

| part | source | what it does |
|---|---|---|
| main | `server/src/main.rs` | takes a permit, accepts, spawns a connection task; on ctrl-c tells the tasks, stops the broker, returns |
| connection task | `server/src/chat/connection.rs` | `Unauthenticated` / `Joined` state machine; a biased select of shutdown, the user's channel and the socket |
| user registry | `server/src/chat/user.rs` | case-folded name to sender, behind a lock with a timeout; `broadcast` offers a message to every sender |
| room | `server/src/chat/room.rs` | one bounded crossbeam channel for everything said |
| broker | `server/src/chat/broker.rs` | puts messages into the room; the dispatcher task takes them out, one at a time |
| wire messages | `common/src/tcp_message.rs` | a line of text per message |
| names | `server/src/chat/string.rs` | validation and case folding |
| rate limiter | `server/src/chat/rate_limiter.rs` | a wait before each SEND is forwarded |
| client | `client/src/main.rs` | joins, then a command loop, a reader task and a readline thread sharing a flag |
| support | `common/src/{config,consts,security,telemetry}.rs` | constants, logging, sanitising of log text |

## The modules

| module | models | state |
|---|---|---|
| `Messages` | kinds of lines and messages, which lines fail to decode | none |
| `Registry` | `UserRegistry`: `Register`, `Unregister`, `Senders` | `users` |
| `Room` | the channel: `Send`, `SendTimeout`, `Recv` | `room`, and the history `posted` |
| `Broker` | the dispatcher and `broadcast`: collect under the lock, offer without it | `rx`, `closed`, `dpc`, `dmsg`, `targets`, `stop`, history `lost` |
| `Connection` | the connection task, `Tick(c)` | `pc`, `name`, `why`, `sock`, `inbox`, `buf`, `wrote`, `writing`, `shutdown`, histories `replies`, `heard` |
| `ChatServer` | main, the clients as environment, the composition, the properties | `holding`, `exited` |
| `ChatRoom` | what the server promises: one history, and a position in it per user | `said`, `seat`, `given`, `pos`, `missed` |
| `Client` | the client, with user and server as environment | `main`, `reader`, `input`, `cmds`, `flag`; `up`, `told`, `answer` of the server; histories `typed`, `sent` |
| `ClientServer` | the client on one connection of the server, guests on the others | those of both, less what each had for the other |
| `Wire` | the codec, validation and folding of names, what the client shows: operators | none |
| `LineReader` | bytes into lines, the skipping of over-long ones, decoding | `stream`, `here`, `mode`, `start`, `used`, histories `cuts`, `handled` |
| `Posting` | rate limiters, the room's send timeout, worker threads | `quota`, `debt`, `task`, `queue`, `disp`, history `passed` |
| `MC...` | values of the constants for TLC | |
| `...Proofs` | theorems | |

`ChatServer` extends `Connection`, which extends `Broker`, which extends
`Registry` and `Room`. `ClientServer` extends `ChatServer` and instantiates
`Client`, `ChatServer` instantiates `ChatRoom`, each under a refinement mapping;
`LineReader` extends `Wire`. `PROJECT.json` maps each definition to its lines.

**Steps.** A tick of a connection is cut wherever another task can come in
between: around each use of the registry, of the room and of the channel, and at
a write to a peer that does not read (`writing` holds the connection, `pc` where
the task goes on). Under the registry lock test and insertion are one step. The
dispatcher takes its snapshot in one step (`Collect`) and makes each offer in
another.

**Reading.** In `Connection` a line arrives as a body and a newline, together or
apart, and is of a kind: a command, junk, over-long. A read interrupted by
another branch of the select leaves its part in `buf`, which the next tick
clears. `LineReader` has the same reader byte by byte: `read_until` under
`take(limit)` with bytes that arrive in pieces of any size, and it checks what
`Connection` takes for granted, that lines are told apart and over-long ones
refused at the limit and not beside it. There whether the connection has
joined is chosen once per stream, and with it what an over-long line and a timeout
do and whether a broadcast can cancel a read; a JOIN in the stream does not change
it.

**Text.** A text in `Wire` is a sequence of tokens: a separator, a blank, a
newline, a letter, a keyword, a byte that is not UTF-8. `Trim`, `Uppercase`,
`Lowercase` and `Folded` stand for library functions and are given on the tokens
that occur; `Folded` maps one token to two, as folding the German sharp s does.
`ToLowercase` folds into a buffer of three characters per character of the
longest name, and lowercases what does not fit.

**Timeouts** are choices without a clock, each with the condition under which
the code can reach it: a room or user channel that is full, a lock that is
contended (event `"lock"`), a socket with nothing to read (event `"silence"`).
Only `Posting` has time, in intervals of the limiter's quota: governor's limiter
is the number of messages let through and not yet made up for.

**Environment.** Clients write lines, close, reset, stop reading and go on
reading. The two directions of a socket are independent: a client that has
closed its writing half may read on (`sock` is `"eof"`) or not (`"deaf"`), one
that has not closed may have stopped reading (`"stalled"`). `Events` says which
of close, reset, stall, split lines, silence, lock contention, failed accepts
and ctrl-c happen in a run; the proofs leave it open.

**The promise.** `ChatRoom` knows nothing of connections, queues or locks: users
enter, say something, are given the next message or are passed over (and are
then in `missed` if they were in), and leave. The mapping (`Hall` in
`ChatServer`): `said` is `posted`, `given` is what has been written to a client
and what is queued for it, `pos` is what the dispatcher is done with as far as
that client goes, `missed` is `lost`.

**Client and server.** In `ClientServer` the client's writes are appended to the
connection's `inbox`, body and newline by two writes as in the code; what the
client is told is the length of `replies` and `heard`; its end of the connection
is up while the task runs and the socket is open. When the program has ended its
socket closes, or is reset if lines were left unread. A client that waits for the
answer to its JOIN may find the connection gone although an answer was sent: the
read fails before what was sent is read (`Answer`).

## Runs

State counts are those of one complete search.

| run | instance | checks | states |
|---|---|---|---|
| `registry` | 2 clients, one name in two spellings; close, reset, lock, silence; fair | `TypeOK`, `RegistryConsistent`, `UnauthHearsNothing`, `UniqueUsernames`, `OnlyOwnerRemoves`, `DisconnectCleansUp` | 194,846 |
| `order` | 2 users, one talks, 2 lines each, channel of 1, room of 2; fair | `GapFree`, `SenderFifo`, `AckFirst`, `RoomPromise`, `EveryoneCatchesUp` | 99,440 |
| `framing` | 1 client, 3 lines of every kind, split; stall, close, reset, lock, silence, failed accepts; fair | `AnsweredOnce`, `DisconnectCleansUp` | 368,720 |
| `shutdown` | 2 users; stall, ctrl-c; fair | `GapFree`, `ShutdownCompletes` | 275,018 |
| `client` | 4 commands, channel of 2; refused, dropped, terminal errors; fair | `SentIsTyped`, `DisconnectExits` | 22,879 |
| `client_server` | the client and a guest, 1 permit, room and channels of 1; close, silence, failed accepts; fair | `ConnectionLimit`, `Agreement`, `ClientIsServed`, `InterruptExits` | 168,370 |
| `intake` | 5,509 streams, limit of 5 bytes, one cancelled read; fair | `ReadsLines`, `Relayed`, `KeysIgnoreCase`, `SkipEnds` | 682,065 |
| `posting` | 2 users, 1 worker, room of 1, two configurations; fair | `RateBound`, `DispatcherGoesOn`, `SendEnds` | 21,800 |

What they show:

- the registry and the connections agree. An entry without a live connection was
  left by a failed read or write or by a lock timeout, and by nothing else; no
  user is ever evicted by another;
- every step of the server is one of `ChatRoom`: what a user is sent is a
  gapless run of the room's history unless an offer to them timed out, and even
  then each sender's messages arrive in order and once. Nothing comes before the
  `Ok`, nothing to a connection that has not joined;
- every line read to its end has exactly one answer. At the level of bytes, a
  line is refused exactly if it is longer than the limit, whatever pieces it
  came in, and skipping ends with the line or the connection;
- text reaches the others as it was sent, with its separators and inner blanks,
  under the sender's `--username` without the blanks around it;
- two names share a key exactly if they are the same in capitals (where the sharp
  s is SS) and up to surrounding blanks. The reference is capitals because
  folding is what the code does: a key made by lowercasing would keep the sharp s
  apart from ss, and the property fails for it;
- a joined client that closes is unregistered, with another client contending for
  its name, and with lines of its own still unread. `DisconnectCleansUp` names
  the exceptions: the connection is reset, the registry lock times out in
  `leave()`, or the task is in a write to a client that has closed its half and
  does not read, where it stays as long as the client keeps that up;
- shutdown completes whatever the clients do, and once the clients are silent
  everyone has been written the last message;
- a full room blocks the worker threads the dispatcher needs, but only until the
  send timeout: the dispatcher goes on and every SEND ends, with a limiter
  configured with zeros too;
- the server is the environment the client's model assumes (`ClientIsServed`),
  so what is shown of the client alone holds beside the server. Client and
  server agree on who has joined, with one exception that `Agreement` names: a
  JOIN into a full room is answered with `Err` and then `Ok`; the client gives up
  on the `Err` while the server has it joined;
- the program ends when the server has gone and the user presses return, and
  after ctrl-c, with two exceptions the properties name: `Wedged`, where main
  joins a thread that waits for room in the channel main no longer empties, and
  a LEAVE whose body the server lost (see `lost_line`).

Four runs state what the repository's documents say and show that the code does
otherwise:

| run | property | document | what happens |
|---|---|---|---|
| `ghosts` | `NoGhosts` | `README.md:25` | a failed write or read after joining skips `leave()`: the entry stays for good |
| `leave_silent` | `LeaveAnnounced` | `scripts/integration-tests.go:8` | LEAVE sends no notification, only closing does |
| `lost_line` | `NoLineLost` | `README.md:20` | a broadcast between body and newline drops the body (already the user's own JOINED does) |
| `client_leave` | `LeaveExits` | `README.md:47` | the readline thread is back in readline before the flag is set |

A read timeout between body and newline drops the body too. `lost_line` leaves
out silence, so that what it shows is the broadcast.

`README.md:10` and `README.md:24` say that a message goes to all users but its
sender. The dispatcher sends it to the sender as well, so `GapFree`, `RoomPromise`
and `EveryoneCatchesUp` speak of every user, the sender included: they state what
the code does, not what those lines say. What becomes of the line is left to the
client. The bundled one does not show it if its `--username` is the name the
server keeps to the letter; the server keeps it without surrounding blanks, the
client compares with them, so a user with such a `--username` is shown their own
messages. `Relayed` says exactly that.

**Bounds.** `MaxLines` lines per client (`MaxGuest` for a guest), `RoomCap` for
the room's 65,535, `ChanCap` for a channel's 256, `MaxConnections` for 10,000,
`CmdCap` for the client's 32, `MaxInput` and `MaxTalk` for what the user and the
server say to the client, `BufSize` for 1024 bytes, `SkipSize` for the pieces in
which a line is skipped, `MaxCuts` for cancelled reads, `MaxName` for a name's 32
characters. Capacities of one or two make "full" happen within a few messages.
Two clients are enough for one to talk while the other joins, leaves, stalls or
takes the name; two connections and one permit make the permits run out. The
streams of `intake` are all those of up to four of eight tokens, all of up to
eight letters and newlines (two lines on both sides of a limit of five, skipped
in pieces), every text of up to three tokens after SEND, and pairs of JOINs.
`posting` also passes with three users and two workers, in more time. No run uses
symmetry. Three limits follow from what fits. `DisconnectCleansUp` is checked
with every event but ctrl-c for a single client (`framing`), and for two clients
that do not stall (`registry`). Clients do not reset or stall in `client_server`.
The lock does not time out in `order`; `GapFree`, `SenderFifo`, `AckFirst` and
`RoomPromise` are proved with it.

**Fairness.** Weak fairness of main, of the dispatcher and of each connection
task: the runtime polls every task that is ready. In `posting`, where a worker
may be taken whenever a task becomes ready, strong fairness of the steps that
need one: the runtime's queue is served in turn. Clients, ctrl-c and `accept` owe
nothing; in `intake`, where `SkipEnds` is about a client that goes on, bytes and
the end of file arrive. In the client: main, the reader task and the thread run;
alone, the server closes after a LEAVE and, in `client` but not in
`client_leave`, the user presses return now and then. In `client_server` neither
is assumed. Deadlock is not checked in `client`, which really stops in `Wedged`.

## Proofs

For any number of clients, names and keys, any capacities and any events:

| module | theorem | property |
|---|---|---|
| `ChatServerProofs` | `TypeCorrect` | `TypeOK`: types, and room and channels within capacity |
| | `RegistryIsConsistent` | `RegistryConsistent` |
| | `UsernamesAreUnique` | `UniqueUsernames` |
| | `UnauthenticatedHearNothing` | `UnauthHearsNothing` |
| | `OwnersRemove` | `OnlyOwnerRemoves` |
| `AnswerProofs` | `OkComesFirst` | `AckFirst` |
| `RefinementProofs` | `ServerKeepsPromise` | `RoomPromise` |
| | `DeliveryHasNoGaps`, `SendersAreFifo` | `GapFree`, `SenderFifo` |
| `ClientProofs` | `ServerIsSentWhatWasTyped` | `SentIsTyped` |
| `ClientServerProofs` | `ConnectionsAreLimited` | `ConnectionLimit` |
| | `EveryLineIsAnsweredOnce` | `AnsweredOnce` |
| | `ClientAndServerAgree` | `Agreement` |
| | `PartsKeepTheirWord` | `AnsweredOnce`, `AckFirst` and `SentIsTyped` of the composition |
| | `ConnectionsStayLimited` | `ConnectionLimit` of the composition |
| `LineReaderProofs` | `LinesAreReadInTurn` | `ReadsLines`, for any streams, limits and cancelled reads |
| | `SaidIsShown` | `Relayed`, for texts of any length |
| | `NamesShareKeys` | `KeysIgnoreCase`, for names of any length |
| `PostingProofs` | `RateIsBounded` | `RateBound`, for any rate and burst |

The assumptions are those named in the modules: capacities and the length of a
name are positive, `Trim` and `Fold` map names to names and keys, a JOIN carries a
name, what a client of `LineReader` may write are finite sequences, and the user
of the client types fewer commands than a connection may write lines (a bound of
the model; both are any numbers).

How the proofs are laid out for the provers: `USE Zenon` at the head of a module
leaves to Zenon the leaves that name no prover, and those that need arithmetic,
sequences or large functions cite `SMT`. `Wire` does without `SequencesExt`, whose
many definitions every obligation would carry: the proofs about it take a quarter
of the time. What is used of the cardinality of finite sets is one definition, `Counting`. It is a hypothesis of the lemmas that
count, and `ClientServerProofs` proves it (`CountingHolds`) from
`FiniteSetTheorems`, so the theorems that rest on it, two of the server among
them, are at the end of that module and do not assume it.

**Types and registry.** `TypeCorrect` goes action by action; a write is treated
once (`WriteType`). `RegInv` adds to the types that a joined connection has a
name, that the registry is consistent and that nothing is on its way to a
connection that has not joined. The parts need each other: unregistering goes by
key, so it removes the right entry only because each joined connection sits under
its own key; and the dispatcher's snapshot is harmless because whoever is in it
has joined. `TickShape` reduces the steps of a task to four shapes (stays, ends,
joins, leaves), and each preserves `RegInv`. For the limit, `PermitInv` counts
the permit the accept loop holds, since accepting does not look at the semaphore.
For `OkComesFirst`, `AckInv` says that the states in which the channel is drained
lie behind the `Ok`.

**One answer.** `AnsweredOnce` speaks of a connection that waits for input; a
step later it is false, with the line read and the answer still to come.
`AnswerInv` therefore keeps the balance within a tick too: lines read = answers +
what the state owes (`Owes`: one while a JOIN or a SEND is on its way to the
room). Three more facts make it inductive. What a client has written alternates
bodies and newlines and so does what is left of it (`Framed`), hence a line has
been read to its end when the number of fragments read is even; a part kept in
`buf` is an odd fragment; and no `Ok`, and no `roomTimeout`, has been written
before a JOIN is decoded, which is what makes the `Err` and the `Ok` of a JOIN
into a full room count as one answer. `TickTurn` reduces the steps of a task to
six kinds by what they read and answer.

**The client.** `SentIsTyped` is inductive only with a view of the whole pipe
from the keyboard to the socket: `ClientInv` says that what has been sent, what
is in the command channel and what the thread is about to put there make up what
was typed, the unknown commands apart, that a LEAVE in the pipe is the last thing
in it, and that a LEAVE sent means that main takes no more. The proof has one
lemma per step of main, of the reader and of the thread.

**Client and server.** The steps of the composition are those of `ChatServer` but
for two, a body that arrives and the end of the client (`ServerMoves`), so
`TypeOK`, `AckInv` and `AnswerInv` carry over. `Agreement` then rests on all of
them. That a client which takes commands has joined follows from `AckInv`: it saw
an `Ok`, and the `Ok` is written on the way past the JOIN. That a client which saw
an `Err` is not registered later follows from the count: until it is answered it
has written one line (`Bounded`), and a connection that has answered that line has
read it, so there is none left to register it by (`NoLineLeft`). The exception is
the `Err` of a full room, after which the task goes on to `Ok`.

**The promise.** `ChatRoomProofs` proves `GapFree` and `SenderFifo` of `ChatRoom`
(the invariant: the history is ordered, what a user has been given comes from
the part that has gone past them and fits what is to come, and nobody is spoken
of before they are in).
`RefinementProofs` first proves what it needs to know of the server (`HistInv`):
the room is the end of the history with the message being dispatched just before
it, a dropped receiver belongs to an ended task, a user is in the history after
joining and not after leaving, and the lines a client has written and the room
does not yet have are numbered above those it has. It then shows each step of the
server to be a step of `ChatRoom` or none, and carries the two properties over.

**The lines.** `ReadsLines` looks back at the lines handled; `LineInv` adds where
the reader stands in the line it is in. What will be handled of it has an
`Origin`: the end of the line before, or the last cancelled read; from there to
the last byte read there is no newline, the lines that end before it are those
handled, and it is `start` while a line is read and more than `BufSize` bytes
back while the rest is skipped. Two things need care. Lines are counted by
cardinality, so `NextLine` shows the next end to be the one with the next number;
and a read may be cancelled at the last byte of a stream that ends without a
newline, whose rest then counts as no line.

**The text of a line.** `Relayed` and `KeysIgnoreCase` are not about a step but
about what the codec makes of the lines handled, which lie within the stream
(`Within`, the one thing to add to `LineInv`). `Trim` and `Fields` are minima and
maxima of sets of positions, so no induction over the text is needed there:
`Trimmed` says what is left of a text, `SplitAt` where it is split. What is read
of a JOIN
or a SEND ends in a token that is no blank and has none that is not UTF-8
(`SaidText`), and a name that was accepted has no blank and no separator
(`KeptName`). Hence the first separator of an encoded line is the one behind the
keyword and the next is the one behind the name (`OneField`, `ToldIsRead`), and
the newline is all that trimming takes away (`TrimLine`): decoding gives back
what was encoded. A `--username` with a blank at its end loses it with the newline
(`NameIsRead`), one with a blank in front keeps it until the server trims the name.
For the keys, the blanks around an accepted name leave one way to cut out its
letters (`TheLetters`), and that is `Trim`. The rest is an induction over the
name. `Concat` is a recursive function, which first has to be shown to exist
(`PutTogether`); then the folded name and the name in capitals are compared letter
by letter (`FoldedText`): they are equally long, at most twice the length of the
name, and each capital is that of the folded letter, which determines it
(`UpperInjective`). Twice the length fits into the buffer (`FoldedName`), so the
key is the folded name, and equal keys are equal capitals (`CapitalsAgree`). Both
inductions are by the least number for which the claim fails, since the library's
induction theorems cannot be used with the provers at hand.

**The rate.** `RateBound` is not inductive: the invariant is that what has passed
in the last `j` intervals is at most the present debt plus `j`.

Only model-checked: all liveness, which is out of the prover's reach, and
`ClientIsServed`, which holds of an instance whose bound on what the server says
(`MaxTalk`) is large enough, and is not true of every value of the constants
(`PartsKeepTheirWord` states directly, without that bound, what it is there for).

## Not modelled

- Traffic without end, in which the biased select could keep a user's input
  waiting: the number of lines is bounded in every run.
- The window of 1024 offers in flight; the length of waits other than the rate
  limiter's; server shutdown beside a client in `client_server`.
- Paths that cannot be reached: the room's busy, closed, poisoned and
  disconnected errors, a closed semaphore, `InputEvent::Continue`, and a
  broadcast to an unauthenticated connection (`UnauthHearsNothing`).
- Log sanitising (pure string functions without a caller), configuration and
  telemetry, helpers compiled for tests only.

# A model of OxiSH

OxiSH is an SSH server in Rust. This directory holds TLA+ modules that model its
transport, its handshakes, its authentication, the handoff to a session process and its
session layer, and the algorithms these rest on; the TLC runs that check them on small
instances; and proofs, checked by TLAPS, of the central invariants for every instance.

## The system

| part | source | state | operations |
|---|---|---|---|
| server | `oxish/src/server.rs` | permits for handshakes in progress | accept: key exchange (30 s), authentication (60 s), handoff, wait |
| transport | `oxish/src/lib.rs`, `oxish-proto/src/io.rs`, `lib.rs` | read buffer, write buffer, sequence numbers, keys | receive, encode, flush |
| initial key exchange | `oxish-proto/src/key_exchange.rs`, `named.rs` | which message is awaited, transcript | identify, negotiate, derive keys |
| rekeying | `oxish-proto/src/key_exchange.rs` | `RekeyState` | handle one packet |
| authentication | `oxish/src/authentication.rs`, `oxish-proto/src/auth.rs` | cached user and keys, attempts left | handle one packet |
| handoff | `oxish/src/unix/mod.rs`, `oxish/src/lib.rs` | `SessionState` on a socket pair | spawn, resume |
| session loop | `oxish/src/session/mod.rs` | connection, `RekeyState`, channels | select between a packet and the terminals |
| channels | `oxish/src/session/connections.rs` | map of channels with windows and terminal states | open, request, adjust_window, data, eof, close, poll |
| terminals | `oxish/src/unix/terminal.rs` | a PTY and a child process | spawn, write, poll_read, poll_wait, start_kill, resize |
| host keys | `oxish-proto/src/host_keys.rs` | the list made at start-up | from_files, key |
| user store, authorized keys | `oxish/src/unix/mod.rs`, `oxish-proto/src/auth.rs` | none | lookup, keys, parse |
| providers, binaries | `oxish-proto/src/crypto.rs`, `oxish-aws-lc`, `oxish-graviola`, `oxish/src/bin` | nonce counters | sign, encrypt, start |

A connection is accepted by the server, which exchanges keys and authenticates the
user, and then passes the socket and the state of the transport to a new process.
That process runs `Session::run`: one task that waits for either the next packet or
for one of the terminals to have something to do. A packet goes to the key exchange,
or to one handler of `Channels`; a handler encodes its answers into the write buffer,
which the loop flushes before it goes on. The poll of the terminals visits the
channels in order of their ids and returns at the first that has something to say.
Handlers and polls are therefore atomic with respect to each other, with one
exception: input for a shell is written to its PTY by an `await` in the middle of a
handler, and while that waits the whole loop waits.

What is hard about this code is what happens around it. The client, the network, the
kernel and the shells move on their own between any two steps: data crosses window
adjustments, requests cross closes, a shell exits before or after its terminal reports
the end of file, or lives on without a terminal, a key exchange starts in the middle of
all of it, a deadline passes with nobody to notice, one of two processes dies while the
connection is on its way between them. And some of it is small arithmetic and parsing that
is wrong, if it is wrong, for one length or one line in many. `PROJECT.json` lists these
hazards with the line at which each bites.

## The modules

```
Terminal        a PTY and its process           terminal.rs; kernel and shell external
  Channels      the channels, any peer          connections.rs
    ChannelsProofs   theorems about Channels
    Session     the loop and RekeyState         session/mod.rs, key_exchange.rs
      SessionProofs  theorems about Session
      Connection     Session with a client that keeps to the protocol
        ConnectionProofs  theorems about Connection
Authentication  authenticate, any peer          authentication.rs, auth.rs, SystemStore
  AuthenticationProofs  theorems about Authentication
  Server        accept, for many connections    server.rs
    ServerProofs     theorems about Server
Admission       what Server promises            (abstract)
PacketIO        ReadState and WriteState        io.rs; encryption by what it promises
  Transport     bytes, keys and the handoff     lib.rs, key_exchange.rs, server.rs
    TransportProofs  theorems about Transport
Fifo            what Transport promises         (abstract)
Handoff         spawn and resume, two processes unix/mod.rs, server.rs; kernel external
  HandoffProofs      theorems about Handoff
Framing         padding and packet lengths      io.rs, lib.rs
HostKeys        key files and the key list      host_keys.rs, key_exchange.rs
  Negotiation   the choice of algorithms        key_exchange.rs, named.rs
KeyOptions      lines of authorized_keys        auth.rs
  UserStore     accounts and their key files    unix/mod.rs; the user database external
    Algorithms       all five, an input a step
      AlgorithmsProofs  theorems about all of them
MC...           the modules TLC runs
```

**Terminal.** `shells[p]` is the process `p` with its PTY: whether it is alive, dying
(SIGKILL pending), a zombie or reaped, what `wait` will report, whether all user ends of
the PTY are closed, and how many bytes are buffered each way. The operators `spawn`,
`ReadyRead`, `AtEof`, `Drained`, `Room`, `Filled`, `ReadyWait`, `Reaped` and `start_kill`
are the effects of the methods of `Terminal`. The `Shell...` actions are the kernel's and
the program's: reading, answering, writing, exiting (with a code, by a signal, or so that
the wait fails), dying of SIGKILL, and closing the terminal at any time: before the
process exits, with it, or after it when a background job holds on to the terminal.
After a hang-up the kernel still accepts input until its buffer is full, and reads
deliver what is buffered and then `EIO`, which the code turns into end of file.

**Channels.** `next_id` and `channels` are the fields of `Channels`; a channel has the
fields of `Channel`, with `env` counted rather than kept. The terminal of a channel is
`TerminalState` with its deadline reduced to whether it has passed (`late`). `Exited` never
outlives the poll that enters it and is not a state of the model. `write` holds what was
encoded and the peer has not read. `pending` is the PTY write being awaited, together with
what will be flushed after it. `session` says how `Session::run` has returned. `credit` is
the one history variable: what the peer has granted on a channel and the server has not
used. There is one action per handler, with one disjunct per arm of `request`, and one per
outcome of `TerminalsFuture::poll`. A poll that returns at one channel has already
visited those below it; `PassedChannel` and `PassedShells` say what it did to them. The
peer is any peer: `Next` offers every message, for channels that exist and for those that
do not, at any time. When a handler returns an error, `session` leaves "running" and
nothing moves any more.

**Session** adds `RekeyState` and the dispatch of `Session::run`, still under any peer. A
packet that does not decode, an exchange without a common algorithm and an invalid key are
packets with `ok = FALSE`. The poll of the terminals is guarded by `in_progress`.

**Connection** gives `Session` a client over a reliable byte stream, with `read` and `write`
its two directions. The client is external and is modelled by what RFC 4253 and RFC 4254
oblige it to: it sends data within its window, nothing after its close, nothing but the
exchange between its KEXINIT and its NEWKEYS; it answers a close; it refills its window at
half. An empty data message needs no window, so it may come before the shell is asked for; a
client channel that has sent one is `early`. The client requests a terminal before it
requests a shell, once, because the server ends the session of a client that requests a
shell without one, and it sends no extended data. `ran` records which process each channel's
shell got.

**Authentication** has, for each connection, the locals of `authenticate` (`auth`), the
answers it has encoded (`out`) and those it has sent (`sent`). `auth[c].at` is the `await`
at which the future is suspended; the limit of 60 s can drop it at each of them
(`TimesOut`), and what is then left in the buffer goes out in front of the Disconnect, as
far as the last flush of one second gets (`NotifySends`, `NotifyEnds`). A check that is
still running on the blocking pool when its future is dropped has no effect. `handle` has a
disjunct per arm of `AuthenticationState::handle`. A signature is what it covers, who made
it and the algorithm it names; it verifies under a key with the same blob over the same
data. Key files are sequences of entries that may be replaced at any time, and `known` is
the history of what they contained. A valid name without an account (`Unknown`) is resolved
too, to a user without a key file, and takes the place of the cached user. The peer sends
any packet at any time.

**Server** takes every connection through `accept`: the permit, the key exchange (reduced
to success, failure or the limit of 30 s), `authenticate`, the check for unflushed bytes,
the session process (reduced to its spawn and its end). `Admission` is what it promises:
at most so many handshakes, a connection turned away only when there are that many.

**PacketIO** has the operations of `ReadState` and `WriteState` as operators on their
values. A stream is a sequence of cells and a packet a few cells in a row, so that a read or
a write can stop in the middle of one. A packet opens under the key, the invocation counter
and the sequence number it was sealed with, and under nothing else. (AES-GCM does not look
at the sequence number; the interface of the keys would allow a cipher that does, and so
the model asks for more than today's cipher needs.)

**Transport** follows the bytes of one connection from the identification to the session
process. `server.at` is the `await` its task is suspended at. `identify`, `receive` with
what its three callers do to a packet (`exchange_keys`, `authenticate`, `run`), `buffer` and
`flush` are the steps between awaits; `TimesOut` drops a flush half way, `TerminalsPoll` a
receive. Keys are what they are derived from: the direction, everything that went into the
exchange hash, and the session id. `accept` and `resume` are the two ends of the handoff.
What `authenticate` and `run` make of requests is in the other modules and is reduced here
to whether they answer. The client is external: it follows RFC 4253, pipelines requests
ahead of answers and ahead of the server's NEWKEYS, sends IGNORE wherever that is allowed
(`ClientIgnores`; DEBUG is treated alike): at any time under keys, between KEXINIT and
NEWKEYS too, and in the clear if it has not asked for a strict exchange. It asks for strict
key exchange and extension information or does not, and starts exchanges once
authenticated; it guesses none. A packet against these rules is a stray (`ClientStrays`).
The last flush of `exchange_keys` is under the limit of 30 s, which ends the connection
without a Disconnect; `TimesOut`, the limit of 60 s, strikes only after it. `log`, in both
states of both sides, is the history of packets. `Fifo` says what each direction promises.

**Handoff** looks into the step that `Server` and `Transport` take as one: `spawn` in the
server and `resume` in the process it starts, for several connections at once. `at[c]` is
the blocking call `spawn` is in; `spawn` is an `async fn` without an `await`, so it holds a
worker thread of the runtime all the way (`FreeWorker`). `sent` and `got` are positions in
the stream, `length` and `received` the variables of `resume`; one `sendmsg` or `send` moves
what the socket has room for, one `recvmsg` what is there, up to a chunk. A `sendmsg` or
`send` may fail (`send_Fails`), with which `spawn` gives up and leaves what it has sent in
the socket. That a send finds nobody to read (EPIPE) is in `Transmit` as the code has it,
and never happens, since the server has a copy of the child's end itself. The `recvmsg` of
`spawn` has no error of its own: its socket is connected and without a time limit. Which process
holds which descriptor follows from where the two are, and is written down as `ServerHolds`,
`InFlight`, `ChildHolds`, `ServerEndOpen` and `ChildEndOpen`; the last says that the server
itself holds the child's end until `spawn` returns, because `Command` took it. The session
process may die before it acknowledges (`Dies`, for the connections in `Fragile`), the server
at any time (`ServerDies`).

**Framing**, **HostKeys**, **Negotiation**, **KeyOptions** and **UserStore** are operators
without variables. `Framing` keeps of a packet its two length fields and its size, and of a
buffer how many bytes it holds. `HostKeys` has key files field by field, with the secret as
bytes, since the encoding as an mpint drops and adds some; PEM and base64 are one field that
is right or not. `Negotiation` has KEXINIT as its lists of names, the offers of the two
kinds of exchange and `Negotiated::choose`. `KeyOptions` reads a line as a sequence of
symbols: those the parser looks for, the word `command`, the name and data of a good key,
and others. `UserStore` computes an account and its keys from what the database, `sysconf`
and the file system answer. `Algorithms` is for all of them: a step picks an input from sets
that are constants, the invariants compare what the algorithm makes of it with what it
should. `AlgorithmsAssumption` says what such inputs are: payloads that fit a packet, length
fields of any value, files that keys were written to and that may have been changed since,
any lists of names, any sequences of symbols, any answer of the database.

Data are sizes, in units of the model; strings, keys and exit codes are values without
structure. Logging, formatting and the wording of the banner are left out.

## What the runs check

| run | instance | what it shows |
|---|---|---|
| `session_any_peer` | 1 id, 1 shell, windows up to 4, messages of size 3, I/O errors, exchanges at any time | types (`TypeOK`); `WithinCredit`; `WindowReplenished`; `ShellsOwned`; `WriteTargetRuns`; `ChannelsKeepIdentity`; `RekeyQuiet`; the loop refines `Channels` (`ImplementsChannels`) |
| `connection` | 1 channel, 2 optional client messages of all kinds, data of size 0, 1 and 3 for a window of 2 and a PTY that holds 1 | the two windows agree (`ReceiveCredit`, `SendCredit`), `RepliesMatch`, `NoProtocolError`, `CloseIsLast`, `CompleteBeforeClose`, `NoStrayShell`; `ExitIsReported`, `RequestsAnswered`, `CloseCompletes` as long as PTY writes end |
| `connection_stuck` | input larger than the PTY buffer, room for one byte of output | violated: the loop and the shell wait for each other |
| `connection_packet` | a banner larger than the client's packets | violated: the banner ignores the maximum packet size |
| `authentication` | 1 connection, 3 users of which one is root, a valid name without an account and an invalid one, 2 keys, 3 attempts handled, a key file edited once | `SoundAuthentication`; `OneAnswerEach`; `SuccessIsDelivered`; the attempts do not underflow |
| `server` | 3 connections, 2 permits | `PermitsAccounted`; `HandoffIsClean`; `HandshakesEnd`; refines `Admission` |
| `transport` | packets of 2 and 3 cells, 5 cells in the network each way, 3 exchanges, 1 optional message, which may be an IGNORE at any time or one that breaks the protocol | `NoTransportError`; `NoncesUnique`; `SessionIdAgrees`; each direction refines `Fifo` (`DeliversInOrder`); `EverythingArrives` |
| `transport_eager` | a client that sends KEXINIT without waiting | violated: see the findings |
| `transport_ignore` | a client that may send one IGNORE | violated: see the findings |
| `handoff` | 3 connections, 2 workers, messages of 2 and 5 bytes, a socket of 4 and chunks of 3, sends that may fail, one fragile session process | `NeverOnlyInFlight`; `ExactState`; `ReturnedMeansServing`; `OwnerMoves`; `HandoffsEnd`; `NothingStranded` |
| `handoff_death` | 2 connections, the session process of one may die | violated: see the findings |
| `algorithms` | payloads up to 33 bytes and foreign packets at all edges; up to 2 key files, intact or with damage that the parser detects; all short KEXINIT lists; all lines with up to 5 symbols before the key or in the command; accounts and permissions | `FramingSound`; `HostKeysAgree`; `AuthorizedKeysRight` |

Deadlock is not checked: a session may end, and a client may have nothing more to say.

*Bounds.* Windows of 2 to 4 are the smallest for which empty, below half, half and full
differ; a saturated window and data that overrun one both occur. One channel suffices for
what a channel does by itself; the theorems about `Channels` and `Connection` hold for any
number, so channels cannot disturb each other. `MaxWrite` and `MaxRead` bound what is in
flight, and at least two messages cross in `connection`. There the client can send more
than the PTY holds, so that the loop waits, for ever if the shell does not read; and data of
3 before a window of 2, granted twice, reaches the one protocol error that `NoProtocolError`
excepts. `MaxSteps` bounds what the
client does beyond opening a channel and starting a shell. Three requests suffice for a
user cached by the first, replaced by the second and asked for again by the third; the
packets cover each arm of `handle`, with signatures by either key over either user and
either of two sessions. A third connection meets a semaphore without permits and one with
a permit that came back. A network of 5 cells holds two packets, or one and a part of the
next, and is smaller than what NEWKEYS, the extension information and IGNORE take, so that
writes stop inside packets. Sequence numbers wrap around at 5, which they reach with and
without strict key exchange; three exchanges are the first and two that start from keys of
different origin, those of the handoff and those of an exchange in the same process.
In `handoff` a message of five bytes exceeds both the socket and a chunk, so that it is sent
and received in parts that do not match; the shortest one is its length alone. One session
process may hang, which leaves one worker for the other two connections; with as many
fragile connections as workers `HandoffsEnd` does not hold, which is part of the finding.
Payloads of 33 bytes pass every remainder of both block sizes twice; the proofs of `Framing`
have no bound. A secret of two bytes has every combination of a leading zero and a top bit
that matters. Two files can hold three keys, which is `MAX_KEYS` there. Five symbols inside
the quotes of a command are enough for an escaped quote, a backslash, a comma, a space and
another option.

*Fairness* (`Connection`). The runtime polls the task when a packet has arrived, when a PTY
or a child has woken it and when the awaited PTY has room: weak fairness of
`ServerReceives`, `ServerWakes` and `ServerWrites`. `ServerWakes` is a poll that something
woke: a deadline that passes wakes nothing, as the code's own comment says, so no fairness
makes a poll notice it. SIGKILL kills (`ShellDies`). The client keeps reading, refills,
answers a close and continues an exchange. No shell is assumed to exit. `InputDelivered`
also needs a shell that reads and answers (`FairShells`). The three liveness properties of
`connection` are for behaviours in which the loop is not for ever waiting to write into a
PTY (`WritesEnd`): the first finding shows that it may be, and while it waits it handles no
packet and polls no terminal, so that a request or a close behind the data, and the exit of
that very shell if something else keeps its terminal open, wait as long. `WritesEnd` is a
condition on the outcome and no assumption about the code: neither a shell nor the kernel
is obliged to make room. All properties allow for the
session to end, which `ConnectionLost` may do at any time. `Server` assumes only that time
passes: weak fairness of `LimitPasses`, the limits of 30, 60 and 1 s. That a limit which has
passed is acted on needs a worker thread to poll the task; the fourth finding can take all
of them away, and then `HandshakesEnd` does not hold either. Nothing is assumed of
the peers or of the blocking pool. `Transport` assumes that the task is polled while the
stream is ready (`ServerProgress`) and that the client reads (`ClientReceives`); it need
not send. `Handoff` assumes that each process makes the step it can make (`ServerStep`,
`ChildStep`), where a step of a task of the server needs a free worker; nobody has to die,
no session has to end and no call has to fail: in particular a `send` that waits for room is
not taken to fail in the end.

*Mutants.* The definitions with an underscore in their name, such as `Replenish_AtZero`, are
plausible mistakes in the definition they precede. Each property fails for one of them.

## Findings

1. **The loop can stand still** (`connection_stuck`). `Session::run` awaits the PTY write of
   input, and reads no output meanwhile. A program that answers its input fills the output
   buffer of the PTY, stops reading its input, and the write never completes. The window
   the server grants is far larger than a PTY's buffers, so a client that pastes enough
   into such a program gets there without breaking any rule.
2. **The banner ignores the client's packet size** (`connection_packet`). Reads of the
   terminal keep to `maximum_packet_size`, the banner does not.
3. **An identification with a packet behind it is refused** (`transport_eager`).
   `Identification::decode` is documented to take the identification from the start of the
   bytes, and `identify` keeps the rest for the first packet; but the check for UTF-8 covers
   all bytes. A client that sends its KEXINIT without waiting for the server's
   identification is refused whenever one read returns both, because of the random cookie.
4. **The death of a session process goes unnoticed** (`handoff_death`). `spawn` waits for an
   acknowledgement or for the end of file that means "session process exited before
   acknowledging handoff". But the child's end of the socket pair is also open in the server:
   `Command::stdin` took it, and `command` lives until `spawn` returns. A session process that
   is killed, or fails to decode its state, leaves `spawn` in `recvmsg` for ever, on a worker
   thread of the runtime, with the connection of the client open.
5. **IGNORE in the first key exchange ends the connection** (`transport_ignore`).
   `exchange_keys` takes each packet for the one it awaits. RFC 4253 allows IGNORE and DEBUG
   during an exchange that is not strict, the declaration of `Ignore` says "Must be ignored
   by the receiver", and the other two loops, `authenticate` and `Session::run`, ignore it,
   the latter in later exchanges too.

Also met, without a run: a client that sends an empty data message before it asks for the
shell is granted the initial window by `data` (`connections.rs`, 207), and when the shell
starts once more (118), where the window is set and not added to; it may then send data that
is within what it was granted and ends the session (201). `NoProtocolError` and
`ReceiveCredit` say what holds for such a client and for the others. The comment on a killed
shell in the poll says that its signal status is forwarded, while a shell without an exit
code is closed without any status (`connections.rs`, 319 and 335). A request for a shell
without a terminal ends the session instead of being refused.

## What is proved

`ChannelsProofs` proves, for every number of channels and processes, every window and packet
size, every buffer capacity and every peer, the six properties of `Channels` that
`session_any_peer` checks: `TypeCorrect`, `SendsWithinCredit`, `WindowsReplenished`,
`ShellsAreOwned`, `WriteTargetIsRunning` and `IdentityIsKept`. The assumptions are
`TerminalAssumption` and `ChannelsAssumption`: constants are numbers, the initial window is
between 1 and the largest window, the banner is not empty.

The inductive invariant `IInv` is the conjunction of the five invariants. They need each
other. That a reap or a kill leaves the other channels' processes alone, and that a
channel which turns `Closing` or goes away leaves none behind, needs `ShellsOwned`, its
clause that no process has two owners in particular. That reads keep `WithinCredit` needs
the window to have its type. That the PTY write has a running target when it continues
needs every other action to be disabled meanwhile, which is what `pending` in `Idle` says.
The proof has a lemma per action. Lemmas about the operators on shells, terminals and
channels come first (`ShellOpsType`, `ChannelOpsType`, `ChannelOpsFields`), then the effect
of a poll on the channels it passes (`PassedChannelFacts`, `PassedShellsFacts`,
`PollAtStep`). `IdentityIsKept` is an action property and follows from the same invariant.

`SessionProofs` carries this over to the loop, for the same constants and any peer. Each
step of the loop is a step of `Channels`, changes nothing of the channels, or sends one
message of its own between two of theirs (`LoopStep`); hence `SessionTypeCorrect`,
`SessionKeepsChannels` and `SessionKeepsIdentity`. `QuietWhileRekeying` needs one fact more,
`ExchangeAwaitsNothing`: during an exchange no PTY write is awaited, since what is flushed
after one would go out in the middle of it. `SessionImplements` is the refinement: with
`write` mapped to the messages in it that are for channels (`OfChannels`), every step is the
step of the same name of `Channels`, or a stutter. It rests on what `OfChannels` makes of an
empty queue, of a queue with a message more and of a queue without its first, each by
induction over the places of the queue. The induction theorems of the library take an
operator and cannot be used here; `PlaceInduction` states the principle for sets and follows
from the well-foundedness of the natural numbers, and `OfChannelsIs` says that the recursive
function in `OfChannels` exists and is the only one.

`AuthenticationProofs` proves `AuthenticationTypeCorrect` and `AuthenticationIsSound` for
all sets of users, keys, files and packets, and any number of connections. The latter needs
`AuthenticationAssumption`, by which nobody holds the private key of the fake keys, and the
invariant that what is cached was in the user's file at some time (`known`), that a job
checks a signature of the request it belongs to with the entry that was found for it or
with the fake key, and that a user is granted only by the job that is kept. `EachIsAnswered`
and `SuccessArrives` use a second invariant, `SayInv`: how many answers have been encoded
follows from the requests handled and from the `await` the future is at, a success is the
last of them, and only the Disconnect may stand behind it.
`ServerProofs` proves `NoPermitIsLost`, `ServerTypeCorrect`, `HandoffsAreClean` and
`ServerImplementsAdmission` for every number of permits and connections. Its invariant
adds to that of `Authentication` that `phase` and `auth[c].at` belong together, that the
connections in their handshake are finitely many, so that their number moves with the
permits, and that a success that has been flushed leaves an empty buffer.

`HandoffProofs` proves `NeverLost`, `ResumesExactly`, `ReturnsRightly`, `OwnershipMoves` and
the types for any number of connections and workers, any length of the state, any size of
the socket and of a chunk that holds the length (`HandoffAssumption`). Per connection, the
invariant `Stages` says which places of `spawn` and of `resume` go together, and `Counts`
that the two processes' counts are positions in the same stream. They need each other: that
a chunk is compared rightly rests on `got` being what `received` counts, that the comparison
is reached at all on `spawn` still sending, and that `spawn` does not return too early on its
own copy of the child's end, the same copy that makes the finding. That a handoff whose
send failed never comes to serve is `Counts` again: it has not been sent all of the message,
which `resume` compares with its length. `OwnerMoves` is an action
property and follows from the invariant.

`AlgorithmsProofs` proves the three invariants of the run `algorithms` for all inputs that
`AlgorithmsAssumption` allows (`FramingIsSound`, `HostKeysDoAgree`,
`AuthorizedKeysAreRight`). The invariant is only that an input is from the set of its kind;
the work is in the theorems about the algorithms themselves, which have no bound on the
length of an input. `PaddingRight`, `FramesRoundTrip` and `NoReadOutside` are arithmetic
with remainders. `HostKeysKept` follows a key from `to_bytes` through the file to the key
list: the mpint of a scalar gives all its bytes back (`ScalarRoundTrip`), a file that was
changed in one of the ways of `Changed`, which are those the parser can tell, is refused
(`ChangedIsInvalid`; the seed of an Ed25519 key that was changed to another seed is another
key, and loaded), and the keys of the files in a row are those of each file (`FlattenKeys`).
`NegotiationRight` rests on what the first common name is (`FirstCommon`).
`LinesKeepOptions` and `CommandsComeThrough` are the two directions of the parser of
`authorized_keys`. Its loop takes one option at most (`OptionsIs`), because there is only
`command` and it may not come twice; what stands between the quotes is the escaped form of
the value it yields (`EscapeValue`), by induction over the symbols with a backslash that may
be pending; and no two commands are written the same (`EscapeInjective`), from the last
symbol to the first. `StoreIsRight` needs that the retries end as the largest buffer would
(`RetriedIs`), by induction over what is missing to that size, and that joining the entries
of the lines loses and adds nothing (`FlattenHolds`). A recursive function is, in TLA+, one
chosen to satisfy an equation: each proof shows a function that does, and that its values
are determined. Induction over places (`PlaceInduction`) comes from the well-ordering of the
natural numbers, because the library's induction theorems cannot be instantiated here.

`TransportProofs` is for every size of packets, every modulus of the sequence numbers, every
capacity of the network and any number of messages and exchanges (`TransportAssumption`,
`PacketIOAssumption`), in three layers.
`StreamInv` says that the buffer of the writer, the network and the buffer of the reader
together hold the packets sent and not yet received, each as its cells in a row, with
`written` and `last_length` cut off (`Carries`, `Arrives`, `Leaves`); while the state is
handed to the session process it says so of the copy on its way. It gives the types
(`TransportTyped`) and the refinement of `Fifo` in both directions (`TransportDelivers`),
whatever the client sends.
`NonceOf` adds that every packet logged under the key in use has a smaller counter and that
every older key was derived from fewer exchanges, so that a new key is none of the old ones
(`NoncesAreUnique`); this, too, whatever the client sends.
`SyncInv` is about a client that keeps to the protocol and has sent no IGNORE in the clear
(`Regular`; once it is not regular it never is again). For each direction there is a course
(`Course`): the state of the keys, the counter and the sequence number after each packet of
the log, where each packet moves it as the protocol says. The writer is at the end of its
course and the reader at the place of the last packet it took (`Linked`); the two courses are
tied by where the exchange is (`Tick`), so that neither side is more than one exchange ahead.
An IGNORE under the keys of an earlier exchange fits anywhere in a course (`Fits`).
From this follow `TransportAgrees` and `SessionIdsAgree`. Both are for `~Eager`, a client that
waits for the identification of the server before its KEXINIT, and for regular ones: for the
others the transport does fail, as the third and the fifth finding show.

`ConnectionProofs` is about a session and a client that keeps to the protocol, for any
number of channels, processes and messages on their way, any windows and packet sizes that
fit their type, with I/O errors and the loss of the connection (`ConnectionAssumption`: the
sizes the client uses, 0 among them, are those a message can carry). It proves
`NeverCutOff`, `ReceiveCreditAgrees`, `SendCreditAgrees`, `EveryRequestOneReply`,
`NothingAfterClose`, `AllBeforeClose`, `NoShellForgotten` and `ConnectionTypeCorrect`. Its
invariant `CInv` adds to that of `Channels`, per channel of the client: `Life`, where the
channel is between its open and its close, and what may be on its way then; `Coherent`, that
what is on its way to the server is for a channel that is there, with nothing after a close;
`Asking`, that a terminal and a shell are asked for once, in this order, which is why no
`pty-req` replaces the terminal of a running shell, and that data before the shell comes
from an early client only; `Linked`, what the state of the terminal says of the end of
output, the exit code and the close that have been sent; `Counted`, the two windows and the
replies with all that is on its way, where an early client has been granted as much as the
server accepts until its shell starts, and up to one initial window more from then on; and
`Heard`, the order of what is on its way to the client and that it has room for it, which is
what remains true after the session has ended, while the client reads on. `Exchanges` lists
the nine combinations of the two sides of a key exchange. The parts need each other: that
data is within the window the server enforces is `Counted`, but that it is for a channel
that exists is `Coherent`, and that neither arrives in the middle of an exchange is
`Exchanges`. Ids are used again once they have wrapped around: nothing is on its way to a
channel that goes, so no message reaches its successor (`Placed`). `Counted` speaks of sums
over queues; they are recursive functions, whose values for a queue with a message more or
less are proved by induction over the places (`TotalConcat`, `SumTail`). The proof has a
lemma per handler, per arm of the poll and per message of the client; those of the server
reduce to the channel that is touched (`Touch`, `TouchAfter`), everything else being
untouched (`UntouchedStays`).

Only model-checked: liveness under fairness, which is out of the prover's reach, and the
properties of the runs that expect a violation. Every invariant and action property of the
other runs is proved.

## What is not modelled

Not modelled: the cryptography; the encoding of integers, strings and messages; PEM and
base64; terminal modes; group ids, the lookup of a user by id and the choice of the store;
configuration and start-up, with the generation of a host key; the debug-only mode that
serves a session without a process of its own. Clients that guess a key exchange packet
(`first_kex_packet_follows`) are left out: the flag is parsed and not looked at. Which of
several busy channels a poll serves first is not a property of the model: a channel with
steady output starves those behind it for as long as the client lets it, and nothing in the
repository promises otherwise.

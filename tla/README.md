# TLA+ models of cpp-experiments

The repository is a collection of C++ programs and header-only libraries. This
project models those of them that are systems (programs with threads, processes,
event loops, files that outlive the process, or peers that may answer late or
never), the libraries they are made of, and the larger pure algorithms. It
model-checks small instances with TLC and proves some of the results for every
instance with TLAPS.

Line numbers are those of the sources under `src/`; `PROJECT.json` maps every
definition to the lines it models, lists the runs, the mutants, the hazards and
the theorems.

## 1. Inventory

### Modelled

| Component | State | Operations | Hard because |
|---|---|---|---|
| torrent: piece scheduler (`piece_manager.cpp`) | downloaded pieces; partial pieces with the state of every block and two counters; per peer the pending blocks and a backlog | message handlers for have, bitfield, choke, unchoke, piece; idle reset; drop; reconnect | peers answer late, twice, wrongly or never, and blocks of one piece belong to several peers |
| torrent: peer connections (`torrent_downloader.cpp`, `net.hpp`) | the table of sockets, polled events, the map from descriptors to peers, a context and a send buffer per peer | poll events, the sweep, reconnects | descriptors are closed in one place, reused by the kernel in a second, forgotten in a third; sends are partial |
| torrent: disk writer and resume (`disk_writer.cpp`) | bounded queue, flag, mutex, condition variable; temporary file, saved state, final files | schedule, writer loop, finish, destructors, restart | two threads; a kill between any two steps; failed writes |
| misc: thread pool (`threadPool.hpp`) | queue, flag, counter of active tasks, two condition variables | enqueue, wait, worker loop, destructor | any number of workers; accesses without the mutex |
| cli: bitcask (`bitcask.cpp`) | log files, merged files, hint file, buffers, index in memory | set, get, del, merge, quit, load | restarts and kills between any two writes; order of directories and hash tables |
| redis-server: database (`Cache.cpp`, `CommandHandler.cpp`) | values, deadlines, `dump.rdb` | SET, GET, DEL, INCR/DECR, LPUSH/RPUSH, LRANGE/LLEN, SAVE, BGSAVE, load | the clock moves during a command; children write the file the server reads at its start |
| url-shortner (`Server.cpp`, `RequestHandler.cpp`, `HashUtils.cpp`) | two maps and a counter; per descriptor the polled event, what has been read or is to be sent, pending bytes | accept, partial read, POST, GET, DELETE, partial send, close | requests arrive in parts, clients hang up, descriptors are reused |
| redis-server: poll loop (`Server.cpp`, `Node.cpp`) | per socket the text read so far or the reply and how much of it is left | accept, partial read, test for a complete request, partial send, stop | text is cut anywhere, descriptors are reused |
| cgit (`GitRepository.cpp`, `GitPack.cpp`, `GitIndex.cpp`) | objects, index, HEAD, references loose and packed, tags, work tree | init, add, rm, commit, tag, status, log, checkout, look-ups in packs | a kill between the files a command writes; the user edits meanwhile |
| cli: csh (`csh.cpp`) | processes, pipes, open ends, queue of pids, signal handler; buffer and history | a command, a pipeline, the interrupt; keys | pipes fill, ends left open, fork and pipe fail, the interrupt comes anywhere |
| misc: cjudge (`cjudge.cpp`) | sandbox process, program, timer thread, error file | set-up, run, time limit, verdict | the timer races the end of the program |
| networking: http-server (`http-server.cpp`) | semaphore, task queue, client set, descriptors | accept, enqueue, answer, close, interrupt | threads close descriptors that others are given |
| memory-mangement, ordered_map, LRU cache | heap nodes, counters, iterators, the block of the arena | every operation that changes one | memory runs out, constructors throw, two threads, recursion |
| Formats and algorithms: brainfuck, JSON, argparse, tar, bencode, RESP, HTTP, URLs, the torrent messages, csh's lines, cdiff, packs, puzzles | none | functions | delimiters in the data, cuts in the stream, boundaries |

### What makes each of them correct

* **Piece scheduler**: a block is asked of one peer at a time; the counters that
  complete or erase a piece agree with its blocks; no lookup of an erased piece;
  a piece goes to the disk once; no reset loses what another peer has sent.
* **Peer connections**: what arrives is attributed to the peer that sent it; a
  peer has one connection; the two tables agree between sweeps; messages arrive
  whole; blocks of a lost peer are given back.
* **Disk writer**: a piece that is counted is on disk or on its way there; the
  saved state never promises more than the disk has; schedule and shutdown end.
* **Thread pool**: a task is run once; `wait` means done and returns; the
  destructor leaves nobody behind and returns.
* **Bitcask**: it is a key-value store, also across merges, restarts and kills.
* **Redis database**: deadlines and values stay together; a command for one key
  leaves the others alone; the dump is of one moment.
* **URL shortener**: the two maps are inverse to each other; a client gets the
  reply to its own request and its key keeps its meaning; no complete request is
  waited for.

* **Redis poll loop, HTTP server**: a client gets the replies to its own requests,
  in order, whole and once, and every request is answered.
* **cgit**: what is staged, committed or tagged can be read; no commit is lost; a
  clean status means that everything is saved.
* **csh, cjudge**: no descriptor, pid or process is left over; every line and
  every judgement ends; the verdict fits how the program ended.
* **Lists, pointers, maps, arena**: nothing is lost, shared by mistake or given up
  twice; the cache holds what was used last.
* **Formats**: what one half writes the other reads back; a message is taken whole
  however it is cut. **Searches**: they find what an enumeration finds.

### How the components interact

The torrent client is one event loop. `TorrentDownloader::download` polls the
sockets (PeerConnections), hands each message to a handler that works on the
piece manager and the context of the peer (PieceManager), and passes a completed
piece to `DiskWriter::schedule`, which blocks while the queue is full
(DiskWriter). A sweep after each round gives back the blocks of idle and lost
peers and reconnects. The destructor of the downloader saves the list of
downloaded pieces, with which the next process starts. The HTTP server, the
download proxy, `csvsplit` and the backtester hand work to the thread pool. The
Redis server calls one command handler from its own poll loop; BGSAVE forks. The
remaining programs stand alone.

### Not modelled

`PROJECT.json` has every component with its reason. In short: graphics (pacman,
mandelbrot), floating-point numerics (regression, backtester, matrix), hash
functions at the level of bits, wrappers of libraries (zlib, PNG, SQLite, SSL),
scripts around remote services, simple filters (cwc, cxxd, fc, cuniq, spellcheck)
and the teaching examples of design patterns have no behaviour that a model could
say more about than the code does. CSV, `fnmatch`, XML, `bigint` and Minesweeper
could be added to the functions.

## 2. Modules

| Module | Models | Notes |
|---|---|---|
| `PieceManager` | scheduler and message handlers | one step per handler; a handler includes the requests it ends with |
| `PieceManagerProofs` | | eight theorems, for any torrent and any peers |
| `PeerConnections` | poll loop, sweep, `net::PollManager` | `pending` is one flag per peer here |
| `PeerConnectionsProofs` | | four theorems, for any peers, silent or not, and any number of attempts |
| `DiskWriter` | both threads, destructors, restart | one step per access to shared state |
| `DiskWriterProofs` | | five theorems, for any pieces and any length of the queue |
| `ThreadPool` | workers and one owner | |
| `ThreadsProofs` | of `ThreadPool` and `SmartPtr` | five theorems, for any number of workers and tasks, threads, pointers and objects |
| `KeyValueStore` | what a user may expect of bitcask | abstract specification |
| `Bitcask` | the store | refines `KeyValueStore` (`IsAStore`) |
| `RedisCache` | database, expiry, snapshots | |
| `RedisCacheProofs` | | three theorems, for any keys, clock and number of saves |
| `UrlShortner` | request handler, poll loop and clients | |
| `UrlShortnerProofs` | | three theorems, for any clients, sites and lengths |
| `GitRepository` | the commands of cgit | one step per file written |
| `StoresProofs` | of `Bitcask` and `GitRepository` | five theorems, one of them the refinement, for any keys, values and file size, any paths, contents and tags |
| `Csh` | shell, its processes and pipes | |
| `CodeJudge` | judge, sandbox, program, timer | |
| `RedisServer` | poll loop and clients | commands are those of `RedisCache` |
| `HttpServer` | accept loop, tasks, interrupt handler | on a pool as in `ThreadPool` |
| `ForwardList`, `SmartPtr`, `Arena`, `OrderedMap` | the containers | `OrderedMap` has the cache too |
| `Brainfuck`, `Json`, `ArgParse`, `TarFile`, `Puzzles`, `Diff`, `GitPack`, `Bencode`, `Http`, `Url`, `CshLine`, `Resp`, `WireProtocol` | the pure algorithms | operators, with what they are to compute stated at the end of each module |
| `MCServers` | composes `Csh`, `CodeJudge`, `RedisServer`, `HttpServer` | one of them at a time |
| `ServersProofs` | | three theorems, for any lines of up to two commands, texts, clients, browsers and threads |
| `MCLibraries` | composes the containers and the pure algorithms | one of them at a time; for an algorithm a state is its name and an input |
| other `MC*` | TLC instances | constants and symmetry only |

### Correspondence with the code

**PieceManager.** `pm` is the object: `partial` is the key set of
`partialPieces`; the fields of its `Piece` objects are functions that hold the
constructor's values for the other pieces. `onPeerReset`, `onBlockReceived`,
`writeBlock` have the names of the methods and map an object to an object.
`getPendingBlocks` walks two hash tables: `Selections` is the set of results
over all their orders. A handler, from the message to the requests that follow
it (`torrent_downloader.cpp:204-249`), is one action; `AfterMessage` is the
common end. The bytes of a block are left out: a block either has the expected
size or not (`AcceptBlock`, `RejectBlock`), and a completed piece either matches
its hash or not. No handler compares the index of a piece with their number: a
peer may name a spare bit of its bitfield (`Spare`; a bitfield of another length
is refused at `torrent_downloader.cpp:22`) or, with have, any number (`Beyond`),
and is asked for the blocks of what it named. The three exceptions of the class
are results of the handlers: `at()` of a piece that is not partial, a block
requested twice, the hash of a piece that does not exist.

**PeerConnections.** `sockets`, `events` and `fd2Peer` are the three tables,
indexed by descriptor; a socket that closed itself is `"dead"` until the next
`poll()` or `untrack` removes it. `LowestFree` is the kernel's choice. The sweep
visits the contexts in any order. `fresh` stands for the ticks: a peer heard of
since the last sweep is not idle, any other may or may not be. A send buffer is
the message it ends with and whether its first message is half sent. The peers
of the tracker's answer are taken to be distinct.

**DiskWriter.** `pc` gives the place of each thread. The test of a wait
predicate and the sleep are two steps, since the flag is set without the mutex;
all else that happens under the mutex is one step. `tempFile`, `stateFile` and
`output` survive the process; `Crash` and `Restart` end and begin one.

**ThreadPool.** As DiskWriter; the owner is one thread, and everything a thread
does under the mutex is one step except for a worker that goes to sleep.

**Bitcask.** A log file is a sequence of entries of which the last `buffered`
ones are in the stream's buffer; a file that does not exist yet is as good as an
empty one (`Contents`). The loops of the code (`Merged`, `loadFromFile`,
`IndexFrom`) are recursive functions. The index `keyDir` holds file and position.
`merge` is four actions, since a kill may come between them. A *crash* is a
killed process: what the operating system has been given survives. `may` records
the values of a key since it was last known to be on disk. A timestamp is any
number up to `MaxStamp`: the code keeps 32 bits of the milliseconds of a clock that
may be set, so that one may follow a larger one. `Happens` names the
events an instance includes (merge, a second merge, quit, crash, torn writes,
restarts of a store of several files or after a merge). `KeyValueStore` promises
what a user sees while the program runs without condition; of a restart it
promises the keys that are `sure`, which `Bitcask` says are those whose entries,
in a single log and without a hint file, are whole and in the order of their
timestamps. Any other key may come back as anything.

**RedisCache.** `db` is the pair of maps. A command is one step, during which
the clock may advance from its first to its last reading; a null pointer that is
followed, an exception that leaves `main` and an index beyond a list end the
process (`Die`). The dump is a sequence of chunks that each saving process
writes from the beginning of the file. Saves may overlap; `overlapped` records that
the one which last emptied the file began while another was writing. A child of BGSAVE keeps the listening
socket open, so a new server starts only after it has ended. Left out is the key
without a name, or the exception, that an unset length causes when a truncated
dump is read.

**UrlShortner.** `handler` is the `RequestHandler` with one history variable,
`issued`: the URL that each key was first given for. `socketInfo` is the table of
the server; `owner` and `client` are the other end of each connection. A request
is `HeaderLen` units up to the empty line and, for a POST, `BodyLen` more, of
which one `recv` takes any number. An event found by `poll()` is a step: within a
round no descriptor has two events, and one that is closed and reused has had
its own. A failed `recv` is answered like a request, and a descriptor whose
`fcntl` failed is closed but entered, as in the code. The key is the counter
value that `encryptSizeT` encodes one-to-one. Left out: the pages under
`static/`, the count of `/ping`, an empty path, a client that sends more than its
Content-Length, a signal in the middle of a handler.

**GitRepository.** An object is its own name (hashes do not collide); `objects`
are the stored ones, loose or packed. A tree is given by the files below it, of
which `TreeNeeds` derives the trees of the directories and the blobs; a commit by
its trees and those of its ancestors. The code takes what is at a path for a file
without asking: a directory reads as an empty one, and a directory with nothing
below it is not collected. `add`, `rm` and `commit` are the steps
between which the process may be killed and the user may edit a file; the
commands that only read set `out`. `Ignores` says what a `.gitignore` with given
contents ignores.

**Csh.** Pipe 0 carries the errors of a pipeline, pipe k the output of its k-th
command; `fds` are the ends each process holds, and end of file is the absence of
writers. `pc` is the place in `execute` and `executePipe`; the interrupt may come
at any of them, and what is undefined in the code (popping an empty queue) is a
place of its own. **CshLine** has the editor, the splitter and the parser.

**CodeJudge.** `box` is the process that sets up the sandbox, `timer` the thread;
writing "TLE." and killing are two steps, and so are the end of the program and
the `waitpid` that sees it. Texts keep only what `compareFiles` can tell apart.

**RedisServer, HttpServer.** The kernel gives the smallest free descriptor. The
text of a request to the Redis server is a sequence of tokens that arrives in any
pieces; a reply leaves in any pieces. The HTTP server calls `recv` once: a request
is there whole, or up to somewhere in its method or its path, and what there is is
answered. A send to a client that is gone may raise SIGPIPE, which ends the
process. In HttpServer a task is five steps, `close` and the
removal from the set being two of them; the interrupt handler runs on a thread
with or without the mutex.

**Containers.** `node` is the heap; `content` is what a user who knows only the
interface believes to be in a list or map. `undefined` and `spoiled` mark states
that the code leaves unspecified (section 6). `dying` is the object that a
thread's temporary has let go for the last time.

**Functions.** Texts are sequences of characters or lexemes. The functions have
the names of the code's; numbers such as memory sizes, block sizes, bits to the
byte and bases are parameters. Where the code follows the order of a hash table
the operator gives the set of results over all orders.

## 3. Runs

| Run | Checks | Result |
|---|---|---|
| `piece_manager` | `ThrowsForUnknownOnly`, `SingleOwner`, `BooksExact`, `ScheduledOnce`, `ReceivedKept` | hold |
| `peer_connections` | `HandshakeFirst`, `Routed`, `TablesAgree` | hold |
| `disk_writer` | `NoPieceForgotten`, `ResumeSound`, `OutputComplete`, `HeldOnce`, `ScheduleReturns` | hold |
| `thread_pool` | `RunOnce`, `WaitMeansDone`, `NobodyLeft`, `WaitReturns`, `TasksRun` | hold |
| `bitcask_store` | `IsAStore` (refinement) | holds |
| `bitcask_index` | `IndexExact` | holds |
| `redis_cache` | `TtlHasKey`, `OneMoment`, `OthersUntouched` | hold |
| `url_shortner` | `MapsInverse`, `RepliesRight`, `NoneLeftWaiting` | hold |
| `git` | `ObjectsReachable`, `CleanMeansSaved`, `HistoryKept` | hold |
| `servers` | `NothingLeft` (csh), `VerdictRight` (cjudge), `RepliesRight` (Redis and HTTP server), `AllAnswered` (all four) | hold |
| `libraries` | `OwnershipExact`, `ContainersExact` (pointers; lists, map with cache, arena); `ExecutionsAgree`, `WrittenIsRead`, `WordsUsedOnce`, `SearchesExact`, `MessagesFramed` (functions) | hold |
| `disk_writer_shutdown` | `ShutdownCompletes` | violated, see 6 |

`servers` and `libraries` run components that do not interact one at a time: an
initial state has one of them at its beginning and the others at their end. A
property that names several of them, such as `AllAnswered`, is the conjunction of
what each module states. `TypeOK` of PieceManager, PeerConnections and DiskWriter
is proved (section 4); the `TypeOK` of the other modules documents their variables.

Every property of a passing run has a mutant: an operator next to the one it
changes, marked `Mutant`, with a bug that could plausibly be in that line. TLC
finds the property violated when it takes the place of the original.

### Bounds

* `piece_manager`: two peers, a piece of two blocks and a last one of one block, a
  spare index, which is taken for a last piece, `MAX_BACKLOG` 2. A peer that waits
  for one block has room for half of the first piece, so both peers come to share
  it; a reset can leave it empty, requested from the other, or complete but for one
  block. Indexes that only have can name behave as the spare one does. The
  peers are interchangeable (symmetry).
* `peer_connections`: three peers, of which two never answer. Two silent peers
  that are dropped and reconnected are what it takes to exchange descriptors;
  the third has a live connection for them to disturb. Two reconnects, one
  unchoke attempt. Symmetry among the silent peers.
* `disk_writer`: three pieces, a queue of two: the queue fills while the writer
  holds a piece. Writes may fail; the process may be killed anywhere except
  between saving the state and the end of the drain, where `ResumeSound` does
  not claim anything and `NoPieceForgotten` would be false of the next process.
  No symmetry, as liveness is checked.
* `thread_pool`: three workers, three tasks. A notification can go to a worker
  while a second is between queue and sleep and a third runs a task.
* `bitcask_store`: two keys, two values, five writing commands, three entries per
  file, timestamps 0 and 1, all events. That is enough for a second file, for
  merges that cross the boundary and are repeated or cut short, for writes with
  equal and with falling timestamps, and for an entry behind one that was cut off.
* `bitcask_index`: five writes, two entries per file, timestamps 0 and 1, one merge,
  and an orderly end at any moment between commands.
* `redis_cache`: two keys, the numbers 0 and 1, lists of one element, a clock
  that advances once, two saves, one child. One advance suffices for a deadline
  to pass before, during or after a command. Keys are interchangeable. The save
  that overlaps another is of an empty database (`MaxBeside` 0): its header and its
  end are enough to mix up the file. That a third save, alone, puts it right again
  is left to the proof.
* `url_shortner`: two clients, two sites, two keys, two units each for header,
  body and reply. A URL can be posted with and without its protocol, deleted and
  posted again under a second key while the other client looks up the first; a
  part can end before, at and after the end of the header. Clients and sites are
  interchangeable.

* `git`: the paths `.gitignore`, `d` and `d/f`, so that a file can become a
  directory and back; two contents, one of them empty, the other of which makes
  `.gitignore` ignore `d/f`; one tag; five edits or writing commands, on a new
  repository or on a clone whose branch is packed or whose HEAD is detached. A
  further commit on top of the clone's, with another edit and a kill between any of
  its steps, fits into that.
* `servers`: the shell reads two lines, of one or two commands whose outputs are
  empty, fit or overfill a pipe of one chunk, with one interrupt and one failing
  call; the judge compares all texts of up to two lines; two clients send up to two
  requests each to the Redis server; two browsers share two threads of the HTTP
  server, so that a descriptor is closed, given out again and erased in every order.
* `libraries`: lists of up to four nodes and five operations, so that a copy finds
  the heap full; two threads with two pointers each and three objects, seven
  operations; three keys in two maps and a cache of one or two; an arena for three
  objects at five addresses and three alignments. The functions get all texts up
  to a length at which every branch is taken (Brainfuck programs of up to nine
  characters, JSON texts of up to eight lexemes, command lines of four words,
  messages of every kind cut at every place, boards of size 3 to 5).

The bounds `MaxWrites`, `MaxTime`, `Numbers`, `MaxLen`, `MaxSaves`, `MaxBeside` and
`MaxUrls` only make the instance finite; the code has no such limits. `MAX_BACKLOG`,
`MAX_QUEUE`, `MaxStamp` (2^32 - 1) and
the attempts are the code's constants with smaller values. Deadlock is checked
except for Bitcask, the servers and the libraries, where the bounds, or a program
that ends, end every behaviour.

### Fairness

`DiskWriter`, `ThreadPool` and the four modules of `servers` state fairness. Every thread keeps running
while it can (weak fairness): the threads are native and preemptively scheduled.
A thread that waits for a mutex that becomes free again and again obtains it
(strong fairness): otherwise a sleeper woken for nothing, over and over, could
keep the other thread out for ever, which no implementation of `std::mutex` on
the platform does in practice, although the standard does not promise it. A
notified sleeper wakes. Nothing forces a spurious wakeup, a new piece or task, a
call of `wait`, the end of the download, the destruction of the pool, a crash or
a restart. In `servers` weak fairness suffices: the operating system runs every process and
thread that can run, `poll` reports every ready socket and the loop serves all of
them, clients read what has arrived, and a browser that is connected sends
something or leaves (a silent one would hold its thread for ever, since `recv` has
no time-out) and, if it has sent a part of its request, sends the rest or leaves. The judged program need not end, nobody need type a line, ask or
leave. `LineEnds` excuses a pipeline whose last command writes more than a pipe
holds, `RequestAnswered` a client that leaves and a request that is a bulk string
alone, `RequestServed` a browser that leaves, an interrupt, and a SIGPIPE that has
ended the process. `ScheduleReturns` excuses itself when a write has failed or the
process has ended, and `TasksRun` when the pool is destroyed.

## 4. Proofs

TLAPS proves, with no assumption other than the `ASSUME`s of the modules:

| Theorem | States |
|---|---|
| `TypeCorrect`, `OnlyUnknownPiecesThrow`, `BlocksHaveOneOwner`, `BookkeepingExact`, `PiecesScheduledOnce` (PieceManager) | `TypeOK`, `ThrowsForUnknownOnly`, `SingleOwner`, `BooksExact`, `ScheduledOnce` hold always, for any finite set of pieces, any indexes a peer may name beside them, any numbers of blocks, any peers, any backlog |
| `ManagerNeverThrows` | `NoThrow` holds always in behaviours in which no peer names a piece that the torrent does not have |
| `ReceivedBlocksKept` | no step breaks `ReceivedKept`, for the same constants |
| `TypeCorrect`, `PiecesHeldOnce` (DiskWriter) | `TypeOK`, `HeldOnce` hold always, for any pieces, any queue length, and kills at any place |
| `NothingForgotten`, `ResumeIsSound`, `OutputIsComplete` | `NoPieceForgotten`, `ResumeSound`, `OutputComplete` hold always, if no kill comes between the saving of the state and the end of the drain |
| `TypeCorrect`, `EventsAreRouted`, `TablesAlwaysAgree`, `HandshakesComeFirst` (PeerConnections) | `TypeOK`, `Routed`, `TablesAgree`, `HandshakeFirst` hold always, for any finite set of peers, any attempts, whole and partial sends |
| `TasksRunOnce`, `WaitIsSound`, `DestructorIsSound` | `RunOnce`, `WaitMeansDone`, `NobodyLeft` hold always, for any finite set of workers, any tasks, both policies |
| `DeadlinesHaveKeys`, `OneKeyAtATime` | `TtlHasKey` holds always and no step breaks `OthersUntouched`, for any keys, clock, children and saves, overlapping or not |
| `FileIsOneMoment` | `OneMoment` holds always, for the same constants |
| `MapsInverseHolds`, `RepliesRightHolds`, `NoneLeftWaitingHolds` | `MapsInverse`, `RepliesRight`, `NoneLeftWaiting` hold always, for any clients, sites, number of keys and lengths |
| `IndexIsExact` | `IndexExact` holds always, for any keys, values and file size, unless a store that has been merged may be killed or merged again, and then restarted |
| `StoreIsAStore` | `Spec => IsAStore`: the store implements `KeyValueStore`, for any keys, values, file size, timestamps and events |
| `EverythingIsStored`, `CleanIsSaved` | `ObjectsReachable`, `CleanMeansSaved` hold always, for any paths, contents, tags, and rules of what is ignored, a new repository or a clone |
| `NoCommitIsLost` | no step breaks `HistoryKept`, for the same constants |
| `OwnershipIsExact` | `OwnershipExact` holds always, for any finite sets of threads and pointers, any number of objects |
| `VerdictsAreRight` | `VerdictRight` holds always, for any texts |
| `RepliesAreRight` | `RepliesRight` holds always, for any finite sets of clients and browsers, any number of threads |
| `NothingIsLeft` | `NothingLeft` holds always, for any lines of up to two commands |

**PieceManager.** None of the properties is inductive: that no lookup fails
depends on the counters being exact, which depends on every pending block being
REQUESTED in a partial piece and pending from one peer only, which depends on
selections being PENDING. The inductive invariant `IInv` is the conjunction of
`ManagerOK(pm, B)`, where `B` is the set of all pending blocks, `PeersOK`, and
`ScheduledOnce`. Each operation of the class has a lemma that says how it takes
`ManagerOK` for one set of pending blocks to `ManagerOK` for another (`ResetOK`,
`ReceivedOK`, `RequestOK`); the handlers are compositions of them
(`AfterMessageOK`), and `NextOK` has one step per action. Of the three exceptions
`at()` and the double request are excluded by `ManagerOK`; the hash of an unknown
piece is asked for only when its last block has come (`ThrowsForUnknownOnly`), and
`ManagerNeverThrows` adds that memory is only ever taken for pieces a peer named
(`AfterMessagePartial`). Counting rests on the
library's theorems on finite sets. For `ReceivedKept` each operation is shown to
satisfy `KeepsDone`, which says for which blocks DONE may be taken back; only
`onBlockReceived` takes any back, those of a piece it has just completed.

**DiskWriter.** `HeldOnce` (a piece is queued or in one thread's hands, once) needs
to know where a thread can have a piece in hand and that everything held has been
counted in `haves`: a piece is handed over only when it is counted anew. That is
`Custody`. The properties about files need in addition what the *absence* of the
writer means: unless a write has failed, a writer that has ended found the flag set
and the queue empty, and a thread that is no longer joinable has ended. That is
`Drained`. The hypothesis `CrashAt \cap Draining = {}` of three theorems is the same
restriction as in the run: a kill after the state is saved and before the queue is
written leaves a state file that counts pieces which are not on disk. The code has
no defence against it, and the properties are false there.

**PeerConnections.** The three tables are indexed by descriptors that the kernel
reuses, and dropped peers keep the number they had. `Linked` says that an open
socket, its map entry and the descriptor in the peer's context agree;
`DeadIsKnown` that a socket which has closed itself is still known to the peer it
led to, whose turn in the sweep is yet to come; `Greeted` is `HandshakeFirst` during
the sweep as well as in the poll loop, and `ChokedFirst` that nobody unchokes us
before the handshake. That a new connection always finds a free descriptor
(`FreeDescriptor`) is a counting argument: there is one descriptor more than there
are peers, and `Linked` makes the map from open sockets to peers one-to-one. Every
event ends in the same way, so `EventStep` is proved once and `PollStep` shows each
handler to be an instance of it.

**ThreadPool.** `wait` goes by the queue and `activeTasks`, the property by
tasks that have run. `ActiveExact` says what the counter counts (the workers
from taking a task to accounting for it), `PlacesExact` that only a running
worker has a task in hand; with them `WaitMeansDone` follows from the invariant.
`OwnerExact` carries what the owner saw when it was woken until it returns.

**RedisCache.** `Sound(db)` adds to `TtlHasKey` that the database is a record of
two maps. Every operation of class `Cache` preserves it, a purge and a load
establish it whatever they start from, so nothing need be known of the dump.
`OthersUntouched` compares values, so `Storage` adds that the file and the jobs of
the saving processes are lists of chunks: then a load is a load, a command keeps
what it does not name (`Kept`), and the commands that touch two keys compose.
For `OneMoment`, `InOrder` says that the chunks in the file are of the last save, in
the order of its job, that the job continues where the file ends, and that nobody
else is writing. A save that begins alone establishes it, whatever the file was; a
save that begins beside another sets `overlapped`, and nothing is claimed until
the next one that begins alone. `LoadsOneMoment`, which has no such exception, fails
(section 6).

**UrlShortner.** `HandlerOK` adds to `MapsInverse` that a key in use means what
it was issued for and that the counter is above all issued keys, so that `issued`
only grows and a right reply stays right (`RightStays`). `EntryOK` says of an open
descriptor what `pendingBytes` is at every point of a request, from which it
follows that a request counts as complete exactly when all of it has been read
(`ReadRequest`), and that the reply under way is right unless the client has hung
up. Nothing is needed of how the kernel chooses descriptors, beyond that no open
one has two owners, which the invariant includes.

**Bitcask.** `BaseInv` holds whatever happens: types, and what the index, the
buffer and the renamed files are at each stage of a merge. `IndexExact` is not
inductive on top of it: what get reads must stay right when the file it reads from is
renamed, and when the index is replaced by one that has been written down before.
`Exact` says that every place in the index leads to an entry with that key and a
value, in the file that a read would open at that stage of a merge; `HintExact` the
same of the index in the hint file; `Pure` that no misread bytes have been copied;
`Spared` that no merge was cut short and read back. Their conjunction is `IndexInv`.
`IndexEvents`, the hypothesis of `IndexIsExact`, is as weak as the code
allows: without either half of it TLC finds the property violated (section 6).

The refinement has no hypothesis. `StoreInv` adds to `BaseInv` what a start needs if
there is one log and no hint (`Sole`): for every beginning of the log that a kill may
leave, the last value of each key whose entries are in order there (`Orderly`)
is in `may` (`Kept`), and the index leads to it (`Known`). A write extends the log at
its end, so that what was orderly before is a part of what is orderly after
(`KeptAppend`); a flush makes the whole log the only beginning (`KeptFlushed`);
`RemainsKept` covers kills, entries cut off included. At a start, `LoadKnows` says
that the index read from the log leads an orderly key to its last entry: either the
reading ends at the end of the file or at an entry that was cut off (`ReadableEnd`),
behind which an orderly key has nothing. `Refines` maps each action to a step of
`KeyValueStore` or to none.

The three loops need induction. `CountingUp` has it in the form of a fact about
sets (a set that contains 0, and i + 1 whenever it contains i < n, contains
0 .. n), from the library's theorem that the natural numbers are well-founded;
`Recursion` says that a recursive function on 0 .. n whose values stay in a set
exists, and `LoadRuns`, `IndexRuns` and `MergeRuns` that the functions of the
model are such. `MergedFacts` says what a merge has copied, whatever the order of the
hash table.

**GitRepository.** `GitInv` has what `ObjectsReachable` needs of a command that is
half done: `CommandReady` says that the blobs of an `add` are stored before the
index names them, and that the commit under way has all its trees stored and the
head as its parent, so that moving the branch (`CommitRefStep`) leaves everything
reachable and the old commit an ancestor, which is `HistoryKept`. Objects are never
removed, hence `StillReachable` carries what was reachable over every other step.
For `CleanMeansSaved`, `StatusNow` says that the last answer of `status` is about
the files as they are (an edit discards it), and `FilesApart` that no file lies
below another. That an untracked file shows up is an argument over directories:
`status` names a directory in place of the files below it, and were every path
hidden by a shorter one there would be no shortest (`Shortest`).

**SmartPtr.** The counter of an object is atomic, but its last pointer is let go of
in two steps, the decrement and the deletion, and other threads act in between.
`CountsExact` says that the counter is the number of pointers (at most one for a
unique_ptr); `DyingLast` that an object which a thread is about to delete is held by
nobody and is nobody else's to delete; `NoneLost` that an object nobody holds is
some thread's to delete, unless `release()` gave it away. `CountsMove` says how an
assignment changes the number of pointers to each object; a swap and a move are two
of them. `Handover` is what construction, assignment, move and destruction have in
common: one object is let go of and at most one is made.

**Servers.** The four components of `MCServers` share no variable,
so each has an invariant that its own steps preserve and the steps of
the others leave alone (`JudgeAlways`, `HttpAlways`, `RedisAlways`, `CshAlways`).
The `ASSUME`s of `MCServers` are what the proofs need: the shell reads lines of at
most two commands (longer ones run the same code with a larger index; `Csh` models
pipelines of two), texts are lists of lines, clients and browsers are finite sets,
requests are numbered.

* The judge decides by two files that three processes write. `Stages` says what
  exists at each place of the sandbox process, `FirstLine` that until the program is
  reaped the first line of the error file is the program's or the timer's and was
  written before the kill. From these a verdict is what the program's end and its
  output deserve (`Judged`), whoever was first, the timer or the program.
* In the HTTP server a descriptor passes from the accept loop through the queue to a
  task, and `close` and the removal from the set are two steps, between which the
  kernel may give the number to another browser. `InHand`, `Apart` and
  `OneConnection` say that no two have the same descriptor or the same connection in
  hand, `StillOpen` that until the interrupt it is an open one; `NotYet` and `HasRead`
  say that nothing is answered twice and what is about to be sent answers what was
  read of that browser's own request, all of it or a part.
* In the Redis server `Conversations` says of each open descriptor that it is
  `Resting`, `Asking` (what has been read and what is on its way are together one
  request) or `Answering` (what has been sent and what is left are together one
  reply); `Stream` that the parts a client has and those on their way to it are those
  of its requests in order. The stream may be cut anywhere: `CutWhole` is the lemma
  on sequences that makes every cut harmless.
* For the shell, `NothingLeft` says that when it asks for a line it holds no pipe end
  and no pid, no command runs and, unless interrupted, all have been waited for. `ShellHolds` and `InLine` give what the shell holds at each place;
  `KeepsOpen` that a command which runs holds the writing end that the shell waits
  on, so that end of file means that it has gone; `Unreaped` and `Remembers` that,
  without an interrupt, a process not yet waited for is among the remembered pids.
  They are claimed while no system call has failed and the shell is in a defined
  state, as `NothingLeft` is.

Only model-checked:

* liveness (`ScheduleReturns`, `WaitReturns`, `TasksRun`, `AllAnswered`), which needs
  fairness and `ENABLED`;
* the other properties of `MCLibraries`: the pure algorithms are RECURSIVE
  operators, and what those compute for every input would need induction over data,
  of which the prover can say nothing. `ContainersExact` names lists that are walked
  recursively.

## 5. Plan

Done, in this order: the torrent client's scheduler, connections and disk writer;
the thread pool; bitcask; the Redis database; the URL shortener; cgit; the shell,
the judge and the two servers; the containers; the functions. Left:

1. `Torrent`: PieceManager and PeerConnections composed, the pending blocks of the
   one being the flag of the other.
2. The reload command of bitcask on a store that is loaded; exceptions in the
   HTTP server's tasks; the threads of the download proxy.
3. More functions: CSV, `fnmatch`, `bigint`, Minesweeper.

Proofs that could follow: `LruExact` and `AllocationsFit` for any capacity and number
of objects, with the cache's recursion and the sum of the allocations written as
recursive functions.

## 6. Known divergences

What a comment, a README, a test or a name in the repository says and the code
does not do.

The run `disk_writer_shutdown` must be found violated: `finish()` and
`~DiskWriter` set the flag and notify without the mutex (`disk_writer.cpp:98-99,
106-107`); between the writer's test and its sleep the notification is lost and
`join` never returns.

The following properties are stated in the modules and fail in the same way. To
see the steps, put the property in the place of those of the component's cfg, with
the constants given here where they differ.

| Property | Constants | What happens |
|---|---|---|
| `AllTasksComplete` (ThreadPool) | `Workers = {w1}`, `Tasks = {t1}` | under `ALL_TASKS_COMPLETE` tasks that are queued at destruction are never run and the workers spin (`threadPool.hpp:43-46`) |
| `DestructorReturns` (ThreadPool) | the same, `epolicy = "CURRENT_TASK_COMPLETE"` | the same lost notification as in the disk writer (`threadPool.hpp:27`) |
| `NoThrow` (PieceManager) | | a peer names a spare bit of its bitfield, or a number beyond the last piece, and sends the blocks that it is then asked for: `getPieceHash` throws (`piece_manager.cpp:50`) and the download ends (`main.cpp:76`); `torrent_downloader.cpp:13-29` checks no index |
| `RequestTracked` (PieceManager) | | a block of the wrong size is taken off the peer's list and stays REQUESTED (`torrent_downloader.cpp:49-54`): the piece can never be completed |
| `OpenIsConnected` (PeerConnections) | `PartialSends = FALSE` | a dropped peer keeps its old descriptor number; the sweep closes, on its behalf, the new connection of another (`torrent_downloader.cpp:318`) |
| `BlocksGivenBack` (PeerConnections) | `PartialSends = FALSE` | two dropped peers with the same stale descriptor number: the drop of one removes the map entry by which the sweep would have given back the blocks of the other (`:318-331`) |
| `SendBufferTracked` (PeerConnections) | `Peers = {p1, p2}`, `Silent = {}` | the sweep fills a send buffer and does not ask for the socket to be polled for writing (`:306`) |
| `RequestsArePending` (PeerConnections) | the same | what should cancel the requests of an idle peer repeats them (`:310`) |
| `MessagesWhole` (PeerConnections) | the same | a message that was sent in part is overwritten (`:234`) |
| `GivesUpLast` (PeerConnections) | the same | the loop ends as soon as no socket is open, although reconnects are due (`:167`) |
| `CleanExit` (DiskWriter) | `CrashAt = {}` | after a failed write the destructor does not join the thread, and `std::terminate` is called (`disk_writer.cpp:57, 96`) |
| `FindsAgain` (Bitcask) | `LogSize = 1`, `Happens = {"quit", "any"}` | a deleted key comes back if the file with its tombstone is read before the file with its value (`bitcask.cpp:187, 232`); the comment at `:281` promises otherwise |
| | `LogSize = 10`, `Happens = {"quit"}` | two writes in one millisecond, or a clock that was set back or whose 32 bits have wrapped (`:19`, every 49.7 days): the first wins at the next start (`:190`) |
| | `LogSize = 10`, `Happens = {"merge", "crash", "any"}` | files are renamed over the logs before the merged data and the hint are on disk (`:344`) |
| | `LogSize = 10`, `Happens = {"crash", "torn"}` | new entries are appended behind one that was cut off and are not found again (`:186, 246`) |
| `IndexExact` (Bitcask) | `Happens = {"merge", "crash", "any"}` | the same: the next start reads places in files that are not those the index was made for |
| | `Happens = {"quit", "any", "merge", "remerge"}` | the next start reads the index of the first merge (`:321`) |
| `HintUpToDate` (Bitcask) | `LogSize = 10`, `Happens = {"merge", "remerge", "any"}` | the second merge appends to the hint file, of which the first index is read (`:321`) |
| `SetStores` (RedisCache) | | SET leaves the deadline of the old value in place (`CommandHandler.cpp:47`) |
| `LoadsAtStartup` (RedisCache) | | ten bytes of the header are compared, nine have been read (`Cache.cpp:160-162`) |
| `LoadsOneMoment` (RedisCache) | | overlapping saves write over each other in one file, which is then loaded (`CommandHandler.cpp:239`) |
| `RightReply` (MCServers) | | one `recv` reads a part of a request, which is answered with 404 or 405 (`http-server.cpp:65`) |
| `NeverKilled` (MCServers) | | the answer to a client that has left raises SIGPIPE, which is not ignored: the server ends, and no other request is answered (`http-server.cpp:111`) |
| `FramesComplete` (MCLibraries) | | a keep-alive has length 0, which is also what `IsCompleteMessage` says of an incomplete message: what follows it is never handled (`protocol.cpp:114`) |
| `ChunkedComplete` (MCLibraries) | | a chunked message is complete only when a further character has arrived (`<=`, `net.hpp:174`); the comment at `:142` says otherwise |
| `StreamComplete` (MCLibraries) | | `stream` expects fragments that end with a chunk, the first with one more (`net.hpp:1146-1176`) |
| `PipeComplete` (MCLibraries) | | the proxy relays a body without its beginning, or throws, when the head comes in two fragments (`download-proxy.cpp:105`) |

Elsewhere the properties say what the code does, and leave out these cases:

* **Torrent messages**: `buildKeepAlive`, which nobody calls, gives two characters
  instead of four (`protocol.cpp:63`).
* **csh**: the errors of a pipeline are read to their end before its output, so
  that a command that fills the pipe waits for ever (`csh.cpp:535, 543`); an
  interrupt in `execute` empties the queue that is popped next (`:477`); a failed
  `fork` is remembered as pid -1 and a failed `pipe` leaves descriptors open; the
  draft of a line is kept on insertion only (`:210`); quoted words that are empty
  vanish and a quoted `|` is a pipe.
* **cjudge**: memory limits have no verdict of their own; a failed inner `fork`
  leads to a comparison; `compareFiles` takes a prefix, and texts that differ in
  empty lines, for equal (`cjudge.cpp:191-212`).
* **Redis server**: a bulk string alone is never complete (`Server.cpp:54` has `<`);
  a `$` in a value, or two requests at once, is answered as invalid; a malformed bulk
  string in an array throws a node (`Node.cpp:29, 34, 46`) that `handleRequest` does
  not catch (`CommandHandler.cpp:293`), and the server ends; `Node.cpp:38`
  cannot read back a number, or a nil that is not last, in an aggregate.
* **HTTP server**: the interrupt handler waits for a mutex that the thread it
  interrupts may hold (`http-server.cpp:46`), and shuts down what a number in the
  set means by now (`:114-117`).
* **net.hpp**: a response without a length is handed over as far as it has come;
  ports are cut to 16 bits (`:756`).
* **cgit**: a file that was staged empty and has been replaced by a directory of
  ignored files is reported clean (`GitRepository.cpp:825-841`), as the directory
  reads as an empty file. This is why `CleanMeansSaved` says that HEAD has every file
  and that its other files are such directories: with `saved = HeadFiles` in its place
  TLC finds the steps under the constants of `git`. The look-up in a pack includes the position behind the last hash
  (`GitPack.cpp:67-75`), and an object in two packs cannot be extracted (`:92`).
* **bencode, JSON**: malformed texts are accepted ("d1:aee", "1e:", and JSON whose
  commas and colons only add up), empty keys are lost when written
  (`bencode.cpp:48`), an exception is built and not thrown (`:12`); JSON strings
  with escaped quotes are escaped twice.
* **argparse**: validators run on values that were never set, and a flag takes the
  next word. **tar**: the target of a link is cut at 100 characters, a read-only
  directory cannot be filled. **brainfuck**: the bytecode counts modulo 255, `[++]`
  becomes a CLEAR. **cdiff**: identical files read one delta too many (`cdiff.cpp:108`).
* **Containers**: `push_front` of the implicit list loses all nodes when memory
  runs out (`fwd_list_implicit_mem.hpp:151-153`); a constructor that throws leaks a
  node of the allocator's list; copy assignment of an `ordered_map` keeps old
  entries (`ordered_map.hpp:34-39`) and `extract` follows an erased iterator
  (`:110`).

## 7. Running

From this directory: `tlc -workers 2 -config ThreadPool.cfg ThreadPool`
checks a run, `tlapm ThreadsProofs.tla` the proofs of a module. The slowest
run takes about two minutes, the slowest proof module about nine.

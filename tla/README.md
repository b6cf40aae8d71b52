# Verification of the search server

TLA+ modules, TLC configurations and TLAPS proofs for the program in
`src/searchserver`: `httpd port directory` crawls a directory, builds an
inverted index of the words in its files, and serves the files and a search
form over HTTP with a pool of 100 threads.

1. [The system](#1-the-system)
2. [Modules](#2-modules)
3. [What the runs check](#3-what-the-runs-check)
4. [Fairness](#4-fairness)
5. [What is proved](#5-what-is-proved)
6. [Where code and comments disagree](#6-where-code-and-comments-disagree)
7. [What is not modelled](#7-what-is-not-modelled)
8. [Plan](#8-plan)

Run everything from this directory: `tlc -config X.cfg M` for a run of
`PROJECT.json`, `tlapm M.tla` for the seven `*Proofs.tla` modules and `Induction`.

## 1. The system

| component | state | operations | interacts with |
|---|---|---|---|
| `httpd.cpp` main | the index, the server object | arguments, crawl, run, delete the index | all of it, in order |
| `HttpServer` | listening socket, document directory, index pointer | `run` (accept loop), `HttpServer_ThrFn` (one connection), `ProcessRequest` and its two handlers | dispatches `HttpServerTask`s to the pool; threads share the index |
| `ThreadPool` | `q_lock_`, `q_cond_`, `work_queue_`, `num_threads_running_`, `killthreads_` | constructor, `dispatch`, destructor, `thread_loop` | one owner thread, N workers |
| `HttpConnection`, `HttpRequest` | `fd_`, `buffer_` | `next_request`, `parse_request`, `write_response`, destructor | the client, through the kernel |
| `WordIndex`, `Result` | `index_`, `doc_to_words_`, `num_words_` | `record`, `lookup_word`, `lookup_query`, `num_words` | filled by the crawl, read by all workers without a lock |
| `CrawlFileTree`, `FileReader` | open directories, the file in hand | `crawl_filetree`, `handle_dir`, `handle_file`, `read_file` | the file system; `WordIndex::record` |
| `ServerSocket` | `listen_sock_fd_` | `bind_and_listen`, `accept_client`, destructor | the kernel |
| `HttpUtils` | none (`URLParser`: path and arguments) | `decode_URI`, `escape_html`, `URLParser::parse`, `wrapped_read`; for clients and tests `connect_to_server`, `wrapped_write`, `is_path_safe` | called by the above and by the tests |
| `HttpResponse` | code, message, type, body | `GenerateResponseString` | written by a connection |

A run of the program: main crawls the tree (single-threaded, the only time the
index is written), `HttpServer::run` binds, builds the pool and accepts. Every
accepted connection becomes a task; a worker owns it until the connection
ends, reading requests, asking the file system or the index, and writing
responses. If accept fails `run` leaves its loop; the pool, a local variable,
is destroyed: the workers are joined, the main thread serves what is left in
the queue, and only then main deletes the index.

What makes this hard to test, and what correctness means for each part:

- **ThreadPool.** A worker waits without first looking at the queue, one signal
  goes out per task, the destructor joins by index while the workers decrement
  the counter, and drains the queue without the lock. Right means: no task
  waits behind a sleeping worker, each runs exactly once, the destructor
  terminates and leaves nothing behind.
- **HttpConnection.** TCP cuts the stream anywhere, in the middle of
  `\r\n\r\n` as well; requests come back to back; the client may half-close or
  reset, before, while or after a response is written, and nothing but
  `Content-length` separates the responses. Right means: heads and answers are a
  function of the byte stream, no byte moves from one request or response to the
  next, and every complete request is answered.
- **WordIndex.** The index is kept twice; `operator[]` inserts on a read, and a
  hundred threads read at once with no lock. Right means: both halves agree
  with what was recorded, and queries only read.
- **CrawlFileTree.** Order of entries, links back up the tree, calls that fail
  halfway: `stat`, `opendir`, `open`, `readdir` before the end of a directory, a
  read in the middle of a file. Right means: the index holds exactly the words
  that were read, every directory is closed, the crawl ends.
- **HttpServer, ServerSocket, main.** Sockets, descriptors, task objects and
  the index pass between main, queue and threads. Right means: each is released
  exactly once and nobody uses one that is gone, also while the server goes
  down.
- **The client's calls.** Addresses that yield no socket or refuse, interrupted
  and partial writes. Right means: the descriptor given out is connected, every
  byte is written once, and a short count means an error.
- **Request processing.** A string is encoded by the browser, split, decoded,
  split again, looked up, made a link, and comes back as a URI. Right means: a
  search finds the documents with the words that were typed, and a link leads
  to the document it names, though the server opens whatever a URI leads to.

`PROJECT.json` lists each hazard with its line and the properties about it.

## 2. Modules

```
TaskPool  <-- refinement --  ThreadPool   <-- ThreadPoolProofs
   ^
   | INSTANCE
HttpServer -- INSTANCE --> ServerSocket  <-- HttpServerProofs
   | EXTENDS
   v
ConnectionStates <-- EXTENDS -- Connection
                                   ^
                                   | refinement (ConnectionMapping)
                                HttpConnection <-- ConnectionMapping <-- HttpConnectionProofs
                                                     ^-- MCHttpConnection
CrawlFileTree -- INSTANCE --> WordIndex   <-- MCWordIndex, WordIndexProofs
   ^-- MCCrawlFileTree, CrawlFileTreeProofs
ProcessRequest -- EXTENDS --> HttpUtils
   ^-- PathSafety <-- MCProcessRequest, ProcessRequestProofs
HttpClient <-- HttpClientProofs
Induction  <-- WordIndexProofs, CrawlFileTreeProofs, ProcessRequestProofs,
               HttpConnectionProofs
```

CrawlFileTreeProofs also instantiates WordIndexProofs, as the crawl's `record` is
WordIndex's.

**TaskPool** is the abstract pool: tasks start in the order of submission, each
once, on an idle thread; what is left at the end is run by the owner after
every worker has finished. **ThreadPool** is the code: the mutex has a holder,
a worker is a program counter (`unborn`, `start`, then `outer`, `waiting`, `relock`, `inner`, `run`, and `dead`), a
step is what happens between two operations on the mutex. `pthread_cond_wait`
is three steps (release and sleep, wake up, get the mutex), wakes up spuriously, and
`pthread_cond_signal` wakes any one sleeper. `pthread_create` fails up to
`MaxCreateFailures` times. `taken`, `submitted` and `finished` are history
variables.

**HttpConnection** is one connection: the client's remaining bytes, the wire,
`buffer_`, and the worker in `HttpServer_ThrFn`. A stream is a sequence of
tokens: CR and LF, because a cut between them matters, and whole lines, because
a cut inside a line does not. `Read(n)` takes any available number of tokens up
to the buffer's size. Trimming and lower-casing of header values are modelled
(they decide whether `Connection: close` is recognised). Exceptions that
nothing catches (`at()`, `string(buffer, -1)`) are the state `crashed`.
`GenerateResponseString` is a head, with the URI and `Content-length`, and as many
tokens of body; `Write(n)` is the kernel taking some of them in the one
`write()`, `WriteFails` its returning early because the client is gone, which
the code does not notice. What a request's body is, is a constant function.

**Connection** is what that amounts to for the client: requests arrive (`asked`),
perhaps with something `behind` them that ends the connection or the server;
replies go out in order; the client may be `away`. It has three serving
states, whose permitted `Moves` are in **ConnectionStates**. **ConnectionMapping**
gives the mapping: `asked` is computed from the whole of what was sent at once,
`replies` by reading what was received as a client would, head by head
and as many tokens as `Content-length` says. `stuck` is the read loop at the end
of the client's stream. HttpServer is built on the same `Moves`, so that what
it assumes of a connection is what HttpConnection was shown to do.

**WordIndex** has the maps as functions with growing domains, so that what
`operator[]` inserts is visible. `lookup_query` is a loop, one document per
step, and any number of readers run it at once. `recorded` and `missed` are
history. `num_words` is the variable itself; a step that only reads it would
change nothing.

**CrawlFileTree** keeps the recursion as an explicit stack of directories, each
with the names still to be read, in any order. The file system is a graph:
`stat` follows links, so a link to the root is a cycle, which ends when a path
exceeds `MaxDepth` names (PATH_MAX in reality). Any call may fail, `MaxFailures`
times: `Fails` is for the calls whose failure loses paths (`stat`, `opendir`,
opening a file, and `readdir`, whose NULL `handle_dir` takes for the end of the
directory), `ReadFails` for a read in the middle of a file. `read_file` then returns
true with one of the `Beginnings`: some tokens, and what `Cuts` says can be left of
the next one. `lost` and `cut` record which paths and files these were. It uses
the very `record` action of WordIndex, which has no bound; `MaxRecords` bounds
only WordIndex's own `Next`.

**ServerSocket** is `bind_and_listen` address by address. **HttpServer**
composes it with TaskPool and the life of main, from its arguments on, and of
each connection, which makes the moves of ConnectionStates. `hst` is the set of task objects
that exist, `fds` the open client descriptors, `accepted` what a task's fields
say.

**HttpUtils** translates `decode_URI` (as a recursive function over positions),
`escape_html`, `URLParser::parse` and `is_path_safe` (over a file system given as
a set of paths; `realpath` is external); **PathSafety** is such a file system, in
which the documents that still exist lie in every directory; **ProcessRequest** is a browser that
submits the form, asks for URIs or follows links, and the server's handlers
between the URI and the response. What a file name leads to is the constant
`LeadsTo`: an indexed document, or one of the `Others`, that is any other file or
directory, above the working directory as well. `ProcessFileRequest` answers 200
for all of them; a directory opens, and its body is empty because reading it
fails. Documents can vanish at any moment.
`lookup_query` here is what `AnswerRight` of WordIndex says it returns; the
index contents are what `IndexComplete` of CrawlFileTree says they are.

**HttpClient** is a program that uses the other half of HttpUtils, as the tests do:
`connect_to_server` address by address, with the descriptors it takes, and
`wrapped_write` write by write, with interruptions and a peer that drops the
connection. The bytes of a connection are numbered, so that one that is repeated
or skipped shows.

Operators marked as mutants are not part of the specifications: each is a
plausible bug in the definition that follows it, and shows that a property can
fail.

## 3. What the runs check

| run | instance | question | properties |
|---|---|---|---|
| `pool` | 3 workers, 4 tasks, 2 failing `pthread_create`, fair scheduling | Is a wakeup ever lost, a task lost or run twice, taken after the kill? Does the constructor return, every task finish, the destructor end? Is TaskPool implemented, with its fairness? | `IInv` `WorkConserving` `ExactlyOnce` `CtorPostcondition` `NoWorkAfterKill` `PoolSpec` `CtorReturns` `TasksFinish` `DtorReturns` `PoolFairSpec` |
| `conn` | 6 streams of up to 3 requests, reads of 1-6 tokens, responses of 1-3 tokens | Does the client get the answers to its stream, in order and framed right, however stream and answers are cut up? Is every request answered, a malformed one the last? | `StreamInv` `StreamFidelity` `ConnSpec` `ConnLive` |
| `index_safety` | 2 words, 2 documents, 3 records, 2 readers, 5 queries | Do the halves agree, is every answer exact and ordered, do queries only read? | `IndexInv` `AnswerRight` `QueriesOnlyRead` |
| `crawl` | 2 files, 1 subdirectory, a device, a link to the root, 1 failing call of any kind | Is the index exactly what was read, is everything closed, does it end? | `TypeOK` `IndexComplete` `DirsClosed` `Terminates` |
| `server` | 3 addresses, 4 clients, 2 workers | Is everything released exactly once, does the index outlive its readers, does the shutdown serve everybody? | `TypeOK` `Descriptors` `OneThread` `IndexOutlivesWork` `TasksFreed` `SocketClosed` `AcceptedServed` `ShutsDown` |
| `request` | all texts up to 3 and paths up to 4 characters over the significant ones, 3 documents, 1 vanishes; another file and directories behind other paths | Does a search find what was typed, a link what it names, are decoding and escaping exact? Is `is_path_safe` right about paths of up to 4 names? | `TypeOK` `SearchRight` `LinksLeadBack` `DecodeExact` `EscapedOnce` `PathSafe` |
| `client` | 2 addresses, 3 descriptors, 3 attempts, 3 bytes in any buffers | Is what is given out connected, what is left open known, every byte written once? Do the calls return? | `TypeOK` `ConnectOutcome` `WrittenInOrder` `ShortMeansFatal` `CallsReturn` |
| `conn_eof`, `conn_close`, `conn_parse`, `conn_read`, `index_count` | as above, smaller | statements of comments that the code does not keep: section 6 | one each |

Why the bounds are enough to be interesting:

- Three workers and four tasks: one sleeping, one coming back from a task, one
  being woken compete for a task; a fourth task is left for the destructor. Two
  failing creations leave a pool of one, whose constructor never returns
  (`CtorReturns` is about the others).
- The streams hold two requests back to back, an unfinished third, a malformed
  one between two good ones, empty lines before a request, a head without a
  URI, and one with `Connection: Close`; reads of every size cut the header end
  in each of its three places. The bodies are one of two tokens, one that looks
  like a response itself, and empty ones.
- Three descriptors and two addresses: one call can leak two sockets, so that the
  third call runs out of descriptors. Three bytes make up to three buffers of
  up to three pieces.
- Three records over two words and two documents give a repeated word, a shared
  word and a document without a word; two readers interleave document by
  document. The two readers and the two documents are interchangeable, the words
  are not: the cfg's symmetry is over the former.
- `MaxDepth = 3` lets the crawl go through the link and find the root's file
  again under another path, and the subdirectory once more; one failure is enough
  to hide any file or subtree, to end any directory early, or to cut any file at
  any place. A file of two words that are the same but for their case, and a cut
  that leaves a word shorter, make counts that would show a mistake. Nothing
  bounds the number of words recorded. (416,579 states.)
- Four clients and two workers: both workers busy or stuck, two connections in
  the queue when accept fails, so that main has to serve more than one. Three
  addresses: none, some or all fail.
- `%XY` needs three characters, so three and four characters hold every escape
  with a neighbour, an escape cut off by the end, and `%%`. `MaxRemoved = 1`
  because a link leads to one document. Paths over `x`, `f`, `.` and `/` reach a
  document under several spellings, a file that is not indexed, the working
  directory and those above it. `PathSafe` is asked in one working directory.

Four clients and two workers stand for the 100 threads of `kNumThreads`: the
properties speak of one connection, one task, or pairs of threads.

## 4. Fairness

- **ThreadPool.** `Fairness` is weak for every step of every thread (the kernel
  schedules runnable threads) and strong for acquiring the mutex after waiting
  for it: `CtorRelock`, the owner's lock after a join, `Born`, `Relock`. A
  contended mutex becomes free again and again without staying free, so weak
  fairness would allow starvation that neither futexes nor the scheduler
  produce for ever. A task that is run is assumed to return. Nothing is assumed
  of the customer: he need not dispatch nor destroy.
- **HttpConnection.** Weak fairness of the worker thread (`Server`). The client
  need not do anything. A `read()` with nothing to read is not enabled, and a
  client that is there is taken to make room for what it is sent: one that
  sends without reading blocks the worker in `write()`, and is a client that does
  not end (`ClientsEnd` below). `ConnLive` writes out Connection's fairness as
  `[]<>~Waiting \/ []<><<Reply>>_vars`, because TLC cannot evaluate `ENABLED`
  of a mapped action.
- **HttpClient.** Weak fairness of the two calls; a call that is interrupted again
  and again is assumed to get on some time. As in HttpConnection, a peer that is
  there is taken to make room for what it is sent: one that never reads would
  block `write()` for ever, and `CallsReturn` does not hold with such a peer. The
  client itself need not go on.
- **CrawlFileTree.** Weak fairness of the one thread.
- **HttpServer.** Weak fairness of main and of the pool starting a task when
  there is one and an idle thread. The latter is the fairness of TaskPool, which
  `PoolFairSpec` shows ThreadPool to have. Nothing makes accept fail, and
  nothing makes a client end: `AcceptedServed` and `ShutsDown` have the premise
  `ClientsEnd`, that no connection stays in service for ever. Without it they
  are false, because a half-closed client holds its worker for ever (finding
  `conn_eof`), and with it the joins of the destructor.

## 5. What is proved

For every value of the constants, checked by TLAPS (SMT, Zenon, LS4):

| theorem | says | rests on |
|---|---|---|
| `ThreadPoolProofs!Invariance` | `Spec => []IInv` | see below |
| `NoLostWakeup`, `ExecutedOnce` | `[]WorkConserving`, `[](ExactlyOnce /\ DrainedSerially)` | conjuncts of `IInv` |
| `CtorTheorem`, `KillTheorem` | the two action properties | `IInv` before the step |
| `Refinement` | `Spec => PoolSpec` | `IInv`, one lemma for the step that takes a task |
| `HttpConnectionProofs!StreamInvariance`, `Fidelity`, `OneHead` | no byte is lost or moved; what is parsed is one head | `FindEndIsFirst`, `CutEffect`, `MoveTokens` |
| `HttpConnectionProofs!Refinement` | `Spec => ConnSpec`: however the stream is cut into reads and the responses into writes, the client gets whole responses, in order, once each, and none from the first malformed request on | `HeadInv`, `ReplyInv`; `HeadsFromIs`, `FramesFromIs` |
| `WordIndexProofs!IndexInvariance`, `ReadOnly` | the halves agree; queries only read | `RecordEffect`, `TouchKnown` |
| `WordIndexProofs!AnswersRight` | every lookup returns the documents with all its words, with the sums of their counts, best first, whatever other readers do | `LookInv`; `Induction`'s lemmas about sums |
| `CrawlFileTreeProofs!TypeCorrect`, `DirectoriesClosed`, `Complete` | open directories are those on the stack, none after the crawl; the index is exactly the words that were read, for any finite file system, cycles included, any number of words, and failures of `stat`, `opendir`, `readdir`, `open` and reads at any point | `Nested`, `DueInv`, `FileInv`, `DoneInv` |
| `HttpServerProofs!DescriptorsRight`, `ObjectsFreed`, `OneThreadEach` | a client's descriptor is open and its task object exists exactly from accept to the end of its connection, which has one thread | `NumberInv`, `TaskInv`, `ObjectInv`, `FdInv` |
| `HttpServerProofs!IndexOutlives`, `SocketsClosed`, `TypeCorrect` | the index is deleted after the last connection; no listening socket is left open, for any number of addresses | `PhaseInv`, `SocketInv` |
| `ProcessRequestProofs!Search` | for texts of any length: what is linked is what contains the words that were typed | `DecodeEncoded`, `FormParses`, `WordsAreTerms` |
| `ProcessRequestProofs!LinksRight` | a link leads to its document or to a 404, never to any other file the server can open | `LinkName` |
| `ProcessRequestProofs!Decoding`, `Escaping` | `decode_URI` and `escape_html` replace every character once, in strings of any length | `DecodeIsExact`, `EscapeExact` |
| `ProcessRequestProofs!TypeCorrect` | an answered request has a code, 200 if any file was opened for it; only documents are linked | `AskInv`, `FileAnswer` |
| `ProcessRequestProofs!Paths` | `is_path_safe` is right about files below the working directory, in any file system, for any plain root, any spelling and any working directory but `/` | `ComparisonRight`, `RealpathIn` |
| `HttpClientProofs!InOrder`, `NoShortWrite`, `Outcome`, `TypeCorrect` | `wrapped_write` writes every byte once and in order, and all of them unless the connection fails; `connect_to_server` gives out the first address that can be connected to | `Extend`, `WritePreserves`; `TriedInv` |

*The pool's inductive invariant.* `WorkConserving` (while some worker of an open
pool sleeps, there are at least as many woken idle workers as queued tasks) is
not inductive: a worker could go to sleep and leave a task behind. `SleepInv`
rules that out: a worker that holds the lock and is about to wait (`outer`)
leaves an empty queue, because it checked after its last task. `CtorInv` and
`CountInv` say that the constructor returns only when `num_threads_running_`
counts every worker as waiting, so none is still on its way to its first wait.
`LockInv` ties every step inside the critical section to the holder of the
mutex. `KillInv` and `RunInv` say that after the flag is up workers only die and
that the destructor's index `i` counts the dead, which makes the unlocked
draining safe. `OrderInv` makes the queue an interval of task numbers, which
gives `ExactlyOnce` and the order TaskPool asks for. The proof takes the
conjuncts one at a time, each over all actions.

*The connection's.* `consumed \o buffer_ \o wire \o unsent = stream` is kept
because every action moves tokens from the front of one part to the end of the
one before it; `RequestInv` needs that the first header end is the one cut,
i.e. that a prefix before the least position has none.

*Its refinement.* The mapping replays what was sent and what was received, so a
step of the code has to be carried through two recursive functions over whole
sequences. Both are unfolded one head, one response at a time (`HeadsFromIs`,
`FramesFromIs`, by position, as the strings below). What is needed of the past is
then two invariants that speak about what may still come. `HeadInv`: whatever the
rest of the stream turns out to be, the heads of the whole are those cut out
followed by those of the rest; this is where a header end cut by a read could go
wrong. `ReplyInv`: whatever else is delivered, what the client received so far is
whole responses to the heads answered and then a part of the one in hand. It is
claimed only while the client is there, because after `WriteFails` the worker goes
on with nobody to hear it; Connection says the same with `away`. `StepRefines` has
one case per action: `ClientSend` may complete a request, a cut and a `Goto` are
mostly stutters, and the last piece of a response is Connection's `Reply`.

*The index's.* `IndexInv` says that `doc_to_words_[d]` is exactly the set of words
recorded for `d` and `index_[w][d]` holds their count. That makes `operator[]` in
`lookup_query` hit: it is evaluated only for words of `doc_to_words_[d]`.
`TodoInv` says that a reader visits only documents of the index. The exact value
of `num_words_` is part of it: it misses the words in `missed`. For the answers
`LookInv` adds what a reader in the middle of `lookup_query` has found: the
entries of exactly the documents it has passed. What a document's entry adds up
to is `SumFunction`, which is defined by recursion over a set; `SumType` and
`SumOfOne` say of it what is needed, that a rank is a number, and that for one
word `lookup_word`'s count is the sum.

*The crawl's.* A path is due when some directory of the stack still has to deliver
the name that leads to it. `DueInv`: what is due has no failed call on its way and
nothing of it is recorded. `FileInv`: the words recorded of the file in hand and
those left make up its words, where a file whose reading failed has the words in
front of the failure. `DoneInv`: every other path that is not due is recorded
completely, or not at all if it was lost, by a call that failed on its way or by
a `readdir` that did not deliver it (`PassedOver`). A path is not
counted twice because the directories of the stack are nested and the name that
led from one to the next has been delivered (`Nested`), although the same file
may be reached under many paths. `NodeAt`, which follows a path by recursion, is
reduced to its next step by `WayAlong`. The index itself is covered by
WordIndexProofs, taken over through its INSTANCE.

*The server's.* `PhaseInv` ties main()'s position in `run` to the phase of the pool.
Tasks are numbered as they are accepted and started in that order
(`NumberInv`), so `Started` alone tells which are still pending; `TaskInv` says
that the state of a connection agrees: `queued` if its task is pending, serving
if some thread runs it. The descriptors and task objects follow from that
(`FdInv`, `ObjectInv`), except for the object of an accept that failed, which is
main()'s. The index outlives its readers because the pool is closed, hence
empty, before main() gets to `delete`. `SocketInv` lifts ServerSocket's invariant to
the server, whose `run` ends only after `bind_and_listen` returned.

*The strings.* What a recursive function computes is proved by position: a function
equal to its own unfolding exists (up to any position, so for all of them), the
one `CHOOSE` takes has that unfolding too, and a statement about every position
follows by going up or down the string. `decode_URI` is followed from the
right: each position begins an escape, is inside one, or is copied
(`DecodesChar`, `EscapesApart`). The passes of `escape_html` are each a
replacement symbol by symbol, so that appending a symbol appends its escape
(`EscapeAppend`). `Split` gives the longest stretches without separators
(`PiecesAre`). What is encoded by the browser lies piece by piece in the URI
(`FlattenLies`), and is decoded piece by piece. The invariant the theorems need
is small, `AskInv`: the URI that is being answered is the one that was sent.

*The paths.* `is_path_safe` compares characters where names are meant. `StringPrefix`
says that this is the same once the root ends in a slash: no name contains one, so
two names that are each followed by a slash or by nothing can be told apart
(`NamesSeparate`), one name after the other. What `realpath` returns is a path
however the file was spelled, because its last step is one within the file system
(`RealpathIn`). That the file is below the working directory stays a premise: the
code cuts off the working directory's length without comparing it. So does that the
working directory is not `/`, whose string already ends with the slash that the
code cuts off behind it.

*The client's.* `WrittenInOrder` counts what was written by `Taken`, the bytes
earlier calls noted and those of the call in progress, and the kernel's next
bytes are the next numbers (`Extend`). `ConnectOutcome` says nothing while the
list is gone through, so `TriedInv` adds that no address in front of `r` could
have been connected to, and `SocketInv` that the one socket open besides the
refused ones is `client_sock`, which makes the socket given out the right one.

The only assumptions are those the modules state (`ASSUME`), and TLC evaluates them
in the runs of those modules. Besides the types of the bounds they are:

- words, documents, names and the tokens of files are finite sets
  (`FiniteAssumption`, `TreeAssumption`, `TokensAssumption`): a file system and
  what is read from it are. A file has at least one token, because `split` turns
  an empty file into one empty token; what an end in the middle of a token leaves
  of it is a token.
- main() is no worker, and nobody is no thread (`MainAssumption`,
  `ThreadsAssumption`).
- CR and LF are no lines, streams consist of tokens, responses have a body
  (`LinesAssumption` and those after it in HttpConnection).
- names, texts and URIs are strings and a request names a URI
  (`StringsAssumption`). A browser encodes the characters that would mean something
  else, a blank as `+` and others by an escape of their code (`FormAssumption`),
  as HTML prescribes for forms; it may encode any other character too, as long as
  its code is one that `decode_URI` knows, 32 to 127.
- documents are named relative to the working directory (`DocsAssumption`), so that
  `./` and a document's name lead to it; other names may lead there, to other files
  or directories, or nowhere (`FilesAssumption`).
- directories and roots are sequences of names, a name is not empty, "." or ".." and
  has no slash; a root is below the working directory (`PathsAssumption`).

Induction over the natural numbers is used as a fact about sets of numbers
(`Induction!AllNumbers`, from the library's theorems on well-founded relations).
So recursive functions are within the prover's reach; `RECURSIVE` operators,
`ENABLED` and liveness are not.

Only model-checked: everything under fairness (`CtorReturns`, `TasksFinish`, `DtorReturns`,
`PoolFairSpec`, `ConnLive`, `Terminates`, `CallsReturn`, `AcceptedServed`,
`ShutsDown`). Every invariant and every action property of the passing runs, and
every refinement without its fairness, is a theorem.

## 6. Where code and comments disagree

Shown by a run:

- `conn_eof`: "Keep reading data until either the connection drops ..."
  (`HttpConnection.cpp:33-35`). The loop ignores what `wrapped_read` returns and
  spins at the end of the stream; the worker is lost.
- `conn_close`: "if the client sends a Connection: close header, then shut down
  the connection" (`HttpServer.cpp:127-129`). The value is compared with
  `"close\r\n"`, which no trimmed value equals.
- `conn_parse`: `parse_request` "returns false if the Request is an invalid
  format" (`HttpConnection.hpp:55-56`). Without a URI it throws, and the process
  ends.
- `conn_read`: `wrapped_read` "On fatal error, returns -1" (`HttpUtils.hpp:108`).
  It builds `string(buffer, -1)` first, which throws.
- `index_count`: `num_words` is "the number of unique words recorded"
  (`WordIndex.hpp:25`). A lookup that misses makes a later record of the word
  uncounted.

Seen while modelling, without a run:

- `HttpServer.hpp:45-47`: the server runs until it is killed; any failing accept
  but EINTR and EAGAIN ends it (`AcceptFails`).
- `HttpRequest.hpp:79`: header values are retained verbatim; they are stored in
  lower case (`HttpConnection.cpp:115`).
- `HttpConnection.hpp:47-49`: `write_response` returns false on an error; it
  returns true always, and a short `write` is not continued.
- `CrawlFileTree.hpp:25-27` has files scanned for ASCII data; all are indexed.
  `CrawlFileTree.cpp:40-46` promises two passes for a consistent order; there is
  one. (`IndexComplete` shows that the index does not depend on the order.)
- `HttpUtils.hpp:118-120`: on failure `connect_to_server` returns false, and the
  caller closes what it got. The sockets whose connect failed are nobody's
  (`HttpUtils.cpp:268`); `ConnectOutcome` says these are all that leak.
- `HttpServer.hpp:28-29`: the server serves files out of `staticfile_dirpath`.
  `base_dir` is passed along and never used; what is opened is whatever the path
  behind `/static` leads to below, and through `..` above, the working directory
  (`HttpServer.cpp:211-216`). For a directory named relative to the working
  directory its documents are found, for one given by an absolute path they are
  not (`DocsAssumption`). `TypeOK` has any of these as `response.file`.
- `FileReader.hpp:28-31`: `read_file` returns false if the file "could not be
  opened", "Otherwise, returns true and also returns the file contents". A read that
  fails is not noticed (`FileReader.cpp:42-48`): it returns true with what was read
  before. So a directory, which can be opened, is served as a 200 with an empty
  body, and a file whose reading fails is indexed by its beginning, the last word
  of which may be cut.
- `CrawlFileTree.hpp:35`: "Returns false on failure to scan the directory". Only a
  failure to open the root makes it false: below it nothing is reported, and a
  `readdir` that fails ends its directory as if there were no more entries
  (`CrawlFileTree.cpp:108`), in the root as well. `IndexComplete` says what is
  indexed then.
- `is_path_safe` cuts the working directory off by its length, without comparing
  it, and one character more (`HttpUtils.cpp:68-70`). If the working directory is
  `/`, whose string is the slash itself, two characters go, and a file within the
  root directory is taken for one outside. A root that ends in a slash contains
  nothing. `PathSafe` is about plain roots and files below a working directory that is
  not `/`, as in its test.
- Links of a results page hold names as they stand (`HttpServer.cpp:332`). A name
  with `%`, `+`, `?`, `#` or a blank, with quotes, `&` or angle brackets, with
  `.` or `..` for a part, or with characters outside ASCII, which browsers encode and
  `decode_URI` does not decode, does not come back. `LinksLeadBack` is stated for
  the others (`Plain`).

## 7. What is not modelled

- `rand_port`, a number for tests, and the port number in general: `sscanf` with
  `%hu` keeps its low 16 bits (`httpd.cpp:108`), and nothing else depends on it.
- `ServerSocketAlly.cpp`: it is not built, and does not compile, because
  `ServerSocket.hpp` has no `sock_family_`.
- The wording of pages, content types, the bytes of a served file, the names and
  addresses `accept_client` fills in: nothing depends on them.
- SIGPIPE is ignored by the program (`httpd.cpp:56`), so a write to a dead
  connection only fails.
- All other files of the repository. The program is about 1,500 lines of C++, and
  every function of it but the above has its place in a module. The other 170,000
  lines are the vendored Catch framework and `test_tree`, a copy of the bash
  sources that the crawler's test reads as text: data to this program, of which
  nothing runs, so that there is nothing about them to state.
- Memory exhaustion, and codes above 127: `decode_URI` leaves them as they are.
- The layout of `std::unordered_map`, hence its iteration order: any order.

## 8. Plan

1. *Model.* The crawl and the serving phase over one WordIndex, instead of
   through `IndexComplete` and `AnswerRight`.
2. *Prove.* The liveness properties are out of the prover's reach. Of safety what is
   left is the composition: that HttpServer over ThreadPool itself, instead of
   TaskPool, keeps its invariants.

The order follows the damage a mistake would do: the pool and the connection
came first because every request goes through them, then the index they share,
the crawl that fills it, the server that ties their lifetimes together, and the
strings.

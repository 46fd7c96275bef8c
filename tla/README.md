# A TLA+ model of the BOS C++ SDK

This directory holds a formal model of the Baidu Object Storage C++ SDK: TLA+
modules translated from its source, configurations that model-check them with
TLC, and proofs that TLAPS checks. Paths below are relative to the repository's
root (`src/bos/client.cpp`, `include/bcesdk/util/lock.h`). `PROJECT.json` says
for every definition which lines it stands for.

## 1. The system

The SDK is a library. A caller builds a `Client`, fills request objects and
calls operations; every operation ends in one of two functions of `ClientImpl`:
send one request, or send a batch. There is no thread in the SDK: the caller's
threads run everything, and libcurl calls back into the SDK from them. What
makes it hard is what happens beside those threads: transfers that advance in
any order, replies that are cut or lost, requests that are repeated, and
multi-request operations whose parts fail one by one.

| Component | State it keeps | Operations | Talks to |
|---|---|---|---|
| Single sender (`src/bos/client_impl.cpp:83-121`) | attempts left, the request's input stream, the response | build, execute, retry, return | libcurl easy interface, response object |
| Batch sender (`client_impl.cpp:123-190`) | `i`, `finish_num`, `retry` of every request | launch loop, main loop, early returns | HttpReactor, response objects |
| HttpReactor (`src/http/http_client.cpp:239-324`) | `_handle_ctx`, `_idle_handles`, the multi handle | execute, perform, wait, destructor | libcurl multi interface |
| HttpResponse (`include/bcesdk/http/http_response.h`, `src/http/http_response.cpp`) | status, headers, output stream, error stream, "status line seen" | write_header, write_body, reset | called back by libcurl |
| BceResponse, JsonResponse (`include/bcesdk/model/bce_response.h`, `src/model/`) | `_status_code`, `_error` | handle_response, set_error, is_ok | HttpResponse |
| Parallel upload (`src/bos/client.cpp:473-527`, helper `:607-658`, `client.h:264-308`) | the cut of the file, the request to complete | init, slice, batch, add_part, complete, abort | batch sender, the service's multipart session |
| Parallel download (`client.cpp:381-471`) | the ranges | head, slice, batch, callbacks | batch sender, one file descriptor |
| Parallel copy (`client.cpp:529-605`) | the ranges, the source's etag | head, slice, batch, complete | batch sender, helper |
| TLSLock (`include/bcesdk/util/lock.h`) | one mutex per reading thread, their list, a master mutex | r_lock, r_unlock, w_lock, w_unlock | callers' threads |
| Streams (`include/bcesdk/common/*_stream.h`) | position, size, descriptor or buffer | read, write, seek, tell | senders, callers |
| Logging (`src/util/util.cpp:41-144`) | level, file, name, limit (process-wide) | set, logging, check_and_rotate | every component |
| ObjectMetaData (`include/bcesdk/bos/model/object_meta_data.h`, `src/bos/model/object_meta_data.cpp`) | texts it owns through pointers, numbers, user metadata | set_by_header, setters, clear, copy_from, move_from | replies, callers |
| curl globals (`http_client.cpp:35-38`, `*_curl_global.h`) | share handle, global init | thread_local_share | senders |
| Request building and signing, header parsing, ACL, string and crypto helpers | none | pure functions on strings | senders |

Interactions that carry the risk:

* the batch loop and HttpReactor share `HttpRequestContext` by pointer; a place
  of a finished request is handed on inside the same turn of the loop;
* libcurl writes into the HttpResponse while the loop holds it, and the loop
  reads a verdict from it afterwards; a retry resets it in between;
* a retry needs every stream back at its start: input, output and error;
* a multipart operation spreads over three kinds of calls and the service keeps
  state between them, so each early return must clean up there.

What makes each component correct is written as the properties below; the
hazards they are aimed at are listed, with their lines, in `PROJECT.json`.

## 2. Modules

A component `X` has its state and actions in a module `X`, properties beside them
or in `XProperties`, TLC's values in `MCX`, and theorems in `XProofs`. Streams,
MetaData and Codec call their specification `StreamSpec`, `MetaSpec` and `TextSpec`,
so that ObjectProofs can extend the first two beside TLSLock, and UtilProofs the
last beside LogFile.

**Sending.** `BceResponse` (operators) is extended by the two senders.

* **BceResponse** - the verdict of a response as operators on a record: what
  `HttpResponse` receives, `reset`, `handle_response` with the JSON chain,
  `set_error`, `is_ok`, and the retry test. A body is `NoBody`, an error code,
  `Garbage`, or the concatenation the error stream makes of two bodies (read as
  the first of them).
* **BatchSend** - the batch sender with HttpReactor. One action per branch:
  `Launch` / `LaunchFails` (first loop), `EnterLoop`, `Deliver(h)` (libcurl ends
  the transfer of any handle, in any order), then one turn of the main loop as
  `Repeat(h)`, `StartNext(h)` or `Drain(h)`, and `Return`. Building a request and
  `curl_multi_add_handle` may fail at each place the code tests them
  (`StartAfter`, `Abandon`); `Destroy` is the reactor's destructor, which runs
  at every return. A context is taken as the caller hands it over (`Contexts`):
  a new response, one that served an earlier call and still has its status line,
  or one an earlier batch reset and never sent, with a request stream at its
  first byte or not; the loop resets nothing before a first transfer.
* **RequestPool** - what a batch promises, in four lines of state: N jobs queue
  for a number of places, in order. `BatchProperties!Pool` is the refinement
  mapping from BatchSend to it: a request's `Stages` is queued until the launch
  loop or a hand-over has taken it, active while a handle has it or its response
  waits to be popped, and then answered; `Verdict` is what the call returned.
* **SendRequest** - the single sender. The batch takes a transfer as one step;
  here it is cut at every callback (pieces of the request's body, interim
  replies, status line, body pieces, completion) and may die between any two,
  because this path reads uploads from the caller's stream and writes downloads
  into one. The request's stream stands where the caller left it while its
  whole length is announced; with a digest the service checks what it got. Each
  reply has a body of its own length: the object may be replaced between two
  attempts. The response's stream is the list of the attempts that wrote each
  piece, with a position that `seek` moves and nothing truncates, over contents
  there were before the call. It is a file or a buffer, which has `room` for the
  whole body or not (then a short write ends the transfer), or a string, which
  grows, and of which a write below its end makes anything (`patched`).

**Operations of many requests.**

* **PartSize** - `calc_part_size` and the int conversions around it, over
  constants for 10 MiB, 1 MiB, 10000 and 2^32.
* **ParallelUpload** - `parallel_upload` with `MultipleUploadHelper` against the
  service's side of a multipart upload. The batch call is taken at the contract
  BatchSend implements: parts are answered in any order, or the call is given up.
  Parts are byte ranges of the file; what the service has stored under a part
  number is the range it was sent.
* **ParallelDownload** - `parallel_download` and `download_file`: HEAD, the cut
  into ranges, transfers that write to one descriptor piece by piece in any
  order, die and start again, and the callbacks. The file maps positions to
  bytes of the object, so a byte in a wrong place is seen. The batch call is
  taken apart here into the transfers' writes, not taken as one step. What
  success_cb is told is read from the reply's Content-Range header as the code
  reads it (`Digits`, `AtDash`, `AtSlash`, `ContentRange`), with the range asked
  for when there is no header (`named`). The start -1, which `download_file`
  refuses for a small object, is left out.
* **ParallelCopy** - `parallel_copy` and `copy_object` beside other clients that
  overwrite or delete the source at any moment (`Overwrite`). A version is its
  place in the source's history; each request reads the version there is when it
  arrives, and a part only the one its if-match names. Every object has an etag
  (for an empty one `copy_request.cpp:23` sends no condition).

**What the senders stand on.**

* **Streams** - the five POSIX streams under any sequence of calls: files and
  buffers that are written or read, strings that are written. A file may begin
  anywhere (`_start_pos`), behind its end too, and someone else may resize it
  while it is read. A write may be short or fail, a read may fail.
  **Sink** and **Source** are what the HTTP side expects of them. A sink has
  bytes, a position and perhaps an end: a write puts a prefix of its piece at the
  position and says how much, and nothing lies behind the end. A source has a
  window of a size that was announced: a read gives what lies at the position
  and never goes past the window. The string stream is outside the refinement:
  below its end it is no sink.
* **LogFile** - `logging` and `check_and_rotate` by threads without a lock. Each
  call of libc is a step: write the line, `ftell`, `time`, `rename`, `freopen`.
  A rename fails because the file is gone (`RenameFails`) or with the file in
  place (`RenameRefused`: a directory that cannot be written).
  Files are numbered as they are made, and names refer to them, so that a line
  in a file without a name, or two files for one log, are states one can see.
* **MetaData** - ObjectMetaData with its strings in memory cells that `new` takes
  from whatever is free (`New`): `set_by_header`,
  `set_content_type` and its like, `clear`, `copy_from`, `move_from`, and the
  destructor, over several objects. The text of the restore header is in a cell
  too, and no function frees, copies or moves it. Two histories: `told`, the one
  reply an object was set from, and `lost`, the cells of restore strings whose
  object was destroyed.
* **Codec**, **Wire** - pure functions on byte strings: base64 and URL encoding
  in Codec; in Wire the URL, the canonical request that is signed, header lines
  as they are made and parsed, and the status line. What libcurl and the wire do
  to a header is `Transported`: a NUL ends it and a line break splits it
  (`AsLine`). The state is a text that
  grows by one byte, so that TLC visits every text up to a length. The code's
  loops over a string are written by place, not by recursion: `base64_decode` by
  the groups and where the first short one ends the text (`Written`), `split` by
  the place of the delimiter that k others precede (`Cut`), `url_encode` by what
  each byte becomes (`Escaped`). Only `url_decode` is a recursive function, since
  an escape decides where the next character begins.
* **TLSLock** - each pthread call that may block is a step. `Restart(t)` is a
  thread that ends while another starts: the key has no destructor, so its mutex
  stays in the list. **RWLock** is the abstract readers-writer lock it
  implements.

**Proofs:** BceResponseProofs, BatchProofs, SendProofs, UploadProofs,
DownloadProofs, CopyProofs, ObjectProofs for TLSLock, Streams and MetaData, and
UtilProofs for LogFile, Codec and Wire.

## 3. Runs

| Run | Instance | Shows |
|---|---|---|
| batch | 3 requests, new, used or dropped by an earlier batch, 2 places, 1 retry, 7 outcomes | handles, counters, retries, streams and verdicts stay right in every order of transfers; an answer is final; the call returns; BatchSend implements RequestPool |
| send_single | 2 retries, 7 replies, bodies of 1 or 3 pieces, a file or buffer with room for 2 or 3 or a string, empty or with 2 pieces, request of 2 pieces from its start or middle, digest or not, new or used response | return value, effect, upload, download and repeats agree; never a success with a part of a body, or with pieces of two attempts in it; the call returns |
| lock | 2 threads, 4 mutexes (two restarts) | unlock by the owner; no standstill; TLSLock implements RWLock |
| upload | sizes 0..14, block sizes -1..6, unit 2, 5 parts, 3 faults | tiling, array and part limits, completion only of whole files, no upload left open |
| upload_succeeds | no fault | it never succeeds (section 6) |
| download | objects, ranges and blocks on both sides of each boundary, 2 faults | ranges tile, each byte goes to its place in any order of writes, what is returned is what happened, and what success_cb is told is in the file |
| download_rest | no fault needed | a range to the end of a big object fails (section 6) |
| copy | 3 versions, 5 sizes, 1 fault | what is completed is one version in full; 0 only for a copy made |
| streams | pieces of 1-2 bytes, NUL or not, 6 bytes, reads of up to 3, any base and window | files and buffers implement Sink and Source; a body appended to a string is whole |
| log | 3 threads of 3 lines, a limit of one line, 2 seconds, 1 failure of freopen, 2 of rename with the file in place | no line goes to a file without a name, one file has the log's name, a file grows by no more than the lines under way and one for each failed rename |
| meta | 2 objects, 2 replies, 2 texts, 1 key, 5 cells | every string has one owner, only restore strings of destroyed objects have none; objects are values, and a caller gets what the reply said |
| wire | every text of up to 5 bytes out of 10 (NUL, LF, CR, blank, percent, slash, colon, a letter, two above 127) | base64 is the bits; the service reads and signs what was sent and signed; headers come back |

A run lists the properties that a reader should see checked. Type correctness is
not among them: a theorem states it for each module with proofs (`TypeCorrect`,
`SendTypes`, `UploadTypes`, `DownloadTypes`, `CopyTypes`, `LogTypes`,
`LockTypes`; for Streams and MetaData it is a part of `StreamInv` and
`MetaInv`, and for the text of Codec and Wire it is `TextTypes`).

Bounds. Three requests on two places are the smallest batch in which a place is
handed on while another is busy and one is left to wait; one retry lets a request
be repeated both before and after the hand-over. Bodies of one and three pieces
let an attempt die at the start, inside and at the end of what an earlier attempt
wrote, and let a shorter body follow a longer one. Two
threads let one write while the other registers, reads, or ends and comes back;
the extra mutexes are the restarts, and what the run checks for two is proved for
any number (section 4). An upload's sizes go past the point where
`calc_part_size` first exceeds the part limit, with an int of 4 bits in place of
32 (`IntMod` 16, `IntMax` 7); MCParallelUpload's block sizes include the
negative ones that the code replaces by its default. Three versions let the
source be written before and between two parts. Six bytes of content leave room
for a gap behind the end, a short write inside a piece, an overwrite that ends
before the old content does, and a file that shrinks under its window or grows
past it. Three threads are enough for one to write, one to rename and one to
reopen at the same time, in the same second or the next. Two objects are enough
for a copy, a copy back and a move over both; five cells hold every string of
both objects but one, or fewer and the restore strings of up to five destroyed
ones (where memory is full, calls that need more are not made). Five bytes make a base64 group, one that is cut by one
and one cut by two, and a percent sign with two hex digits after it. `Faults`
bounds lost and refused messages and failed calls; `attempts` is bounded by the
retries, `Lines`, `MaxTime` and `Refusals` bound what threads log, the clock and
the renames that fail with the file in place.

Deadlock is checked in every run but lock and wire: in lock the constant `Lock`
bounds how many mutexes can be made and threads that restarted have none left; in
wire the text stops growing at `MaxLen`.

Fairness. A sender's own thread runs on (weak fairness of its steps), and
`CURLOPT_TIMEOUT` (`http_client.cpp:143`) ends a transfer that does not move, so
a running transfer ends (weak fairness of `Deliver`, of `Transfer`). Nothing is
assumed of the service. TLSLock assumes that threads run and leave their
critical sections; a pthread mutex is not fair, so only global progress is
claimed, and a writer may starve. The other modules state no fairness: they add
no loop whose end is in doubt to the calls whose return batch and send_single
show.

Every property has a mutant in `PROJECT.json`: a definition of the model with a
plausible bug (a dropped guard, a missing reset, an off-by-one) under which the
run finds the property violated. Mutants stand in front of the definition they
change and are used by nothing else.

## 4. Proofs

Theorems are about every value of the constants, under the assumptions named in
the modules (`BatchAssumption`, `DownloadAssumption`, ...), which TLC evaluates.
In each module the argument is one inductive invariant, a lemma for each action
that keeps it, and the properties as consequences. Why the properties alone are
not inductive is what the extra conjuncts say.

* **BceResponseProofs.** Types of the operators, and `ConcludeVerdict`: the
  response is ok after a transfer exactly when the transfer succeeded. The
  senders' proofs cite these and do not expand the operators.
* **BatchProofs.** `BatchInv` (in BatchProperties). That a verdict belongs to
  the last attempt needs to know that a reply waiting to be popped has left its
  status in the response (`StatusReceived`); that counts are right needs the
  bijection between busy handles and requests in flight (`HandlesConsistent`,
  `Accounting`); that there are never too many handles needs to know that in the
  launch loop every known handle is busy (`Progress`); the bound on attempts
  needs untouched requests to have all their retries (`Budget`). `CleanStart`
  (`RepeatsBeginClean`) is about repeats: only `Repeat` resets a context.
  `BatchIsAPool`
  is the refinement of RequestPool: `BatchInv` turns what the loop counts
  (`next`, busy handles) into each request's stage (`StageByCount`), no more than
  `Limit` are active (`PlacesTaken`), the one started is the first in the queue
  (`NextInTurn`), a repeat keeps its place (`RepeatKeepsPlace`), and `PoolStep`
  joins the branches. `PoolUpToReturning` adds the pool's liveness from `Returns`,
  which TLC checks.
* **SendProofs.** `SendInv` (in SendProperties): what each stage has done to the
  counters (`Stage`: attempts made and left add up), what is known of the reply
  while it comes in (`Receipt`: a reply that says success is of a request that
  was carried out, and the response has its status), and whose pieces lie before
  and behind the stream's position (`Download`). The last carries
  DownloadIsWhole, for bodies of any lengths: the pieces before the position are
  of the current attempt and none behind it is, as long as no piece was put below
  the end of a string; so a longer body of an earlier attempt leaves a tail
  behind the last one's body and nothing within it.
* **UploadProofs.** `UploadInv` (in UploadProperties): the tiling of what is cut
  so far, that only the last part is shorter (`Cursor`), that what the service
  has is what the contexts name (`Uploaded`), and where the upload is open
  (`Working`). `PartsTile` alone is not inductive: that a step cuts the next part
  right needs `part_size = whole` while `off < size`. That the loop over `off`
  fills exactly `part_num` contexts (`ContextsFit`) rests on division lemmas,
  because the one is counted by addition and the other by division. `PartLimit`
  is a lemma about `calc_part_size` alone: the part count is within the limit as
  long as the first count fits an int.
* **DownloadProofs.** `DownloadInv` (in DownloadProperties): which ranges are
  planned (`Planned`), and what has arrived of each since its transfer last
  started (`Arrived`). `EachByteInItsPlace` is inductive beside them, since a
  range's place is its first byte; `FileIsRange` follows at the end, by finding
  for each byte the range it is in (lemma `Covered`, the division again). It
  holds as long as the number of ranges fits an int (`Representable`).
  `ToldIsWritten` joins the two sides of `ProgressIsTrue`: what is told is read
  from a header (`ToldAsSent`), what is in the file was written by the transfer
  (`Arrived`).
* **CopyProofs.** `CopyInv` (in ParallelCopy): what HEAD fixed (`Planned`), the
  cut (`RangesCut`), and that a part the service stored is its context's range of
  the version that was asked about (`PartsStored`), which if-match gives and no
  `Overwrite` can disturb, because versions are only added.
* **UtilProofs, the log.** `LogInv` (in LogFile). The bound on a file's size is not
  inductive: it needs to know who may still write. `Growth` counts them: while
  the file being written has its name, every line past the limit is of a thread
  still on its way to `rename`; after the rename, of one that has not come back
  from it. Failures of freopen add a round of threads each, renames that fail with
  the file in place a line each (`Slack`): while rename keeps failing so, nothing
  bounds the file.
* **ObjectProofs, the lock.** `LockInv`: who holds the master mutex, that a thread's
  mutex is in the list except between its making and its registration, that the
  list has no duplicates, and that a locked mutex is locked by a thread with a
  use for it. Exclusion, ownership of every unlock, and the refinement of RWLock
  follow for any number of threads.
* **ObjectProofs, the streams.** `StreamInv` (in Streams): a buffer's position is
  within it (`Buffered`), and a string's is where the last seek went plus what
  was written since (`PositionKept`). The second is what `StringAppends` lacks to
  be inductive: it says where the bytes lie, and the next write puts more of them
  at the position. The refinements of Sink and Source are then step by step, over
  contents of any length: `OverlayIs`, `Take` and the lemmas on SubSeq say byte by
  byte what a write leaves and a read returns.
* **ObjectProofs, the metadata.** `MetaInv` (in MetaData). `OneOwner` needs that
  an object which does not exist has no pointers (`NothingLeft`), for a constructor
  forgets what it finds. The argument is about any pointers `p`, memory `m` and
  cells `K` of restore strings, owned or lost (`Owned`): deleting the strings of one object (`Freeing`), handing them over
  (`Moving`) and putting new ones into free cells (`Storing`) each keep the owners
  apart and change what one object says; a restore string goes to a cell of `K` or
  a free one (`Restoring`). `copy_from` is the first and the third in turn. `SeesReply` and `StandAlone` are read off the same three lemmas
  (`CallKeeps`).

* **UtilProofs, the texts.** The text grows and nothing else happens to it, so the
  invariant is only that it is made of bytes (`TextTypes`); the theorems
  (`DigestsAreBase64`, `HeadersAreRead`, `RequestsAreSigned`) say that what the
  wire run checks for texts of up to five bytes holds for every text (but for the
  header values each property excludes by name). Where the
  functions are defined by place, so is the argument: the four characters of a
  group give back its three bytes (`GroupDecodes`) and are its bits (`SextetOf`),
  a text between whose delimiters there are no others is cut there (`SplitAt`,
  `SplitThree`, `SplitOnce`). Where something is built up over a text, induction
  is needed, and it is used as a fact about sets: a set of numbers that has 0 and,
  with each number, the next, is all of Nat (`Induction`, from WFMin, which has no
  operator for a parameter). With it are shown that the functions behind
  `FlattenSeq` and `url_decode` exist (`FlattenExists`, `DecodeExists`, the
  latter from the end of the text), where each piece lies in the whole
  (`PieceAt`), and that `url_decode` takes one byte's characters at a time
  (`DecodedByte`), so that it takes back every text (`UrlDecodeEncode`). That a
  URL is cut where it was put together rests on `CodedChars`: no encoded text has
  a character it could be cut at.

Some theorems state results that no run lists on its own (`ParallelismIsBounded`,
`SuccessIsComplete`, `RetriesAreBounded`, `OwnsUpload`, `Exclusion`,
`IdleIsFree`, and type correctness); they say more than the instances could.

The assumptions on the constants are what the code gives: `MetaAssumption` says
that the names of the texts and of the user's keys are different (the latter
begin with `x-bce-meta-`), that a caller sets texts that exist, and that no header
has the value that stands for "none".

Every safety invariant, action property and refinement that a passing run checks
is stated by a theorem. Only model-checked: liveness (both `Returns`, `NeverStuck`,
the last conjunct of RequestPool), which is out of the prover's reach.

## 5. Plan

Done, each with its properties checked: batch sender, response and pool; single
sender; TLSLock; part sizes, parallel upload, download and copy; streams; log
rotation; object metadata; encodings, URLs, signing and header lines. Proved: the
safety properties and refinements of all of these.

Left, in this order:

1. Changing the log's file or limit while threads log.
2. The request classes: the parameters and headers each adds against what its
   operation needs; list results and ACLs as values; the simple operations as
   calls of SendRequest.

## 6. Where the code and its documentation differ

Shown by a run:

* `parallel_upload` cannot complete: the body of the completing request is
  commented out (`complete_multipart_upload_request.h:66`; README.md:214)
  (upload_succeeds). `parallel_copy` ends the same way.
* `parallel_download` from inside a big object with the default size asks for
  ranges past the end and fails (`client.cpp:406`; README.md:211-213)
  (download_rest).

Modelled as the code has it, and not the subject of a run:

* A response that became ok after a retried failure keeps the failure's status
  (`src/model/bce_response.cpp:20`; `bce_response.h:89` says 0 for success). The
  batch call tests that status, so such a success is handled as the failure was:
  BceResponse, BatchSend.
* The batch call returns 0 when requests failed (`client_impl.cpp:189`;
  README.md:207): BatchSend `Return`.
* The error text of a repeated request is appended to the first attempt's, so
  `error()` is the first attempt's (`http_response.h:88`; README.md:163):
  BceResponse `write_body`.
* `parallel_upload` and a big `parallel_download` ignore the start offset of the
  stream they are given (`client.cpp:493`, `:424`; README.md:237-238, 227-228),
  so small and big objects go to different places: ParallelUpload `Slice`,
  DownloadProperties `Place`.
* `fail_cb` gets the range one byte short (`client.cpp:441`): ParallelDownload
  `ReportAll`.
* `get_object` into a string whose first attempt dies after a piece returns 0 with
  a string that is not the object: the repeat writes below the string's end, where
  StringOutputStream takes its piece for a C string and appends the piece's tail
  (`memory_stream.h:125`; README.md:183-184): SendRequest `WriteAt`, where such a
  string is `patched` and `DownloadIsWhole` leaves it out, and Streams
  `StringWrite`.
* A file that was not empty, or whose object was replaced by a shorter one between
  two attempts, keeps the tail of what it had behind the body: `reset` only seeks
  (`http_response.h:84-87`): SendRequest.
* The first transfer of a request in a batch starts as the caller left its context:
  with a used response it fails and costs a retry, as in the single sender
  (`client_impl.cpp:138-150`): BatchSend.
* The test of rename's result is inverted (`util.cpp:124`): after a rename that
  succeeds the log goes on into the renamed file, and the next line, which finds
  nothing to rename, opens the new one. A rename that fails with the file in place
  opens the full file again, which grows line by line as long as that lasts. And a
  file rotated in the same second as another replaces it, with its lines: LogFile.
* `set_by_header` on an object that was used keeps every field the new reply
  does not have; `clear`, `copy_from` and `move_from` leave the restore status.
  Its string is never freed: each object that had one leaks it when it is
  destroyed (`object_meta_data.h:87-89`, `:301`), which `OneOwner` states: MetaData.
* A parameter with blanks around it is signed without and sent with them
  (`auth.cpp:41`, `http_request.cpp:54`); a header value with a NUL is cut off
  there, and one with CR or LF goes out as several lines
  (`http_request.cpp:31-40`): Wire. Names of parameters are sent as they are and
  signed encoded; the SDK's own need no encoding.
* An upload opened by a request whose reply is lost stays open at the service,
  and the repeat opens another (`client.cpp:629`): ParallelUpload `strays`.

Outside the models, met while reading: an ObjectMetaData assigned to itself reads
the strings it has just deleted; `url_decode` reads past the end of a text that
ends inside an escape (`util.cpp:355`); a presigned URL of a credential with an
STS token is signed with `x-bce-security-token`, which the URL does not carry
(`auth.cpp:57`, `client_impl.cpp:57`); a big copy keeps only the basic metadata
of its source (InitMultiUploadRequest), a small one all of it; a block size of
zero divides by zero in `parallel_download` (`client.cpp:412`); after a batch call
that returned early, responses never reached are ok (`client_impl.cpp:182`).

## 7. Not modelled

* Dates, HMAC and digests as functions of their input (OpenSSL and libc), JSON
  layout, log wording, hex and byte units. Where a digest matters (Content-MD5)
  it is equal exactly when the bytes are.
* The simple operations, list results, ACLs and the request classes: each is a
  record with a header or JSON form and one call of the single sender; the
  classes have no state two calls share.
* The curl share (`http_client.cpp:35-38`, `unix_curl_global.h`): a share handle
  is made per thread and used by it alone; what threads share is one list under
  one mutex.
* Who deletes the requests and responses of a batch (`is_own`), memory
  exhaustion, and the progress callback of `MyData`.
* `ENABLE_BNS` needs a naming service that is not in the repository; without it
  `build_http_request` cannot fail for the requests of a multipart operation, so
  ParallelUpload and ParallelCopy have no such return (the senders do, where the
  code tests for it).
* The service is modelled only as the SDK uses it: it may answer anything, lose a
  reply before or after acting, and keeps a multipart session.
* Windows variants of streams and locks, the examples, and the libraries under
  `thirdlib` (curl's headers and three copies of jsoncpp, one with its tests), which
  are most of the repository's C++ and none of its own logic. A share of the
  whole tree therefore says little: the SDK's own code is `src/` and
  `include/bcesdk`, of which the classes that only name fields and build one
  request each are the larger half.

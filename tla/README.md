# Verification of the signed file transfer

TLA+ modules, TLC configurations and TLAPS proofs for the client, the server and
the root CA of this repository: a client gets a certificate from the CA, connects
to the server, and exchanges files with it in fragments that each carry an ECDSA
signature.

Run TLC with `tlc -config <run>.cfg <module>`, the proofs with `tlapm <module>.tla`.
`PROJECT.json` lists the components, the runs, the lines each definition models, the
hazards, the mutants, the findings and the theorems.

## 1. Inventory

| part | state it keeps | operations | what makes it correct |
|---|---|---|---|
| upload: `put_file`, `put_file_test`, `clnt_put` | locals of both ends (`status`, `bytes_left`, `info`, `file_len`, `success`), the file on the server | command, size, then per fragment `Length_Info`, data and signature, verdict | only signed data is stored; what is kept is whole; both ends report the same result; a positive verdict means stored; `put` returns |
| download: `get_file`, `get_file_test`, `clnt_get`, `clnt_get_test` | the same with the ends exchanged, the copy on the client | check, size, fragments, verdict per fragment and a last one | the same, and the stream is clean for the next command |
| signature: `ecdsa_sign`, `ecdsa_verify` | none; reads the private key file at every call | sign, verify | an error is not taken for a success |
| server process: `main`, `handle_clnt` | `clnt_cnt` and its mutex, the descriptor table, a `client_t` for each thread | accept, create a thread, serve, leave | exact count, a thread keeps its descriptors until it closes them, nothing left open, a thread ends after its client |
| root CA: `root_ca.c`, `sign_csr.c` | `serial.txt`, the connection being served, the last command | send certificate, receive a CSR, number and sign, reply | unique serial numbers through restarts, one certificate for a request, the answer belongs to the request |
| enrolment: `clnt_to_ca.c`, `make_csr.c` | the client's key and certificate files | request, CSR, verify, save | what is saved was verified |
| certificate exchange: `send_cert`, `cert_get_pubkey` | certificate files, `pub_key` | each end sends its certificate and reads the other's | neither waits for ever; a refused certificate leaves `pub_key` NULL |
| command loop and `ls`, `mkdir`, `cd`, `pwd` | `command`, `cwd`, the stream | one exchange per command | request and reply stay paired; `cd` goes where the path leads, or stays; the prompt shows `cwd` |
| shared directory | the files of all clients | `O_CREAT\|O_EXCL` names, `remove`, `stat` and `mkdir` | uploads do not mix; a failed one removes only its own file |
| paths: `normalize_path`, `change_dir` | none | normalise, prefix check | no `..` left, never above `/`, prefix check by component |
| local commands, sample file maker | working directory | print, `chdir`, write a sample | — |

How they interact: the client is one process that speaks to the CA or to the server
over TCP. The server has one thread per client; the threads share the process, its
descriptors, `clnt_cnt` and the directory `file`. The CA is sequential. Nothing on the
wire marks where a command starts, so each side relies on having consumed exactly
what the other sent.

What is hard here: `recv` that returns less than was asked for; the verdict of each
fragment ordered against its write and against the next command; values read without
having been written (`status`, `file_len`, `file_size`, `info`); `ecdsa_verify`
returning errors as nonzero values; a client that leaves in the middle (SIGPIPE,
descriptors, the count); a server's process that ends in the middle of a transfer; a CA that stops while it rewrites `serial.txt`. Each is
listed with its line under `hazards`. In the shared directory: names looked for and then
used, a file open while its name changes hands, a process that ends between two system
calls. In a session: replies that must be taken by the `recv` that waits for them, a path
that climbs out of the root, a key left from a connection before.

## 2. Modules

| module | what it is |
|---|---|
| `Signature` | what `ecdsa_sign` leaves and what `ecdsa_verify` returns, for a fragment |
| `Stream` | one TCP connection of a client and its thread: messages in order, hangups, resets, SIGPIPE |
| `Connection` / `ConnectionProofs` | EXTENDS `Stream` with what passes during a transfer and with rests of messages, and lemmas about it |
| `FileTransfer` | abstract: a copy that grows by genuine fragments in order and is then kept whole or removed |
| `Upload` | `put`: EXTENDS `Connection` and `Signature`, implements `FileTransfer` |
| `UploadInvariant` | the inductive invariants of `Upload` |
| `UploadProofs`, `UploadFileProofs` | theorems about `Upload` |
| `Download` | `get` and the `pwd` after it: EXTENDS `Connection` and `Signature`, implements `FileTransfer` |
| `DownloadInvariant` / `DownloadProofs` | the inductive invariants of `Download` and theorems about it |
| `Server` / `ServerProofs` | the server process and theorems about it |
| `RootCA` / `RootCAProofs` | the CA with its clients and theorems about it |
| `RootCAInvariant` | the inductive invariant about requests and their answers |
| `Shelf` | abstract: a directory in which files and directories appear whole, in one step, and stay |
| `Store` / `StoreProofs` | `put`, `get`, `mkdir` and `ls` of several threads on one directory, implements `Shelf`, and theorems about it |
| `Shell` | abstract: one user's `cd` and `mkdir`, with where a path leads when it is read as a whole |
| `Session` / `SessionProofs` | certificates, commands, `exit` and the next connection: EXTENDS `Stream`, implements `Shell`, and theorems about it |
| `MC_*` | instances for TLC |

### From code to state and actions

*Streams.* Each direction is a sequence of messages: a command, an `int`, a
`Length_Info`, a body (data and signature). TCP loses and reorders nothing, and
commands are sent with the full 512 bytes that `recv` asks for, so consecutive messages
are not merged (in `RootCA`, where commands are short, they may be: fault `coalesce`).
A `recv` that comes back early on a body leaves a `Rest`. Only bodies are cut: integers
and `Length_Info` are a few bytes sent at once. Lengths are counted in pieces: a fragment
is one, its signature another.

*Unwritten values.* An `int` that no statement has written may hold any member of `Junk`,
in which TLC is given a negative, a zero and a positive number; the theorems hold for every
set of integers. `file_len` in `clnt_put` and `get_file`, `status` in `put_file`,
`file_size` and `check_status` after a failed `recv`, and `info` after one (the struct of the last
round, or junk) are modelled so. An unwritten `info` is three ints of which none follows from the
others (`JunkInfo`). `check` (`serv_cmd.c:123`) is unwritten only where `success` is 0 already.

*Faults.* Each module names what may go wrong outside the program (`Faults`), and each run
chooses among it. A passing run lists what the program withstands, a violation run one
fault it does not. `"down"` is the end of the server's process, at any step of a transfer: it comes from
outside, because it is other clients' connections that end it (`Server` has the SIGPIPE). What the
client has not read may be lost then; its `recv`s return nothing and keep what their variables held, its
`send`s are lost, or fail, or end it by SIGPIPE (`ClientAtEof`, `ClientSends`).

*Verification.* `Verify` gives -2 without a public key, -1 on an empty signature (what
OpenSSL returns for one that does not parse), 0 or 1 otherwise; two different contents
never share a signature. `Accepts` is the `if` around it: nonzero.

`Upload`: `PutStart`, `PutSize`, `PutFragment`, `PutStatus`, `PutEnd` are `put_file` from
one blocking call to the next, `PutNoMemory` its failed `malloc`; `ServPut`, `ServSize`,
`ServInfo`, `ServBody`, `ServEnd` are `clnt_put`, with `ServNoMemory`, `ServShortBody` and
`ServEmptyBody` for its other ways through the loop. `ServEmptyBody` is the round with an unwritten `info`
whose `total_len` is 0: `recv` of nothing returns the 0 it was asked for, and the bytes that `malloc`'s block
happens to hold are accepted and stored, or refused, or the `memcpy` of an unwritten length ends the process.
`PutBroken` is a last `send` that returns an error.

`ServLeftover` is `handle_clnt` reading as a command what an upload has left in the stream: the rest of a
fragment, or a whole one. What that does depends on the bytes. They may be a command's name, be none, or leave
`cmd` as it was, so that `clnt_put` runs again and takes its size and its `Length_Info` from what follows;
and each command goes on to take bytes of its own and to answer. The thread is then `"astray"`, where
`ServAstray` takes anything from the stream, sends any reply, which `put_file` takes for its verdict, and may end
alone or with its process. The files it makes are no part of the upload that was started: `file` and `saved`
stay what `clnt_put` left for that one. `Paired` is the condition that this has not happened. `Answer` is the whole tail of the loop body:
`success`, `bytes_left`, the `send` and the `break`. `testing` stands for `put_file_test`,
which signs a file and sends another's data.

`Download` is the same with the ends exchanged; `RecvStatus` is the `recv` of a verdict,
which takes four bytes of whatever comes next. `GetCheck`, `GetSize`, `GetInfo` and `PwdReturns` have a branch for
a `recv` that returns nothing, because none of them is checked in the code, and `GetAbandon` for the one that is;
`ServData` has one for a `send` that fails, after which `status` is 0 but the loop goes on to the next verdict.

`Server`: `Accept`, `MainLock`, `MainCount`, `MainCreate` are the accept loop, `Hello`
to `ThreadCount` are `handle_clnt`. `clnt_cnt++` and `--` are a load and a store in
separate steps. `open` is the descriptor table; a descriptor that is closed is `Free` and
may be handed out again at once, the lowest first. `CloseSocket` is the `close` behind the loop, at `"again"` when
`exit` has closed the number already.

`RootCA`: `Accept` to `Reply` are `root_ca.c` and `sign_cert`; `ReadSerial` reads
`serial.txt` and, with the `fopen` of `write_serial`, empties it; `WriteSerial` writes it.
`Die` is the end of the process, by a crash, by SIGPIPE or by `exit(1)` when `accept` has no
descriptor left. `wanted` is the request of which `sign_cert` has accepted the CSR.

`Store`: a step is one system call on the directory, because that is what threads share.
`Create` is one round of the `O_EXCL` loop, `Write` a fragment that has been verified and
written, `PutDone` and `PutFails` the two ends of `clnt_put`'s loop, `Remove` its `remove`; `Get`,
`Stat`, `Read`, `GetEnd` are `clnt_get`, `Mkdir` and `MakeDir` the two halves of `make_dir`, `Ls`,
`LsEntry`, `LsEnd` are `ls`. `Return` clears what a command's locals held. A file is known by
the upload that created it, so an open descriptor stays with the file when the name goes.
`name` is a base and the number of `_1` behind it. `had` is a history variable: what was
saved or a directory when a get or a list began. A `stat` of a name that is gone leaves `obj`
unwritten, an `lstat` leaves `file_info` with the entry before: both as in the code. A get that has
told a size other than that of what it sends goes `"astray"`: what its connection does then
is in `Download`, and nothing more of it is modelled here. `Crash` is the end of the process and
a new start; the directory is all that is left.

`Session`: `cpc` is the client's place (`"main"` between connections, `"hello"` in
`cert_get_pubkey`, `"prompt"` in `clnt_to_serv`, the others waiting in a command), `spc` the thread's.
Certificates are `"good"`, `"refused"` (not signed by the CA) or `"missing"`, chosen when the
connection is made; the client has none when `local_cd` has led it away from `client_key`
(`atKeys`). `cwd` starts at the server's own working directory with `file` behind it (`Homes`), while
`root_dir` is written in `change_dir` (`Root`): they need not agree. `UnderRoot` is the `strncmp`, which
accepts any name that begins with the letters of the root's last one (`Begins`). A line typed
at `cd` is a path behind two letters; `sscanf` leaves `target` unwritten when nothing
follows them, and a target that begins with `/` is put behind `cwd` as any other. `Normalize` is
the loop of `normalize_path`, its stack after each component; `Shell`'s `Leads` says the same of the path as
a whole. `MC_Session` compares the two on all paths of up to six components over two names, `..` and `.`,
and `StackIsRight` proves them equal on every path.
Other clients are `OtherMkdir`; a server's process that ends is `ServerDies` (place `"killed"`).

## 3. Runs

Passing runs:

| run | what may go wrong | what it shows |
|---|---|---|
| `Upload_verdicts` | unreadable keys, refused certificates, failing and short `write`, a killed client, a server's process that ends | types; the two ends report the same; a positive verdict means stored; `put` returns; a killed client's thread ends |
| `Upload_file` | short `recv`, failing `malloc`, failing `write`, a server's process that ends | the disk holds a beginning of the signed file; kept files are whole; `Upload` implements `FileTransfer`, also while the rest of a fragment is read as commands |
| `Download_verdicts` | as `Upload_verdicts` | types; the two ends report the same, the empty file included; the `pwd` after a get receives the directory; both return |
| `Download_file` | short `recv`, failing `malloc`, failing `write`, a killed client | the copy is a beginning of the signed file and whole when reported complete; `Download` implements `FileTransfer` |
| `Server_threads` | `pthread_create` fails, clients leave by `exit` or in the middle | types; the count is exact; ended threads leave nothing open; only `exit`'s second `close` takes another thread's descriptor; a thread ends after its client |
| `Store_shared` | `open` and `mkdir` fail, the process ends anywhere and starts again | types; uploads do not mix; one maker of a directory; gets of saved files are whole; lists are right about what was there; `Store` implements `Shelf`; commands end |
| `Session_commands` | a killed client, a server that ends, missing and refused certificates | types; clean at the prompt; the prompt shows `cwd`; keys are the peer's; `Session` implements `Shell`; the handshake and the commands end |
| `RootCA_serials` | drops, cut CSRs | types; unique serial numbers; a client being served is answered |
| `RootCA_crash` | everything, crashes and a full disk included, from number 7 | once per request; the certificate on its way answers the last request |

Violation runs, each a finding with the comment it contradicts:

| run | what may go wrong | what it shows |
|---|---|---|
| `Upload_nokey` | a refused certificate | unsigned data is stored: `GenuinePrefix` fails |
| `Download_down` | the server's process ends | an empty or partial copy is reported complete: `CompleteIsWhole` fails |
| `RootCA_reuse` | a crash | the serial numbers start again: `UniqueSerials` fails |

The same property may pass in one run and fail in another. `GenuinePrefix` and `GenuineCopy` need the peer's
public key, a readable private key and whole writes; the first besides a client that is not killed before it
has sent the size and a `Length_Info`, the second a server that goes on: an `info` that was never written lets
bytes of the heap into the file. `KeptIsWhole` and `CompleteIsWhole` need the same. `AckedIsStored` needs a
thread that is in step (`Paired`, part of the property); `UniqueSerials` a writable `serial.txt` and a CA that
does not stop while rewriting it; `RequestAnswered` a client with a CSR to send; `CommandReturns` and the handshake a
server's process that goes on. These are the assumptions of the theorems too, and section 5 says which line of
the code makes each of them necessary.

`CHECK_DEADLOCK FALSE` stands where the system really may stop: both ends waiting for
ever after a cut fragment, a server ended by SIGPIPE, all clients of `Server` gone, the last
command of `Store` done.

### Bounds

* `Upload_file` and `Download_file`: all files of up to three fragments over two contents, so that the loop
  is entered with a first, a middle and a last fragment and the contents can differ from
  the test data in any of them. The two `_verdicts` runs, with the liveness properties, take one file of each of
  these lengths in which neighbours differ; `Upload_nokey` files of at most one fragment.
* One transfer per behaviour (a `get` is followed by a `pwd`); a stream left unclean is
  followed into the next command of the server. A thread that is astray does not send again before the
  client has taken what there is.
* `Junk = {-1, 0, 2}`: each branch on an unwritten value is taken.
* `Server`: two clients and three descriptors: the two threads and `main` meet at the counter, one of them has
  a number that the other has closed, and a file and two sockets fill the table. The theorems are about any
  number of either.
* `RootCA`: two clients with two requests each, or one with three; `MaxFds = 2` descriptors
  lost before `accept` fails.

* `Store`: two threads, one base name (`MaxTyped = 0`, `MaxSuffix = 3`: the name grows three times,
  once for each other command and once for an `open` that fails), files of one or two fragments,
  three commands in all (`MaxOps`), shared out in any way: two that race and one that sees what
  they left, or one after another through crashes. Larger numbers are the proofs' part.
* `Session`: any number of commands and connections, for the state is finite. Seven lines:
  nothing, down, up, to a neighbour whose name begins with the root's, out of the root and back, above
  `/`; directories of up to three components (`MaxDepth`), one name for `mkdir`, two homes of
  which one is not under the root.

### Fairness

`StoreFairSpec`: weak fairness of each thread, which the kernel schedules and whose client answers
or leaves. `SessionFairSpec`: weak fairness of the client's own steps and of the thread's. Users, other
clients, failures and crashes owe nothing in either.

`UploadFairSpec` and `DownloadFairSpec`: weak fairness of the client's steps together and of the
thread's steps together, since both are processes the kernel schedules and each has one
thing to do next. The user's actions have none, nor has the end of the server's process. Besides, strong fairness
of the reset: an end that keeps sending to one that has gone gets the answer to the first of its sends sooner or
later, which ends the server (`rst'`) or the client. Without it an `info` that no statement has written could keep
the loop sending for ever. `ServerFairSpec`: weak fairness of `main` and of
each thread, strong fairness of taking the mutex, because a waiter may find it taken again
and again but is given it in the end. Clients owe nothing. `RootCA`'s `FairSpec`: weak fairness
of the CA and of each client that has something to read; users, crashes and restarts owe
nothing.

## 4. Proofs

* `UploadProofs`: `TypeCorrect`; `Acknowledged`, that `AckedIsStored` holds for any files, junk and
  faults: while the two ends are in step (`Paired`), a positive verdict is about the last fragment sent and all
  those sent are stored. It is not inductive: it needs to know that at most one fragment is under
  way, which is what `StopAndWait` says in four parts: the order of the messages in the stream
  (`StreamInOrder`), what the client's and the server's place tell of it (`ClientKnows`,
  `ServerKnows`), and the count of stored against sent fragments (`InStep`). A thread that has gone astray never
  comes back, so the invariant is `Paired => StopAndWait`.
* `UploadFileProofs`: `Genuine`, `Complete` and `Implements` (`GenuinePrefix`, `KeptIsWhole`,
  `ImplementsTransfer`) where no key is missing, no write is short and nobody kills the client (`Trusted`); a server
  that ends, short receives, `malloc` and failing writes are in. They rest on `SignedInOrder`: the body
  under way carries the signature of the fragment read
  last, and `StopAndWait` makes that the one after those on the disk; on `Countdown` (`bytes_left`
  is what is missing), `Together` and `DiskKnows`; and, out of step, on `DiskStays`: what the thread does then
  is no part of this upload. `Upload_nokey` shows that `nokey` cannot be left out, section 5 why
  `shortwrite` and `quit` cannot.
  `Agree`: `VerdictAgrees` under all faults, for ends that are in step when both have returned. Without the
  assumptions `bytes_left` still counts down what is
  missing (`Counted`), whatever it is that is stored, so a client that has its last positive verdict faces a
  server that keeps the file (`Passed`), a client that gave up one that will not (`Failed`): it is in `recv` for
  a body that never comes, or in the error branch. `KeptAtEnd` says that nothing of the upload is left in the
  stream when a file is kept, so no leftover can start it again.
* `DownloadProofs`, from the parts of `DownloadInvariant`: `TypeCorrect` under all faults (`TypeInvariant`: with
  a server that has ended, the messages still on their way are those it had sent in order, `LastWords`);
  `Genuine`, `Complete` and `Implements` (`GenuineCopy`, `CompleteIsWhole`, `ImplementsTransfer`) where no key is
  missing, no write is short and the server's process goes on (`Trusted`). As with an upload, `StopAndWait` places
  every message: which of the answer,
  the size, the `Length_Info` and the body the client takes next and which of them the server has sent
  (`StreamInOrder`, `InStep`), and what the client has said that the server has not heard (`CommandsInOrder`,
  `KeptIsSettled`). Unlike an upload, a killed client needs no exception, for it is the client that keeps the file;
  the server's end does (`Download_down`).
  `Agree` and `PathReceived`, `BothAgree` and `PwdGetsPath`, hold whatever the keys and the disk do, where fragments come
  whole, `malloc` succeeds and the server goes on (`Smooth`): then a download that fails closes as one that succeeds does
  (`ClosesTogether`) and leaves nothing for the next command (`StreamClean`). Section 5 says what a cut fragment
  does. That the two properties hold with a server that ends is checked by `Download_verdicts` only.
* `ServerProofs`: `TypeCorrect`; `CountIsExact` from `CountInvariant` (the holder of the mutex, and
  only it, is between load and store and has loaded the present value); `OnlyExitTakes`, `LostOnlyToExit` for clients
  that leave in any way, from `InHand` and the fact that `accept` and `open` take free numbers only: whoever
  takes a thread's descriptor is in `exit`'s second `close`, or has itself lost its own to one; `NoDescriptorLost`,
  `NothingLeft`, from `Traced`: an entry of the table is the socket or the file of a thread that has it in hand.
* `RootCAProofs`: `TypeCorrect`; `SerialsUnique` under `SafeDisk` (no `nospace`, no `crash`) from
  `NextIsFresh`: outside of the rewrite `serial.txt` holds a number above all those given, and
  during it `serial` does. The other ends of the CA's process (SIGPIPE, `accept`) never fall into
  the rewrite, which is why they need not be excluded.
  `CertifiedOnce` and `AnswerIsRequests`, `OncePerRequest` and `AnswersItsRequest` under all faults, from
  `RequestInvariant`, which follows a request through its stages: its CSR is in the stream once and has no
  certificate (`Streams`), or in the CA's hands and no longer in the stream (`Handled`), or answered, with at
  most one certificate on its way (`OneAnswer`). A command that is run again therefore finds no CSR that already has a certificate.
* `StoreProofs`: for any number of threads, names, fragments and commands, under all faults.
  `StoreInvariant` says that commands have numbers of their own (`Numbered`), that a file has one name and
  was created by a command begun so far (`OneName`), that an upload has its name to itself from
  `create` to `remove` (`Holds`), that a file holds its own upload's fragments and all of them once reported
  (`Filled`), and that what was made stays (`Made`). `TypeCorrect` needs it, because a file is written
  through a descriptor; `UploadsStayApart` and `OneMaker` are parts of it. `DiskStep` sums up what a step
  does to what has been reported: nothing, one file more or one directory more; `Implements` (`Shelf`)
  follows. `GetsWhole` and `ListsComplete` come from `Sights`, what a get or a list under way
  knows of the entries it may count on, which no step of another thread disturbs.
* `SessionProofs`: for any names, directories and lines, under all faults. `Dialogue` says for each place
  of the client what the two streams hold and where the thread is: one request or one reply at a time, a
  list being entries with a 0 behind the last. `PairedAtPrompt`, `PromptIsTrue` and `OwnKeys` follow from
  it. `StackIsRight` says what it computes: for every path the stack ends
  with the names that last in Shell's sense (the model's stack has no limit, the code's has 64 places: section 6). The proof is an induction on the number of components read, by the least
  counterexample (`LeastNat`, from the well-foundedness of `<`). Its hypothesis, `Places`: the stack holds the
  names that last so far, and behind the k-th of them the names outnumber the `..` by exactly those that are above
  it on the stack; so the next `..` takes back the last of them and no other, and at an empty stack none. `Ranks`
  turns the places into Shell's count. `Implements`: with it, each step of a session is one of `Shell`'s or none.

The proofs use the assumptions on the constants that the modules name
(`ConnectionAssumption`, `ServerAssumption`, `RootCAAssumption`, `StoreAssumption`,
`SessionAssumption`) and those in the theorems.

Every invariant and every refinement that a run checks has a theorem. Only model-checked: the liveness
properties (`PutReturns`, `ThreadEnds`, `GetReturns`, `LeaversEnd`, `RequestAnswered`, `CommandsEnd`, `HandshakeEnds`,
`CommandReturns`), which need fairness and `ENABLED` and are beyond TLAPS.

## 5. Limits of the code that the models show

The actions behind these are in the modules as the code has them. No property of a passing
run claims the contrary; where one would, the run or the theorem excludes the fault.

* The empty file: `put_file` leaves `status` unwritten (`clnt_cmd.c:9`), `clnt_put` its
  `file_len` (`serv_cmd.c:146`). What either end reports of a `put` of an empty file is chance;
  `VerdictAgrees` is about files with a first fragment. `put_file_test` sets `status` to 1.
* The size: `recv(&file_size)` is not checked (`serv_cmd.c:71`). A client killed before sending
  it leaves the loop bound unwritten, and an empty file may be kept as complete.
* The `Length_Info`: its `recv` is not checked either (`serv_cmd.c:83`, `clnt_cmd.c:185`). With the first one unwritten,
  `total_len` may be 0 where `file_len` is not: the `recv` of 0 bytes "succeeds", `ecdsa_verify` may take what the
  heap holds for no signature, its -1 counts as accepted, and `file_len` bytes of the heap are written (`serv_cmd.c:116`);
  with a length out of range `memcpy` ends the process, the server's with all its clients. `ThreadEnds` says that
  the loop ends all the same; `Genuine` and `Complete` are about clients that are not killed.
* Short writes: `write` is tested for `-1` only (`serv_cmd.c:123`), so a fragment cut by a full disk
  counts as stored.
* The rest of a fragment is read as a command (`server.c:112`). The bytes may be the name of one, whose answer
  `put_file` takes for its verdict and may tell its user that the upload is done; or leave `command` as it was, so that
  `clnt_put` runs again, on what is left, and stores another file under the free name, or prints "save success" for an empty one.
  What is proved with cut fragments is about the file of the upload that was started and what `clnt_put` printed of that one;
  the verdicts are proved for as long as the two ends are in step (`Paired`).
* The end of the server's process: `put_file` does not notice that `recv(&status)` returned nothing (`clnt_cmd.c:106`);
  it keeps the 1 of the fragment before and may report done what was never stored. `get_file` checks none of its three
  (`clnt_cmd.c:152`, `clnt_cmd.c:168`, `clnt_cmd.c:185`): with `file_size` unwritten and not positive an empty copy is
  complete (run `Download_down`).
* A fragment received in part ends the transfer without a verdict, at the server
  (`serv_cmd.c:104`), where `put_file` then waits for ever, and in `get_file`; a get then leaves each later
  `recv` of the other end one message behind (`serv_cmd.c:237`), or its bytes are taken for the
  directory of the next command (`clnt_cmd.c:415`). `PwdGetsPath` is checked without `shortbody`.
* SIGPIPE is not handled: a second `send` to a client that has gone ends the whole server
  (`serv_cmd.c:196`) or the CA (`root_ca.c:89`). `LeaversEnd` says "unless the process dies". The other clients then have the fault `"down"`.
* A client whose `pthread_create` failed has no thread and is counted for ever (`server.c:78`); `CountExact` counts it, as
  the code does. With a full table `accept` fails and its loop goes on at once (`server.c:52`), again and again until
  a thread has ended: nothing changes, so no property sees it.
* `write_serial` reports nothing (`sign_csr.c:60`): with a full disk the next certificate has the
  same serial number, as after a crash between its `fopen` and its `fclose` (run `RootCA_reuse`).
* `exit` closes the connection twice, in the branch and at the end of the thread (`server.c:121`,
  `server.c:142`): the second `close` may hit a descriptor that another thread has been given since, and that
  thread then serves a third client's connection, or none. `LostOnlyToExit` says that this is the only way in which a
  thread loses what it holds; `LeaversEnd` promises nothing of a thread to which it has happened (`~Owns`).
* A get of a file that is still being uploaded, of a name that is removed and taken again between `open`
  and `stat`, or of a directory (which `open` accepts) tells a size that is not that of what it sends
  (`serv_cmd.c:182-198`). `GetWhole` is about files that were saved when the get began.
* The `O_EXCL` loop goes on whatever the error (`serv_cmd.c:59`): it ends only if `open` succeeds for some
  longer name, and the names grow past the end of `filename`. `nofd` fails for names up to `MaxTyped`, a bound of the model.
* A process that ends during an upload leaves the part of the file under its name
  (`serv_cmd.c:157` is not reached); what was reported saved is not touched by it.
* `send_csr` returns without sending when there is no CSR (`make_csr.c:83`), and `client_to_ca` does not look at what it
  returns (`clnt_to_ca.c:31`): the client waits for the answer and the CA for the length, for ever, and no other client
  is served. The fault `nocsr` has this; `RequestAnswered` is checked without it.
* The CA closes a connection only on `exit`: every client that leaves otherwise costs it a descriptor, and when `accept`
  has none left it exits (`AcceptFails`). Clients that wait behind the one being served are promised nothing.
* Without a certificate at an end `send_cert` sends nothing and the other end waits (`clnt_to_serv.c:11`);
  a client started or led by `local_cd` outside the directory of `client_key` has none. `HandshakeEnds`
  is about connections with a certificate at both ends.
* When the server ends in the middle of a list, `status` keeps the 1 of the name before and the client's loop
  never ends (`clnt_cmd.c:268`). `CommandReturns` says "unless the server's process ends".
* `strncmp` compares letters, not components: a neighbour of the root such as `file2` is accepted
  (`serv_cmd.c:32`), against the idea of a root. No property says that `cwd` stays below the root, for it need not: `ImplementsShell`
  says that `cd` goes exactly where the path leads, if the check as it is (`UnderRoot`) accepts that, and otherwise stays.
* `clnt_to_ca.c:52-55` saves the certificate after verifying it, whatever the result; after a
  failed verification it has been freed.

## 6. Not modelled, and why

* Cryptography and certificates: by their results only. Formats, printing, prompts: no property is
  about them.
* Buffer sizes: `command[5]` in `root_ca.c:12` is shorter than `request_cert`; the model is of a build
  in which the bytes past it are not used for anything else. `normalize_path` has a stack of 64 components
  (`serv_cmd.c:331`) and does not check it; the model is of paths that fit.
* The CA without its key or certificate file: `sign_cert` works on NULL; taken to be there.
* `client_to_ca` is compiled by nothing in `client/makefile`; it is modelled as the code stands.
* Names: one file per transfer in `Upload` and `Download`, where the loop for a free name is a single step;
  the loop itself is in `Store`.
* `Session` takes a certificate as received whole, and `mkdir` as asked for one name in `cwd`; `put` and `get`
  are left to their own modules, which start from a stream as clean as `CleanAtPrompt` says.
* `Store` has no short writes: a fragment cut by a full disk is in `Upload` (`shortwrite`). A failing one ends
  an upload in `PutFails`.
* `Store` is about one directory: the threads' `cwd`s are in `Session`.
* In `Server`, a get sends its size and all its fragments as one `SendData`: what the
  descriptors and the count need. The protocol is in `Download`.
* `local_ls`, `local_pwd`, `local_mkdir` and the sample file maker: no shared state, nothing to go wrong
  between steps. `local_cd` is in `Session`.

## 7. Plan

1. `Genuine` and `Complete` state their assumptions on faults; which of them each lemma uses could be told
   apart further (a missing key at one end only).
2. The steps that lead to the liveness properties, as action properties: a thread that has something to read
   always has a step that brings it nearer to the end of its command.
   `BothAgree` and `PwdGetsPath` with a server that ends, which are so far only checked.
3. The composition of `Session` with the transfers: that a transfer starts from `CleanAtPrompt` and returns to it.

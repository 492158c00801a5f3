# llm-guard in TLA+

llm-guard is a local HTTP proxy between a coding agent and a model API. It
replaces sensitive values in request bodies by placeholder tokens, remembers
which token stands for which value, and puts the values back into responses. It
runs as a background daemon, optionally with a llama-server child process for a
second, model-based detection pass.

This directory holds the verification development kept beside the code: the
modules below model it, TLC checks them on small instances, TLAPS proves the
main results for every value of the constants. `PROJECT.json` maps every
definition to the lines it models.

## Inventory

| Part | Code | State | Operations | Modelled |
|---|---|---|---|---|
| Detection cache | `internal/redact/cache.go` | map of results, recency list, mutex | `Get`, `Put` | `DetectionCache`, `LRU` |
| Mapping store | `internal/redact/mapping.go` | map hash -> value, RW mutex | `PlaceholderFor`, `Lookup` | `Redaction`, `Redactor` |
| Redactor | `internal/redact/redact.go`, `testcontext.go` | locals of each request | `redactBody`, `prefetchLLMResults`, `walk`, `redactString` | `Redactor`, `Splice` (partly) |
| LLM detector | `internal/llamacpp/detector.go` | none | `DetectWithContext`, `DetectBatchWithContext` | `Redaction` (partly) |
| Regex detectors | `internal/redact/detectors/regex.go` | compiled patterns and their triggers | `Detect` | `RegexDetector` (partly); a constant in `Redactor` |
| Response restoring | `internal/redact/restore.go`, `streamsafe.go` | none | `Restore`, `RestoreSSEEvent`, `restoreSSE`, `SafeCutPoint` | `RestoringWriter`, `SSERestoringWriter` (partly) |
| Streaming writers | `internal/proxy/stream.go`, `stream_sse.go` | bytes held back | `Write`, `Close` | `Writer` and the same |
| Proxy handler | `internal/proxy/proxy.go` | none between requests | `ServeHTTP` | `Redactor`, `ProxyResponse` (partly) |
| Daemon management | `internal/daemon/` | pidfile, process table, listen address | `Write`, `Read`, `Remove`, `StopOrFind`, `StopOrFindAndWait`, `AddrInUse`, `WaitForListen` | `Daemon` (partly) |
| Commands | `cmd/llmguard/main.go` | none | `start`, `stop`, `restart`, `status` | `Daemon` (partly) |
| llama-server | `internal/llamacpp/server.go` | a child process | `StartServer`, `Stop` | `Daemon` |
| Configuration | `internal/config/config.go` | `config.yaml` | `Load`, `Save`, `Exists`, `Default` | `Setup` |
| Model download | `internal/llamacpp/download.go`, `models pull` in `main.go` | server files per release, the model, `.tmp` | `FetchRelease`, `DownloadServerBinary`, `DownloadModel` | `Setup` |
| Installer | `internal/install/` | saved agents, shell profile, Claude Code's settings | `Run`, `EnvExports` | `ShellProfile`, `Setup` (partly) |
| Guard note, display, install script | the rest | none | | no, see the end |

How they interact. Every HTTP request is a goroutine in `ServeHTTP`. It calls
`RedactForProxy`, which shares the mapping store and the detection cache with all
other requests; the LLM detector calls the llama-server over HTTP under a budget
for the request and a deadline for the call. The redacted body goes upstream; the
response comes back through one of two streaming writers or as a whole. The
daemon process, the commands in other terminals and the llama-server share only
the operating system: the pidfile, the listen address, signals. `install`, `init`
and `models pull` share the configuration and the downloaded files, which nothing
locks; the daemon reads them when it starts.

What is hard. Check-then-act on the store across two locks; a cache filled long
after it was consulted; LLM calls that fail, expire or answer for part of a
batch; streams cut at any byte; connections and upstreams that break off;
pidfile, address and process table read and written by several processes with no
lock; timeouts of one process that race the timeouts of another; one `.tmp` for
all downloads; a configuration saved minutes after it was read; files of the user's
rewritten in place; detectors whose matches overlap.

What makes each part correct:

- cache: list and map never drift apart, and it is an LRU;
- store and redactor: nothing leaves the process before it can be restored; what
  leaves is the redaction of that field, with the answers for that field; a
  mapping is never lost or changed; every request is forwarded in the end;
- response path: the agent receives what restoring the whole response would give,
  however it is cut up, and no event waits for the next;
- overlapping matches: the result restores to the input and no match is left as it
  was;
- setup: what the configuration names is there and complete; no command undoes
  another's change, or a line the user wrote, without an overlap, a failed write or
  a crash;
- daemon: `stop` finds what runs; `restart` does not run two daemons; no exit
  leaves a llama-server behind; a stopped daemon ends.

## Modules

`LRU` - the abstract cache: entries with ages 0, 1, 2, ...; a use makes a key the
youngest, a new key makes the one whose age would reach the capacity go.

`DetectionCache` - `entries` and `order` as in the code. `Get` and `Put` are one
step each, because each holds the mutex throughout. `Put` is split into its three
cases. Size 0 is the nil cache of `NewDetectionCache`. `ImplementsLRU` refines
`LRU`, with a key's age read off its position in `order`.

`Redaction` - the data. A text is a sequence of segments, sensitive values and
plain ones; masking replaces values by hashes, restoring replaces known hashes by
values. Hashing, the detectors' matches and the category filter are constants.
`Verified` is the hallucination guard of the LLM detector, `Answers` what a batch
call returns. `HashInjective` is *not* assumed; see below.

`Redactor` - any number of concurrent requests. One step per point where another
goroutine can come between:

| Action | Code |
|---|---|
| `Receive`, `ReceiveRaw` | `redactBody` up to the prefetch; a body that is not JSON |
| `BudgetExpires` | the context of `redactBody` |
| `PrefetchAnswered`, `PrefetchFailed` | one call of `prefetchLLMResults` returns |
| `CacheHit`, `CacheMiss` | `redactString`, lines 310-315 |
| `DetectWithoutLLM`, `DetectPrefetched`, `DetectAnswered`, `DetectFailed` | lines 317-342 |
| `TokenKnown`, `TokenUnknown` / `RecordValue` | `PlaceholderFor` under the read lock / under the write lock |
| `CacheResult` | `redactString`, lines 343-375 |
| `Forward`, `Respond` | `ServeHTTP` sends the body on; its end |

The cache is an `INSTANCE` of `DetectionCache`, so its eviction runs inside. Two
history variables serve properties only: `missed` (texts for which a call of this
request failed) and `unanswered` (of any request, ever).

`Splice` - what `redactString` does with the matches of one string, as intervals of
its bytes that nest, touch, coincide, overlap or are empty. `Init` is the filter for
test data, each `Skip` or `Replace` a round of the loop in the order of the sort,
`Finish` the rest of the string. `Redaction` takes matches for whole segments;
`Splice` is where they are not.

`RegexDetector` - `Detect`: a text is a set of values, each known by the triggers it
contains for sure; a pattern runs if one of its triggers is in any of them. The
tables of patterns and triggers are those of the code; a literal may hold the trigger
of another pattern (`TriggersIn`). Custom patterns are given by their runs of letters
and digits, as `extractTriggers` cuts them.

`RestoredStream` - the abstract response: what the agent has is always a beginning
of the restored whole, and all of it when the response is closed.

`Writer` - what the two streaming writers share: the bytes held back, the bytes the
agent has, and what a write can come to (`Sends`, `Breaks`, `Ends`).

`RestoringWriter`, `SSERestoringWriter` - the two writers over symbolic bytes, written
as functions of positions in the stream rather than as recursive operators, so that
they can be proved about. The raw one keeps what the cut point depends on: the opening and the closing bracket
share their first byte. The SSE one keeps line feeds, carriage returns, `data:`
lines, JSON bounds, tokens and halves of tokens, and tells a restored value with
JSON escaping (`Vq`) from one without (`V`).

`ProxyResponse` - the response half of `ServeHTTP`: chooses the writer, copies
chunks of any size, closes; the agent's connection may break in any write and the
upstream may end anywhere. `ImplementsRestoredStream` refines `RestoredStream`.
The bytes are a constant (`Symbol`) and so are the bodies; the hashes that can be
restored (`KnownHash`) do not change during a response. The raw branch is modelled as written, although `net/http` takes the
`Transfer-Encoding` header away and the default transport never reaches it.

`Daemon` - processes in `runForeground` (`phase`), their llama-servers (`model`),
the pidfile, and one command per terminal (`cmd`, with `at` for its next call).
Every read, check, signal and write of a command is a step.

| Action | Code |
|---|---|
| `StartForeground`, `Spawn` (`Begin`) | `llmguard start`; `cmd.Start` of `startDetached`; `startLLMFallback` |
| `Healthy`, `Unhealthy`, `KillServer`, `ServerStopped`, `ServerExits` | `waitHealthy`, `Server.Stop`, the child's own end |
| `Listen`, `ListenFails`, `Record`, `RecordFails`, `Notify`, `ServeFails`, `Close`, `RemoveOwn` | `runForeground` from line 478, in order, with its defers; `ListenFails` is any of its returns up to line 500, for an address in use or another reason |
| `Crash`, `Interrupt` | a kill, a ^C, at any point |
| `ReadPidfile`, `FindListener`, `Guard`, `Check`, `Signal`, `RemovePidfile`, `OldIsGone`, `WaitTimesOut` | `daemon.Read`, `FindListenerPID`, `IsRunning`, `stopPID`, the waiting loop |
| `RefuseRunning`, `Probe`, `SomeoneListens`, `AwaitTimesOut` | `startDetached` |

`ShellProfile` - pure functions: `WriteShellProfile` over sequences of lines' parts
(newlines, the two markers, the two exports, the pieces `Words` of the user's text),
`MergeJSONEnv` over
the cases `encoding/json` tells apart, `EnvExports`. `Mine`, `Sourced`, `Whole` and
`Tidy` are the vocabulary of the properties.

`Setup` - one command per terminal (`job`), `config.yaml`, the saved agents, the
profile, the settings, the files of each release, the model and its `.tmp`.

| Action | Code |
|---|---|
| `Install`, `InitConfig`, `Pull` | `install.Run` to line 76, `initCmd`, `modelsPullCmd` to the loaded configuration |
| `Truncate`, `Save`, `SaveFails` | `config.Save`: `os.WriteFile` truncates, then writes, all or a part (`Partly`) |
| `SaveAgents`, `WriteProfile`, `ProfileFails` | `saveAgents`, `writeShellProfile`; a failed write is a warning and leaves a beginning |
| `MergeSettings`, `SettingsFail`, `LeaveSettings`, `Panic` | `configureAgentSettings`, `mergeJSONEnv` |
| `CutShort`, `Dies` | an end while the agents, the profile or the settings are written; an end anywhere else |
| `Release`, `Extract`, `Extracted` | `FetchRelease`, `extractTarGz` and `extractZip`, file by file |
| `FindModel`, `OpenTmp`, `Copied`, `DownloadFails`, `Rename`, `RenameFails` | `DownloadModel`, `downloadToFile` |
| `Answer` | the question of `models pull` and the paths it sets |

A file knows whether it is complete and who opened it last; a download knows
whether what it has open is still called `.tmp`, has become the model, or is gone
(`fd`), as a rename or a removal by another pull decides. A configuration that was
half written may load with a part of its values (`cut`) or not at all (`Broken`). The
history variables `merged`, `lost`, `torn`, `overlap`, `cut` and `last` serve
properties only.

Operators marked *slip* are what a plausible mistake would have written in place of
the definition below them. They are used by no specification; the checks put each
in the place of the definition and expect the property it endangers to fail.

## Runs

| Run | Instance | Checks |
|---|---|---|
| `cache` | 4 keys, 2 results, room for 3 (249 states) | list and map agree; refinement of `LRU` |
| `redactor` | 2 requests; bodies of two fields and a raw body, one text labelled as test data; batches of 2; 1 cache entry (1.4 million) | tokens recorded before use, restorable, own redaction, stable mappings, each text asked about once |
| `redactor_live` | 2 requests with `skip_if_regex_matched` and no cache, fair (25,000) | every request is forwarded |
| `response` | raw streams of up to 3 pieces, SSE streams of two events and a tail, plain bodies (59,000) | refinement of `RestoredStream`; no whole token and no complete event waits |
| `daemon` | 2 processes, 2 terminals (2.0 million) | `stop`, `restart` and exits |
| `daemon_live` | 2 processes, 1 terminal, fair (45,000) | a stopped daemon ends |
| `splice` | a string of 4 bytes, every set of up to 3 matches in 2 categories (39,000) | the result restores; the longest wins; no match untouched |
| `setup` | 2 terminals, 2 releases; install, init and pull together, and three pulls; two installs over every profile of up to three parts and longer ones with a block, one over every profile of four and all kinds of settings; `--upstream` left out or `openai` (1.8 million) | files named are there and complete; changes add up; the user's lines stay; install takes effect and repeats without effect |

Why the bounds are enough to be interesting. Four keys in a cache of three reach
every order of use and every eviction. Two requests with a shared value reach both
orders of the two locks of `PlaceholderFor`, a hit on the other request's result
and an eviction between a miss and its `Put`; the values of the instance include
one only the LLM finds, one both may find, one the LLM makes up and one that is
exempt in test data. Bodies of two fields fill a batch or leave one incomplete.
Three pieces are a token between two fragments of tokens. Two processes are the
daemon that goes and the one that comes; two terminals are a command that races
another. Three intervals over four bytes are a match that overlaps one and touches
another. Two pulls can overlap in every file they write, and the third finds what
they left; the profiles are all of up to four parts, and longer ones around a block
of an earlier install, whole, damaged or twice, each of which a failed write may leave
cut off between two parts. `MaxProcs` bounds the daemons ever
started, `left` the commands; everything else the code bounds itself. Responses end,
strings are spliced and commands run out, so `response`, `splice` and `setup` do not
check for deadlock; all others do.

Four runs expect a violation; each is a disagreement between the code and what a
document or comment says of it:

- `redactor_degraded`: a redaction made while the LLM was unreachable is cached and
  served later (README: skipped "for the rest of that request").
- `response_split_token`: a token the model streams in two deltas is never restored
  (README: tokens "are swapped back").
- `daemon_slow_model`: `start --detach` kills its child after 5 seconds, but
  loading a model may take 60 (`startLLMFallback` "is strictly best-effort").
- `regex_prefilter`: triggers "must appear for a pattern to possibly match", but a
  social security number with spaces has no `-`, an American telephone number no `(`,
  and the letters inside a class are taken for literals of a custom pattern.

Some behaviours worth knowing are in the models without a run of their own. `status`
can remove the pidfile of a daemon that has just written it, and a daemon that ends
the one of its successor; event streams with CRLF line ends wait in the buffer until
they end. The raw writer holds back more than "the minimum number of bytes needed"
(`stream.go:10-13`): behind an opening bracket everything waits for the next whole
token or the end of the stream, even where no token can begin there, because
`safePrefixLen` looks no further than the bracket. In `Setup`: two pulls that overlap
can leave half a model under its final name, although "a partial download never looks
like a complete model" (`download.go:122-124`); `mergeJSONEnv` makes an empty string of
every variable that is a number or a boolean, because it ignores an error when it reads
`env` into a map of strings (`agentsettings.go:50-53`); an extraction cut short leaves
a server that every later pull takes for present, a pull undoes what was saved during its download, a configuration
half written loads with a part of its values or stops every command, and a damaged
block in the profile makes the next install but one remove the user's lines in
between. The properties of `Setup` name exactly these exceptions (`overlap`, `cut`,
`lost`, `torn`, `Whole`, a variable that is no string): nothing else breaks the
promise. `cut` names single files of a release: those a pull left out that ended after
it had begun to extract, until one extracts them again.

## Fairness

`Redactor!FairSpec` asks for weak fairness of each request's own steps: the Go
scheduler runs runnable goroutines, and every LLM call ends, because
`DetectWithContext` and `DetectBatchWithContext` put a deadline on it. The end of
a budget, new requests and upstream responses are not fair.

`Daemon!FairSpec` asks for weak fairness of each process's steps in
`runForeground`: the operating system runs it, the health check has a timeout,
and SIGKILL ends a llama-server. Commands, crashes and signals are not fair: nobody
has to stop a daemon.

## Proofs

`DetectionCacheProofs`, `RedactorProofs`, `RestoringProofs`, `ProxyResponseProofs`,
`DaemonProofs`, `SpliceProofs` and `SetupProofs` prove, with no bound on any constant
(`SequenceFacts` holds the lemmas about sequences that three of them share):

| Theorem | Result |
|---|---|
| `CacheOrderTheorem`, `CacheRefinement` | `OrderMatchesEntries`, `ImplementsLRU` |
| `TypeTheorem`, `TokensTheorem`, `RedactionTheorem`, `AskedOnceTheorem` | `TypeOK`, `TokensAreRecorded`, `OutputIsItsRedaction`, `EachTextAskedOnce` |
| `RestoreTheorem`, `StableTheorem` | `Restorable`, `MappingStable`, if `HashInjective` |
| `NoTokenIsCut` | where the raw writer cuts, no token of the stream is cut, and what it holds back has no whole token |
| `EventByEventIsAsOne`, `DrainedTakesEvents` | restoring event by event is restoring all lines; `Write` takes whole lines and leaves no complete event |
| `Invariance`, `StreamedIsRestored` | `Inv` below; `ImplementsRestoredStream` |
| `TokensGoOut`, `EventsGoOut` | `NoWholeTokenWaits`, `NoCompleteEventWaits` |
| `TypeTheorem`, `StopTheorem`, `RestartTheorem`, `ExitTheorem` (daemon) | `TypeOK`, `StopFindsServer`, `RestartWaitsForOld`, `ExitStopsModelServer` |
| `SpliceTypes`, `SpliceRestores`, `LongestWins`, `AllTouched` | `TypeOK`, `ResultRestores`, `LongestIsReplaced`, `NoMatchUntouched` |
| `SetupTypes`, `PulledModelComplete`, `ConfiguredFilesAreThere`, `ServerWhole`, `ChangesAddUp` | `TypeOK`, `ModelCompleteUnlessOverlap`, `ConfiguredFilesExist`, `ServerWholeUnlessCut`, `EveryChangeKept` |
| `InstallDone`, `UsersTextKept`, `ReinstallIsNoChange` | `InstallTakesEffect`, `UsersOwnKept`, `ReinstallChangesNothing` |

They rest on the named assumptions of the modules: sizes are natural numbers, the
constant functions have the types their comments give, hashes are no segments.
`HashInjective` is a hypothesis of the two theorems that need it. `hashValue` keeps
32 bits, so it can fail, and then both properties do: the second value overwrites
the first. That no other result needs it is part of what the proofs show.

The cache. `CacheInv`, the type and the agreement of list and map, is inductive. It
gives every cached key one place in the list, so the age the refinement mapping reads
off the place `i` is `Len(order) - i` (`Places`). A hit moves the keys behind the one
used forward (`UseAges`), a new key makes all that stay one use older (`NewAges`), and
the key cut off the front is the one whose age would reach the capacity.

The redactor's invariant. `TokensAreRecorded` and `OutputIsItsRedaction` are not
inductive: a request may hand on a cached entry, an entry is made from a job, a job
from an answer. So the invariant also says that every cached entry is a redaction
of its key (`CacheSound`), that a prefetched answer is the whole answer or an empty
one for a text marked as unanswered (`AnswersSound`), that a job has found what one
of the two redactions masks and that the values already passed are in the store
(`JobSound`), and that a hash is stored for a value that has it (`StoreSound`). The
store only grows, which carries all of it over the steps of other requests.
`EachTextAskedOnce` has an invariant of its own (`AskedInv`): every text a request may
still ask about is in the prefetch, or has an answer, or its call has failed, unless
the body is a raw one, of a single field.

The response path. `Inv` says that there is a place `c` in the body such that the
agent has the restored beginning of the body up to `c`, the writer holds exactly what
was read beyond `c`, and no token (of a raw stream) or line (of an event stream) spans
`c`. The last part makes it inductive: only with it is restoring the two halves
separately the same as restoring the whole, however the body goes on. For the raw
writer that is a fact about the cut point: an opening bracket behind which no closing
one has come is never passed; what it leaves has no whole token (`Held`). For the event writer it is that every separator ends a
line. A broken connection leaves a beginning of the restored body, and a closed one all
of it, so each step is a step of `RestoredStream` or none. This is about the restoring
`restore.go` does; that it misses a token split over two events is the violation of
`response_split_token`.

`SequenceFacts` replaces what the library's induction theorems cannot be used for: it
has induction and functions by recursion over an interval in terms of sets, from the
well-foundedness of the numbers, and with them what flattening sequences does at a cut
and where the first and the last occurrence of a value is.

The daemon's invariant. `StopFindsServer` needs that while the first listener
listens, whatever pid `stop` found by its listener is that process, hence that only
one process listens at a time (`OneListener`), that pids written down belong to
started processes (`PidsSound`) and that a process which has stopped listening
never listens again (`Advances`). `RestartWaitsForOld` needs that the pid a
`restart` found is gone at each later call (`RestartSoundAt`), which every other
process's step preserves because an ended process stays ended.

The invariant of the loop in `Splice`. At each round the pieces tile the string up to
`last` (`TiledTo`), every match visited is replaced or begins inside one that is, and
no match visited begins behind `last`; the sort makes the next match the foremost of
the rest, so with that `last` never passes a match that is still to be replaced.

The invariants of `Setup`. For the model: while no download overlapped, `.tmp` has at
most one writer, and who is about to rename finds it complete or gone
(`DownloadInv`). For the paths: a command that carries paths in its loaded
configuration saw them backed by files, and files, once there, stay, as long as no
configuration was left half written (`PathsInv`). For the server: a file that is not
complete is being written by the command that opened it last, one that is not there is
still to be extracted by a command that has opened another, or it is in `cut`
(`WholeInv`). For the changes: while nothing is lost, a command
whose copy of the configuration is fresh holds what the file holds, plus its own
change (`OpInv`, `ChangeInv`).

The profile. Whatever the profile was before, as long as it is `Whole`, writing it
leaves something before that contains no begin marker, the block, and something behind
that does not begin with a newline (`Around`); writing such a profile again replaces
the block and nothing else (`Rewritten`). What is the user's and what is exported are
then those of the three parts together. `Whole` and `Tidy` are the hypotheses of the
properties themselves. `EffectInv` carries this to the end of an install: at most one
runs, what it has saved and written so far agrees with its answers, and no other
command touches either.

Every safety invariant and action property of the passing runs is thus a theorem.
Liveness (`EveryRequestForwarded`, `StoppedDaemonExits`) is out of reach of the prover
and only model-checked, as are the four runs that expect a violation.

## Abstractions

- Matches are whole segments in `Redactor`; `Splice` treats overlaps. A body's fields form a set, so a
  string that occurs twice in a body is one field; the second occurrence would be a
  cache hit or a recomputation from the same prefetched answers.
- A body is one JSON value or none. Of a body with more behind its first value
  `redactBody` passes the rest on unscanned when no string of the value has changed, and
  drops it otherwise (`redact.go:98-122`); `Redactor` has no such body.
- The category list that travels with a redaction, the guard note, protocol keys
  and the JSON encoding are left out of `Redactor`.
- Goroutines of a prefetch may return in any order; the concurrency limit only
  removes orders. The LLM's answer for a text is fixed; that it fails is not.
- In a failed write any beginning of the bytes may have gone out, of the event or the
  cut whose write it was. What `Close` then tries to write reaches nobody: the
  connection is broken.
- In `Daemon` the returns of `runForeground` before `buildRedactor` are left out: no
  llama-server runs and no shared state has changed. Pids are never reused and no foreign process listens or is named by
  the pidfile. The pidfile is written in one step. `lsof` is there and reports the
  daemon, not a probe that holds the address for a moment. Timeouts fire at any
  time. `SIGTERM` before `signal.Notify` ends the process without its defers; a panic is
  a kill. The
  Windows variants, `restart --detach=false` and `StopIfRunning`, which has no
  caller, are left out.

- In `Setup` one install runs at a time, since it asks questions. The listen address
  is constant. A text that is written in part is cut between two of its pieces; of
  `config.yaml` a part of the fields may be left, a value may be cut off, or nothing
  may load. Errors of creating directories and of opening a file are those of writing
  it. The
  two looks for the model (`models pull` and `DownloadModel`) are one. The profile can
  be read whenever it exists. The check for a supported platform and the restart at
  the end of `install` are left out.
- A variable in the settings exists only inside an `env` object (`Settings`).
- In `RegexDetector` what an expression matches is a table of the ways a match is
  written; the check digit of a card is a choice.

## Plan

Done: the cache, the redactor, the response path, the daemon, overlapping matches,
the setup commands, the pre-filter of the regex detector, and the proofs above. Left,
in this order:

1. Pid reuse and foreign listeners in `Daemon`: what `stop` may signal.
2. How JSON numbers are encoded again on the way back.

## Not modelled

The guard note is a stateless edit of the system field. `display.go` and the test
command only print. Prompts, terminals, notes and the install script are input and
output. What regular expressions match, the prompts and grammars of the LLM and the
checksums of the validators are data the properties do not tell apart. Headers, URL
joining and the request log of `proxy.go` keep no state.

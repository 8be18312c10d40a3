# A formal model of loopai-mcp

TLA+ modules that model the launcher and the backend of loopai-mcp, TLC
configurations that check them on small instances, and TLAPS proofs of the
most important safety properties for every instance.  `PROJECT.json` is the
index: components, runs, the source lines behind each definition, findings,
hazards and theorems.

## 1. The system and its parts

`loopai` (the launcher) runs a coding client inside a PTY and connects to
`loopai-backend` over a Unix socket.  It streams the client's output to the
backend and reports when the client has been silent for a while.  On such an
idle event the backend runs build, lint and test, and sends one prompt, which
the launcher types into the client's terminal.

| Part | State | Operations | Talks to |
|---|---|---|---|
| Connection (`internal/proto`) | two byte streams, two ends | Connect, Send (context check, then a write that may block), Receive, Close | launcher, handler |
| Idle detector (`launcher/idle.go`) | running flag, one-shot timer | Start, Reset, Stop, fire | called by main and the output pipe; its callback sends an idle frame |
| Pipes (`launcher/stream.go`) | none of their own | PTY to backend, backend to PTY | PTY, connection, idle detector |
| Launcher (`cmd/loopai/main.go`) | context, closed flag, error channel | start, wait for both pipes, shutdown, exit; a signal goroutine | all of the above |
| PTY process (`launcher/pty.go`) | child, exit code, done channel | Spawn, Read, Write, Signal, Wait, Close; a wait goroutine and a signal forwarder | client |
| Handler (`backend/loop.go`) | its gate | receive loop | connection, gate |
| Gate (`backend/gate.go`), tools (`runner.go`), prompts (`prompt.go`) | running flag, time of the last run | HandleEnforcement | tools, template files, connection |
| Server (`backend/server.go`) | listener, WaitGroup | Run, Stop | handlers, signal goroutine of main |
| PID file (`cmd/loopai-backend/pid.go`) | two files, the socket path | check and write, stop command | other backend processes |
| Stdin filter (`cmd/loopai/filter_csi.go`) | parser state, bytes held back | one byte in, some bytes out | terminal, PTY |
| Output buffer (`backend/output.go`, `ansi.go`, `phase.go`) | text, phase, overflow flag | Write, Reset, Analyze | its tests only |
| Capture tool (`cmd/loopai-capture`) | a slice shared by two readers | run, collect, kill after a duration, write a file | a client |

What is hard here: four goroutines of the launcher send over one connection;
timers expire concurrently with Reset and Stop; the handler neither reads nor
looks at its context while tools run or while a write blocks; every buffer
between client and backend is bounded; processes crash, leave files behind and
are started concurrently; everything ends by an intricate sequence in which one
missing wakeup blocks a process for ever.  The list of hazards, with the line
where each one bites and the properties aimed at it, is in `PROJECT.json`.

## 2. Modules

| Module | Models | Remarks |
|---|---|---|
| `Wire` | the connection | frames are records of kind, "payload decodes" and text |
| `IdleDetector` | `IdleDetector` and the runtime's timer | actions constrain the detector only, users conjoin them |
| `IdleHarness` | the detector under arbitrary callers | histories: armings and admitted calls |
| `Gate` | `HandleEnforcement`, `RunAll`, `Render` | one program counter per caller |
| `GateHarness`, `MCGate` | a gate with several callers | history: time since a tool last ended |
| `Handler` | `HandleLauncher` over a `Gate` | the gate's only caller |
| `EnforcementLoop` | abstract: one prompt per idle event | refined by `HandlerHarness` and `Session` |
| `HandlerHarness` | the handler against an arbitrary launcher | |
| `Launcher` | `main`, both pipes, idle callback, signal goroutine, client and PTY | |
| `LauncherHarness`, `MCLauncher` | the launcher against an arbitrary backend | |
| `Session` | launcher and handler composed over the wire | |
| `Server` | `Backend.Run`, `Stop`, main's signal goroutine | |
| `PidFile` | PID file, socket path, stop command, several processes | |
| `PtyProcess` | `PtyProcess` after the spawn: wait goroutine, `forwardSignals`, `Close` | the kernel's part is pending signals and the wait status |
| `ToolRunner` | `RunAll` and `runTool` with `CombinedOutput` | refines the `RunTool` step of `Gate` |
| `Capture` | `loopai-capture` | client and children may hold or close each pipe; a failing write leaves a part |
| `CsiFilter` | `filterCSI`, byte by byte | histories: the input and the intervals dropped |
| `OutputBuffer` | `OutputBuffer`, `StripANSI`, the phase analysis | an expression stands for one word it finds |
| `ByteSeq` | the grammar of escape sequences | shared by the two modules above |
| `MCLauncherParts` | idle detector, PTY process, filter, capture tool | parts that do not interact |
| `MCBackendParts` | server, PID file, tool runner, output buffer | parts that do not interact |
| `GateData`, `GateProofs`, `HandlerProofs`, `LauncherProofs`, `SessionProofs` | theorems | on the modules they are named after; `GateData` is used for the gate alone and in a session |
| `LauncherPartProofs`, `BackendPartProofs`, `StreamProofs` | theorems | on the parts of `MCLauncherParts` and `MCBackendParts`; `StreamProofs` on the filter and the output buffer |

How code becomes actions.  A critical section under a mutex is one action, and
so is a stretch of code that touches only local state; every blocking call,
every look at the context, every access to a file and every atomic load or
store is an action of its own.  A Send is two actions: the context check and
the write, with a gap in which the connection may be closed.  What the program
does not control (client, user, system clock, scheduler, template files) is an
action with no fairness unless stated below.  Data is abstracted to what the
properties tell apart: output chunks and keystrokes are counted, a prompt is a
record of its template's name, how it was obtained and the tool it names, tool
results are a tool and a verdict.  Only the two programs that take escape
sequences apart work on bytes.

`MCLauncherParts` and `MCBackendParts` each put four parts that share no state
into one state space.  The variable `part` is chosen in the initial state, the
chosen part takes its own steps under its own fairness, and the others stand
still, so a run is the union of four independent ones.

Operators with a name like `StopKeepsTimer` or `RunCheckSkipped` that a comment
calls a mutant are not part of the specification: each is a plausible bug in the
definition that follows it, and shows that a property would notice.

## 3. Runs

Passing runs:

| Run | Question | Bounds |
|---|---|---|
| `launcher_parts` | Idle detector: one-shot and final after Stop, in every order of calls, expiries and fire goroutines?  PTY process: is the exit code there when done is closed, does Close kill only after the grace period, and does the child always end?  Filter: is no more dropped at a time than a CSI sequence or ESC O and one byte, is everything else kept, and is a whole sequence always stripped?  Capture tool: is the file of a capture without an error complete, and does the duration limit the capture? | 3 fire goroutines, 5 armings: two overtaken expiries at once; 2 exit codes, all forwarded signals, any number of calls of Close; 5 bytes of an alphabet with one byte per class of the filter; 2 chunks per stream |
| `gate` | Do two callers exclude each other (what the gate's concurrent unit test claims; in the program each handler has a gate of its own), respect the cooldown, and send the prompt their own run calls for while templates are edited? | 2 symmetric callers, cooldown of 2 units, buffer of 1 so that writes block |
| `handler` | Against any sequence of frames: does the handler implement `EnforcementLoop`, keep its gate usable, and end when the launcher leaves? | buffers of 1, cooldown 1, all frame kinds with good and bad payloads |
| `launcher` | Are frames in order, is exited last and complete, do idle callbacks only run out after Stop, and does a launcher that lost its connection or was signalled exit once nobody holds the PTY, with signals, kills and a failing stdout? | buffers of 1, one fire goroutine, passthrough on; the backend sends prompts and shutdown at any time, reads or does not, and closes when it likes |
| `session` | Composition with kills and backend shutdown: no deadlock, and the handler hangs up only for a cause. | buffers of 1, cooldown 1 |
| `session_delivery` | Does a run's prompt reach the client in spite of full buffers in both directions? | the same, no faults |
| `backend_parts` | Server: lost wakeups between Listen, Store, Load and Close; Run waits for its handlers; a signal ends the server.  PID file: one backend at a time, found by stop and by launchers, with crashes and reused PIDs.  Tool runner: is a verdict sound, is the runner what the gate takes it for, does a timeout end a tool?  Output buffer: no hole after an overflow, the first trigger decides, a failure stands unless an ok line hides it in a test phase, whole sequences are gone. | 3 connections, both kinds of accept error; 3 processes whose starts do not overlap; 1 byte of output kept and 2 printed; a buffer of 3 and a sample of 2 against streams of up to 5 bytes in every division into writes |

Buffers of one are the hard case: every writer blocks at the earliest moment,
and larger buffers only postpone it.  One pending idle callback is enough for
the launcher because main stops the detector once; what several of them do is
the subject of `launcher_parts`, whose result is proved without bound.  After
frames other than a prompt and shutdown the launcher's receive loop goes round or
ends without touching the PTY; they are left out of the run `launcher`, and
the theorems on it hold for any set of frames.  A tool or a
buffer at its limit needs one byte more than the limit; five bytes hold any
sequence of the filter with a parameter and its neighbours, and a sequence that
is broken off by the ESC of another one.

Fairness.  Weak fairness is given to what the Go scheduler and the kernel
guarantee: each goroutine of the processes, the end of each tool (`runTool`
kills it at its timeout, which is enough unless a child of the tool holds its
output, see `TimeoutEndsTool`), the report of a dead child, and, where the property
needs them, the clock, an armed timer, and a client that reads its terminal.
Nothing is assumed of the peer in the harnesses, nor of users, signals or the
client's exit.  `PoliteLaunchers`, for the server part of `backend_parts` only,
adds that launchers do not stay for ever.  `PtyFairness` says that SIGKILL
works, that a dead child is reported and that Close and its timers go on, not
that the client exits or honours another signal.  `ToolFairness` covers the
backend's goroutines and the deadline, not the tools and their children, and
`CaptureFairness` the tool's goroutines and its clock, not the client nor its
children.
`DeliverySpec` keeps only the fairness that delivery of a prompt needs.
Deadlock is checked everywhere except in `Session` runs without faults, where
the hang described next is reached.

Runs that are expected to fail show where the code and what is said about it
differ; `PROJECT.json` quotes the lines:

| Run | What TLC shows |
|---|---|
| `session_exit` | After the client exits, main waits for the pipe from the backend.  Its shutdown frame goes to the backend, which ignores it, so the launcher hangs until a signal or a disconnect. |
| `pidfile_race` | Two backends started together both pass the PID check, and the second takes the socket path from the first. |
| `pidfile_exit` | The PID file survives every orderly shutdown, because main leaves by `os.Exit`. |
| `filter_nested` | An ESC after an ESC is written together with the first one, and the CSI sequence it starts passes the filter (Alt and an arrow key). |
| `filter_ss3` | After ESC O the filter drops any byte, though its comment names 0x40 to 0x7E only: a digit, a newline, or the ESC of the next sequence is lost. |

Smaller disagreements that the models exhibit and for which no run is kept:

* A Reset that falls between the expiry of the timer and the check of `fire` does
  not stop that expiry's callback (`idle.go:33` says otherwise).
* A failure prompt names the tool `go` both for build and for test
  (`runner.go:22`, `prompt.go:14` say "go build", "go test").
* The repository ships no `failure.md`, so a failed run types `[prompt:failure]`.
* The idle event after a failed run is dropped if it falls into the cooldown, and
  a quiet client sends no other (`README.md:95` promises a fresh run).
* `Stop` can return before a connection just accepted is counted
  (`server.go:111`); a transient accept error that is not a timeout ends the server
  (`server.go:65`); a silent launcher keeps the server from exiting, since the
  context has no deadline (`server.go:44`).
* A client killed by SIGHUP has the exit code -1, which `ExitCode` reserves for
  "not yet exited" (`pty.go:198`).  The launcher is not misled, because it reads
  the code only after done is closed (`CodeKnownWhenDone`).
* `Close` may report an error of `Kill` although the child ended by itself in
  the meantime (`CloseKill` in `PtyProcess`).
* A tool's timeout does not bound the run while a child of the tool holds its
  output pipe (`runner.go:61`).
* `-duration` does not bound a capture whose client has closed stdout and stderr
  and runs on: the select sees the readers end and `cmd.Wait` has no limit
  (`main.go:124` of the capture tool).  Nor does it while a child of the client
  holds a pipe (line 121).  Both are exceptions of `DurationEndsCapture`.
* `skipCSI` does not stop at a byte that cannot be in a sequence
  (`ansi.go:67`), and in a test phase an ok line of one package hides the
  failure of another (`phase.go:78`).
* `-interactive` alone does not strip CSI sequences (`README.md:79` of the
  repository); `-filter-csi` does.

## 4. Proofs

All theorems hold for every value of the constants under the assumptions named
in the modules (bounds are naturals, positive where stated).

Every proof follows the same scheme: an invariant `...Inv` that contains the
property, or implies it, holds initially and is kept by every action (one step
of the proof per action), and a temporal step concludes.

* **Idle detector** (`LauncherPartProofs`).  `CallsWithinArms` alone is not
  inductive without the types of the counters; `IdleInv` adds them.  The argument
  is a credit: each Start or Reset that arms the timer adds one to `arms`; a
  pending timer holds one, expiry hands it to a fire goroutine, and the check
  hands it to the call or drops it.  `OneShot`, `StopIsFinal` and
  `StoppedStaysDisarmed` follow.
* **PTY process** (`LauncherPartProofs`).  `PtyInv` says what the position of the
  wait goroutine implies about the child and the exit code (it is written before
  done is closed, from the wait status of a child that is dead), and that a call
  of Close past its timer has seen the grace period expire.  `CodeKnownHolds` and
  `GraceIsGiven` follow, whatever signals arrive in between.
* **Capture tool** (`LauncherPartProofs`).  `CaptureInv` accounts for every chunk:
  printed, in a pipe, held by a reader, collected.  A reader ends only at the end
  of a pipe that is empty and that nobody holds, which says nothing of the client:
  it may have closed the stream and run on.  A stream nobody holds gets no more
  output and no new holder, so what the slice has when main writes it is
  everything (`FileHolds`); a write that fails leaves the beginning of that.
  `PartsAreTyped` puts the types of the four parts together.
* **Gate** (`GateData`, `GateProofs`), for any set of callers and any cooldown.
  `GateInv` has a control part and a data part, proved separately.  Control: the
  flag is set exactly while some caller is in a run, at most one is, and while the
  gate is free `since <= quiet`, i.e. the gate never believes the last run to be
  longer ago than the last tool really is.  The last conjunct is what makes
  `CooldownBetweenRuns` provable: entry requires `since = Cooldown`, hence
  `quiet = Cooldown`.  Data: the result list of a caller is one of the few lists
  its place in the run allows, so the search for the first failure always finds
  one, and the prompt's name fits.
* **Tool runner** (`BackendPartProofs`).  `ToolInv` says what the position
  in `runTool` implies about the tool, the error Wait returned and the output
  collected: when the verdict is taken, the tool has ended, nobody holds its
  output any more and all of it was copied (`VerdictHolds`).  `RunnerImplementsGate` is a refinement, step by step: the outcome of
  `runTool` is one that `RunTool` of `Gate` allows, and everything before the
  result is appended is a stutter.
* **Handler** (`HandlerProofs`), against any launcher.  `HandlerInv` says that the
  gate is busy only while the loop is inside HandleEnforcement and that both
  streams are sequences of frames.  `GateIsFree` follows, and so does
  `HandlerKeepsPromise`: each action maps to an action of `EnforcementLoop` or a
  stutter; an idle frame that starts a run is a
  `TakeIdle`, its end one `Settle`, and the tools, the clock, the templates and
  the context are stutters.
* **Launcher** (`LauncherProofs`), against any backend: `BackendStep` is all that
  is assumed of the other end (it does not touch the launcher's state, takes
  frames from the head of the upstream and does not mend a broken stream).
  `LauncherInv` counts: who still runs, who has sent what, and which frames may
  follow which.  `FramesInFlight` says it of the socket, `FramesInOrder` of every
  send: it needs that main stops the detector and joins the output pipe before it
  sends exited, and that an idle callback admitted before the Stop may still send
  after it; `ExitedMeansAllSent` that the pipe ends only at the end of the
  client's output.
* **Session** (`SessionProofs`).  Every step of handler, gate and backend is a
  `BackendStep` and every step of the launcher leaves handler and gate alone, so
  both invariants and the gate's data invariant carry over to the composition:
  `SessionKeepsFrameOrder` and `SessionPromptIsRight` hold there for the real
  peer.  `HandlerLeavesForCause` adds that each cause, once there, stays.
  `SessionKeepsPromise` shows the session as a whole to implement
  `EnforcementLoop`, step by step: the launcher's steps are its `Launcher` or
  stutters, because none of them both sends and receives.
* **Server** (`BackendPartProofs`), for any set of connections.  `ServerInv` says
  what the position of each goroutine implies about context, listener and
  WaitGroup; `NoLostWakeup` needs that Run looks at the context after it stored
  the listener, and that Stop loads it after the cancellation.
* **PID file** (`BackendPartProofs`), for any number of processes and under the
  assumption that starts do not overlap (without it the property is false, see
  `pidfile_race`).  `PidInv` adds to `OneBackend` and `ServingIsFound` that what
  a starting process has read is still what the file says, and that nobody owns
  the file once it was found absent or stale.
* **Stdin filter** (`StreamProofs`), for input of any length.  `FilterInv` says
  that the held bytes begin a sequence, in each parser state another kind, that
  they are the end of the input, and that the dropped intervals are CSI sequences
  or ESC O with one byte and lie before them; the bytes written are the rest
  (`KeystrokesKept`, `DropsStayBounded`).  `PickPrefix` and `PickJoin` say what
  `Pick` does when bytes are appended or an interval is dropped.
  `WholeSequencesStripped` compares the filter with a set of intervals that looks
  ahead, so the invariant behind it (`StrippedInv`) speaks of every escape already
  dealt with: it starts a dropped sequence that is whole, or the bytes after it
  show that no whole sequence starts there (`Hopeless`), in which case the premise
  of the property is false for good.  It rests on two facts about the grammar: no
  whole sequence begins another one (`WholeNotLonger`, `OneEnd`), and no
  continuation repairs a hopeless one (`HopelessNotWhole`).
* **Output buffer** (`StreamProofs`), for any limits, words and cuts of the stream
  into writes.  The text is the concatenation of what `StripANSI` left of the
  writes before the first that did not fit, and the phase is the one the first
  triggering sample names (`OutputInv`).  `FailuresStand` follows: an accepted
  write only adds lines, and a rejected one changes neither text nor phase.  `NoEscapeBuffered` needs what
  `StripANSI` computes for every input.  That is an induction over data, and the
  function is one that calls itself on the rest of its input, so even that it
  exists must be proved.  The library's induction theorems cannot be used, since
  they take an operator; the proof takes their route for sets instead: `<` on the
  naturals is well-founded, hence a nonempty set of naturals has a least element
  (`LeastNatural`), hence a set with 0 that is closed under successor is all of
  them (`NatSetInduction`).
  `WholeSequencesGone` follows from one lemma, `CleanGrows`: for a text and a write
  that are both made of whole sequences and other bytes, taking the sequences out
  of the two together gives the text without them followed by `StripANSI` of the
  write.  Its induction walks along the write from one sequence boundary to the
  next; at each, what was picked so far followed by what `StripANSI` makes of the
  rest is the same.

Model-checked only: all liveness, since fairness and ENABLED are out of the
prover's reach.  Every invariant and every action property of a passing run is a
theorem.

## 5. Not modelled

* Interactive mode, apart from the filter: the raw terminal and the copy of
  stdin.  The copy writes to the PTY without coordination with prompts, and
  nothing in the repository promises more; a nonzero exit code of the client
  skips the restoring of the terminal, as the text of main plainly says.
* The echo setting of the PTY and `validatePromptsDir`: single calls and checks
  at start, without state.
* `extractErrorLines` and all other text: prompts, tool output, log lines.  Cuts
  inside a UTF-8 sequence, and a negative `-tool-output-max`, which panics and is
  excluded by `MaxToolOutputAssumption`.
* Failures inside Spawn: `PtyProcess` starts after a successful one.

A Unix-socket write is taken to be whole or not at all.  A PID file is written
whole.  `OutputBuffer` has no caller in the programs at this commit; its model
takes any sequence of calls.

## 6. Plan

Done, in this order: `Wire`, `IdleDetector`, `Gate`, `Handler` with its abstract
specification, `Launcher`, `Session`, `Server`, `PidFile`; then `PtyProcess`,
`ToolRunner`, `Capture`, `CsiFilter` and `OutputBuffer`; then a proof of every
safety property that a passing run checks, and of the abstract specification for
the session.

Next: `GateHarness` as an abstract specification that `Session` implements, so
that `CooldownBetweenRuns` carries over as well.  `Session` keeps no record of
when a tool last ended, so it needs a history variable for that first.

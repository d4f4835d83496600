# websh in TLA+

Specifications of the parts of [websh](../src/README.md) whose correctness
depends on order: who reads a key, what is on the screen, what is in the store
when the page goes away, what arrives when a connection breaks. Each module is
written from the source; `PROJECT.json` maps every definition to the lines it
stands for, lists every run with its properties, and names the hazards.

    tlc -config InQueue.cfg InQueue          # one run
    tlapm InQueueProofs.tla                  # one module of proofs

## The system

websh is a shell on a page. One wasm program holds a terminal (xterm-go), an
interpreter (0magnet/sh), a filesystem in memory (afero) and about sixty
commands. Go on js/wasm is one thread: goroutines take turns where they block,
and a JavaScript event is handled only when all of them are blocked. A callback
that blocks stops the page.

| component | source | state | operations | what is hard |
|---|---|---|---|---|
| input queue | `web/stdin.go` | items, size, command number, a condition variable | push, next, close, Read | several readers, items that belong to a command, a limit |
| console session | `web/session.go` | lines channel, running, raw/cooked, contexts | onData, Submit, run, Close | callbacks against the command loop, a bounded channel, Ctrl+C |
| line editor | `shell/editor.go`, `cells.go` | line, cursor, history, escape state | one per key | it never reads the screen; deferred wrap, wide characters and marks, prompts of several rows that others write |
| persistence | `cmd/websh/persist.go`, `main.go` | filesystem, IndexedDB, signature snapshots | loadAll, syncFS, clear | requests that fail, changes during a sync, page loads at any time |
| pty client | `shell/pty/applet_js.go`, `protocol.go`, `retry.go` | keys channel, event queue, session id, escape, pending keys | readKeys, connect, run | connections that break, order of events, a reader that outlives its command |
| pty server | `shell/pty/handler.go` | two goroutines, a context, a terminal | output, input, close | bounded buffers both ways, who notices the end |
| sed | `shell/sed`, `sedapplet.go` | pattern and hold space, ranges, queued text, files | the parser, the cycle, in-place editing | ranges and appends across `n`, `N`, `D`; missing newlines; failures half-way |
| child programs | `shell/exec_js.go`, `widget` | a wasm child, its input, offered widgets | execExternal, feed, Wait, resize, kill | three goroutines, the last key of a child |
| ssh | `shell/ssh` | arguments, known hosts, identities, a session | Dial, prompts, Shell, Run, forwardKeys | prompts and session share one input; cancellation; files others write |
| mosh | `shell/mosh` | screen states, a link, three goroutines | Run, apply, resize, readKeys | lost and resent diffs, who ends the session |
| progressive protocol, program's side | `progressive` | a probe, the reader behind it, a filter | Probe, after.Read, scan, Filter | replies, events and keys in one stream, cut anywhere |
| progressive protocol, page's side | `web/place.go`, `images.go`, `page.go`, ... | placements, widgets, pictures, fonts, sounds, the mirror, a source | one per request, programEnded | loads that end after their command, remote programs, background jobs |
| native console | `console`, `shell/exec_other.go` | the modes, the flag and the deadline of a terminal, a context | readLine, runLine, interrupt | a signal against the end of a line; programs that have the terminal |
| shell and applets | `shell/*.go` | runner, pending statement, jobs | Run, applets | sequential, but for jobs |

They meet at few places. The terminal's `onData` gives keys to the editor at the
prompt and to the input queue while a command runs. The editor submits lines to
the session's channel; the session's loop runs each, calls `AfterCommand` (the
sync of the filesystem, under one lock for all consoles) and writes the prompt.
Full-screen commands (pty, ssh, mosh) turn raw mode on and read the queue, and are
woken with `WakeStdin` when what they wait for ends. What a command writes may
hold requests of the page: the terminal's handlers carry them out by the source
of the output, and `programEnded` takes all of it away when the command ends. Only
`~/.webshrc`, which `sourceRC` runs before the first prompt, ends without it.

## Modules

`Session` instantiates `InQueue` and composes its reads with the callbacks and
the command loop. `Page` composes `Host`, `Placements` and `Pictures`; `Mosh` goes
on from `Ssh`, whose login it uses. The others stand alone: what they share with
the rest (the lines that are taken, the commands that run, a terminal that is
read) is an action of their environment. A module `MC...` is an instance for TLC;
those that hold several systems (`MCNative`, `MCPage`, `MCRemote`) choose one in
the initial state and leave the others still.

| module | what it models |
|---|---|
| `InQueue`, `InQueueProofs` | `inQueue`; a Read is several steps (lock, drop what is stale, return or wait), and Signal wakes the longest waiting reader |
| `Session`, `MCSession`, `SessionProofs` | callbacks, the `lines` channel, the command loop, raw and cooked input, Ctrl+C and Ctrl+D, Submit, Close; commands by what they wait for |
| `LineEditor`, `MCLineEditor`, `SessionProofs`, `FoldTheorems` | every key of the editor, history, completion, and a terminal (external) of cells that defers its wraps |
| `Persist`, `MCPersist`, `FileProofs` | the filesystem, the store, `syncFS` request by request, `loadAll`, `reset-fs`, page loads |
| `PtyClient`, `MCPtyClient`, `PtyClientProofs`, `FoldTheorems` | `readKeys`, `run`, `connect`, the event queue, `escape.filter`; a WebSocket and a server that keeps sessions (external, as PTY.md has it) |
| `PtyHandler`, `MCNative`, `NativeProofs` | one connection of `Handler`: output, input, the handler, the library's closing on a canceled context |
| `Progressive`, `MCNative` | `Probe` and its pump, `scan`, `after.Read`, `Filter`; a terminal (external) that answers, reports events and passes on keys |
| `Console`, `MCNative`, `NativeProofs` | websh on a terminal of the system: the prompt, lines, programs the terminal is lent to, the goroutine of the signals, `Shell.Run`'s pending statement and exits |
| `SedText`, `Sed`, `MCSed`, `FileProofs`, `FoldTheorems` | text of scripts, replacements and regular expressions; the parser's structure, every command of the cycle, the applet over its files |
| `SshHosts`, `Ssh`, `MCRemote`, `RemoteProofs`, `FoldTheorems` | the command line and `known_hosts`; `runSSH` from its words to its status, with prompts, methods, sessions |
| `Mosh`, `MCRemote`, `RemoteProofs`, `FoldTheorems` | the start of the server, `Run` with its three goroutines, `screen`; a server and a network that loses, doubles and delays (external) |
| `Exec`, `MCPage`, `PageProofs` | `execExternal` and `feed`: a child, the goroutines about it, what it offers |
| `Host` | `~/.webshrc`, lines, `WithSource`, marks in remote output, what is queued for a command |
| `Placements` | `place.go`, `ship.go`: placements, shipped and offered widgets, keys, positions |
| `Pictures` | kitty's and iTerm2's pictures, the image window, notes |
| `Page`, `MCPage`, `PageProofs` | title, address, icon, clipboard, fonts and zoom, sounds, mirror, drops, `programEnded` |
| `Shown` | two computations: the cells of a picture, the copy of a mirror |

Data is abstract where no property looks at it: a file's content is a model
value with a size, output of a program is a count, a character is its width and
its bytes, a key is one of four. Variables named *history* are not in the code;
they record what a property is about. Definitions called `X_Something` are
mutants: plausible bugs of `X`, used to see that a property can fail.

### Correspondence, where it is not one to one

- **InQueue**: `items`, `size`, `cmd`, `closed` are the fields; `rd` and `waitq`
  are the readers' program counters and the condition variable. A byte is its
  place in the history `log`.
- **Session**: `EventLoop` is the rule that an event waits for all goroutines to
  block, `Goroutines` that nothing runs while a callback does. `cb` is a callback
  that is still in `Editor.Input` with lines to send. `KeysOrdered` says pairwise
  that what was read, what is queued and the line that is typed are rising.
- **LineEditor**: `change`, `moveTo`, `insert`, `tail`, `refresh` produce what
  the code echoes, as a sequence of operations the terminal applies. `settle` is
  part of every key. `RunLine` is the session's loop from taking a line to the
  next prompt. `Put` is what the terminal does with a rune and `advance` what the
  editor takes it to do; a prompt for which the two agree is `Straight`.
- **Persist**: a request takes effect or fails when it is made and is answered
  later; between the two the filesystem may change and the page may go.
  `StartSync`, `Visit`, `PutAnswered`, `WalkDone`, `Delete`, `DeleteAnswered`,
  `SyncDone` are `syncFS` cut at each await.
- **PtyClient**: handling all the events of one wake-up is one step, because no
  callback runs meanwhile: `Seen` are those up to a close, at which `connect`
  returns, and `Handle` is the result they make. `Returned` is what `run` does with
  the result of `connect`.
- **Exec**: `wakers` counts the goroutines that are past `Wait` and will wake the
  terminal. A Read passes over an interrupt that is left of an earlier command
  (`Stale`), as `inQueue.Read` does.
- **PtyHandler**: `ContextCloses` is the `AfterFunc` that coder/websocket
  registers for a Read or Write under way. `WriteFails` says whether the system's
  terminal refuses keys once its program is gone.
- **Progressive**: the stream is cut in pieces no read divides further: the head
  and the end of a reply, four parts of an event, one key. `OnTheWay` is what the
  goroutines and buffers hold between terminal and program.
- **Console**: a word of a line is a command by what it does with the terminal.
  `runLine` is cut where the goroutine of the signals may come between: after
  `Shell.Run`, before `cancel = nil`, before the deadline is cleared. `interrupt` is
  `TakeSignal`, `Cancel`, `EndReads`. `Editor` is the part of the console's record
  that a read at the prompt hands to the line editor.
- **Sed**: a regular expression of the cycle is the set of characters it matches,
  one at a time; the translation of real ones is `translate` in `SedText`, what Go
  then refuses of them `compileRegex` (counts in braces aside); those of the cycle
  are ones it takes. One step is one command.
- **Ssh**: `typed` is all that was typed and `pos` what was taken of it, by prompts
  and then by the session. `conf` is what the command finds.
- **Mosh**: a screen is the number and width of the server's state it shows; a diff
  over any other base leaves garbage.
- **Placements**: a mount or unmount of an offered widget ends in a step of its
  own, since another runtime does it. **Page**: `late` holds the browser's answers
  that are still to come.

## Runs that pass

| run | what it shows | bounds |
|---|---|---|
| `in_queue` | order, no loss, replies to their own command, the size, no lost wake-up, close wakes all; typed bytes are read | 2 readers, limit 2, chunks of 2, 3 bytes, 3 items, 2 commands: the limit is hit, a chunk is read in parts, items go stale in front of live ones; deadlock checked |
| `session` | keys in order across raw mode, no end of input unasked, nothing starts after Close; Ctrl+C ends a waiting read, Close ends the loop, lines are run | two scenes: 2 lines of every kind that reads with a job and `exit`, 2 keys, 2 Ctrl keys; 3 lines and 1 given to Submit at a channel of 1, so that both senders wait |
| `persist` | a truthful snapshot, a complete sync, nothing deleted before all else is stored, every sync ends | 2 paths, 2 consoles and jobs, 3 operations, 1 failure, 1 load, 1 reset |
| `line_editor` | the screen shows the line; the place in the history, the fresh line comes back | 3 columns, lines of 3 of `a`, a wide character and space, a mark in the history, in completions and in prompts; prompts of two rows, of a full row and one that begins on the next row; every key and kind of completion, 2 lines of history, 2 lines entered |
| `pty_client` | each key once, in order, as the escape has it; events, size, session and waits across connections; the reader ends and steals nothing; sizes arrive | 2 chunks of `x ~ . CR` or `CR ~`, a channel of 1, 5 breaks (the wait reaches 10 s), a next command, cancellation, 2 sizes |
| `native` | the server: all output before the end, the end of the connection ends the program. The probe: no key lost or taken, answers and events taken out, Escape at once. The console: it ends when asked, Ctrl+C resets nothing and comes back, lines start clean and are the lines typed | input of 1, output of 2, 3 messages; 4 terminals, 2 keys, 2 events, 1 wake-up, a channel of 1; 7 typings of up to 7 keys with a signal at any time |
| `sed` | ranges, appends, newlines, in-place editing, whole scripts; replacements, cases and regular expressions by position | all ranges of 5 starts and 8 ends over all files of up to 4 lines; 13 idioms; 13 scripts over pairs of files with and without a last newline, writes failing after 0 or 3 bytes; all texts of 4 or 5 of the characters that matter |
| `remote` | hosts vetted and kept, prompts and session apart, escapes, sizes, ends noticed, terminal left clean; the newest screen shown | 64 meanings of a command line each written 4 ways, files of 2 lines of 7 kinds against 4 servers, 4 or 5 keys, 3 states of a screen, 2 widths, a queue of 1 |
| `page` | what a program asked for ends with it and answers go to it; widgets, keys, pictures, sounds, fonts each as above; a child's keys, size, end and interrupt | 14 setups of a few features each, 2 lines, 2 marks, 2 ids, 2 mounts, 2 fonts; 2 children, 2 keys, 2 sizes, 1 Ctrl+C; pictures and documents of a few elements |

Several properties are conjunctions of named parts, each with its own comment in
its module, and the sections below speak of the parts:

| run | property | parts |
|---|---|---|
| `in_queue` | `ReadersWake` | `NoLostWakeup`, `CloseWakesAll` |
| `session` | `KeysOrdered` | the order of the keys, `TypeOK` |
| | `StopsWhenTold` | `InterruptEnds`, `CloseEnds`, `NothingStartsClosed` |
| `line_editor` | `ScreenShowsLine` | the screen, `EditorTypeOK` |
| | `FreshComesBack` | the line that comes back, `AtEndIsFresh` |
| `pty_client` | `KeysExact` | the keys of a connection, `SizeFirst`, `NoEventStuck`, `TypeOK` |
| | `Reattaches` | one shell, no end but when told, the waits |
| | `KeepsUp` | `ReaderEnds`, `SizeArrives` |
| `native` | `InputExact` | `KeysComeThrough`, `AnswersTaken`, `EventsPutTogether`, `EscapeAtOnce`, the types |
| | `EndsWhenAsked` | why the console ended, `StateKept` |
| | `LinesRun` | the lines that were run, `LineStartsClean`, the types |
| | `NoneIsStuck` | `EndsWithConnection`, `KeysArrive`, `CtrlCComesBack` |
| `sed` | `ScriptsRead` | `ParseStructure`, `ReplacementRoundTrip`, `CaseByPosition`, `BasicSyntax`, `NothingToRepeat`, `BracketEnds`, `IdiomsCompute` |
| | `OutputExact` | `RangesExact`, `ChangeOnce`, `LinesApart`, the types |
| `remote` | `ServerMeant` | `ArgsMean`, `ConnectLine`, `HostVetted`, `KnownIsTaken`, `GlobExact` |
| | `KeysTold` | `SentIsTyped`, `EscapesSent`, `AnswersEnd`, `QuitsAtLineStart`, the types |
| | `SessionsReturn` | `EndReturns`, `CancelReturns`, `SizeTold`, `LossNoticed`, `KeyLeaves`, `LeavesClean`, `MoshLeavesClean` |
| `page` | `NothingOutlives` | the page at the prompt, `FontOfItsCommand`, `SizeIsThePersons`, `SoundUrlsLetGo`, the types |
| | `EventsToAsker` | who gets an event, what remote output may change |
| | `PlacementsKept` | `WidgetsPlaced`, `KeysHaveAHome`, `ShippedWithin`, `OfferedIsLocal`, `OnTheirCells`, `TakenDown` |
| | `ShownIsSent` | `PicturesOfTheirId`, `PartHasKeys`, `CellsFit`, `MirrorPlain`, `DismissedByPerson`, `RemoteNotesSpaced` |
| | `KeysReachChild` | a child's keys, `PromptIsClean`, the types |
| | `CommandsReturn` | `ComesBack`, `CtrlCEnds`, `SizeReachesChild` |

The types of `InQueue`, `Persist` and `PtyHandler` are proved, and no run checks
them; those of `Session` and `PtyClient` are proved and checked.

The bounds are small where the code compares only with empty, full or one more:
a channel of 1 or 2 is full as one of 8 or 64 is, two readers are the command
and a job, two consoles contend for the lock as four do. Three columns are the
fewest in which a wide character both fits and does not. The features of the page
keep state apart, and meet in `programEnded`, in the source and in the queue of
answers: each setup of `page` has the features that meet, not all of them. A range
of sed is decided by four lines (before, first, last, after).

`CHECK_DEADLOCK FALSE` is set where the system may stop: bounded inputs are used
up and the session is closed, the command over or the handler returned. The runs
of the queue, the editor and persistence keep the check.

### Fairness

- `InQueue`, `Session`: weak fairness of every goroutine that can run, because
  the scheduler is fair; of a callback that can go on; of timers and IndexedDB,
  which answer. Not of the person.
- `Persist`: weak fairness of the sync's steps.
- `PtyClient`: weak fairness of goroutines, and strong fairness of each case of
  `connect`'s select: Go chooses at random among those that are ready. A
  connection is answered or refused, and what was sent arrives or the connection
  breaks. Nothing is assumed of server or person.
- `PtyHandler`: weak fairness of the goroutines; the run that passes adds a
  program that reads its terminal.
- `Progressive`, `Exec`, `Ssh`, `Mosh`, `Console`: weak fairness of goroutines and
  timers. A child that was killed, a program that was interrupted (killed after two
  seconds), ends; a connection that was closed is seen to be. Not of the person, the
  server or what a program does.
- `Page`: weak fairness of mounts and unmounts, which are microtasks.
- `Sed`: none; it is sequential, and only safety is checked of it.

## Runs that find a disagreement

Each checks one statement of a comment, a document or a test, quoted in
`PROJECT.json` under `findings`, and TLC shows a behaviour of the code against it.

| run | in short |
|---|---|
| `session_freeze` | with the channel full the callback blocks and the page with it |
| `persist_failed` | a failed put deletes the stored older version |
| `pty_dropped` | keys typed during an attempt that fails are dropped |

### What the passing properties leave out

Some properties hold only where the code lets them, and say so in their comment,
in an exception of the formula or in a constant:

- `InterruptEnds` is checked with no background job on the same terminal: the
  interrupt is an item any Read may take, so a job may end in place of the
  command.
- `LinesDrain` excepts a callback that waits in Submit, which is what
  `session_freeze` shows. A line entered from an event that was pending at Close
  is sent on a closed channel and panics (`panicked`); `CloseEnds` excepts it.
- `SyncComplete` excepts the mode of a file, which `fileSig` has not; a baseline
  snapshot in which a put failed, since the path is then in no snapshot and its
  deletion is never seen; and `SameInstant`, where a rename over a file of the same
  size and millisecond has the signature of what it replaced.
- The properties of `Persist` except a page on which `reset-fs` was used: reload
  does not stop the command loop, and the sync after it writes to the store.
- The properties of `LineEditor` are checked, and proved, with `TypeAhead = FALSE`:
  when a line is taken while the person already browses the history, `AddHistory`
  moves the place to its end under an old line, and what is typed with no prompt up
  is not drawn behind one.
- `ScreenShowsLine` is of straight prompts (`Straight`): one row, or rows that each
  begin with a carriage return and a newline. PS1 has `\n` (prompt.go:69), which
  `WritePrompt` (session.go:357) writes without a carriage return: the terminal keeps
  the column, `advance` (cells.go:86) starts a row, and after such a prompt in mid-row
  the editor is columns off. A newline behind a row that is just full is one row on the
  terminal and two for `advance`, so that `refresh` moves up too far; a carriage return
  alone takes no cell in `promptCells`, and moves the cursor.
- It also excepts a mark (a rune of no width, cells.go:90) at the front of a line, of
  what is typed and of what is completed (`Carried`): behind a control sequence, such
  as the one that ends the prompt or a move of the cursor, the terminal may give it
  a cell, and the editor gives it none. Behind a character both join it to that.
- With a full prompt it is checked and proved only without Ctrl+D on an
  empty line (`Settling` in `SessionProofs`): EOF writes a second prompt and leaves
  `settled` as it was.
- `KeysExact` is of one connection: `escape` starts anew with each, so `~.` in
  mid-line quits after a reconnection and a `~` before one is forgotten.
- `NothingStolen` and `ReaderEnds` except a client that a command is chained to: in
  `pty host; cat` the Read of `cat` may take the wake-up meant for `readKeys`.
- `LinesApart` is of one run over any number of files: with `-s`, and with
  `w /dev/stdout`, a line is joined to one without a newline, where sed.go:127 has it
  that the newline is added back "if anything follows". `InPlaceKeeps` excepts `q4`,
  whose status is taken for an error.
- `CancelReturns` is of a session: a prompt does not look at the context. After
  Ctrl-C at a keyboard-interactive prompt the password is asked for, and an empty
  passphrase skips the keys after it too (client.go:199: "skips the key").
- `LossNoticed` and `KeyLeaves` together are what mosh does: it asks for a key.
  `ShowsNewest` excepts a state drawn, without a repaint, over one that `resize`
  forgot: when the width goes and comes back before the server answers, the server
  sees no change and its diff goes on a blank screen, where screen.go:109 has it that
  "the server redraws after a resize". It also excepts a width that went and came
  back between two looks of the ticker.
- `KeysReachChild` excepts one read for each child, dropped as it ends.
  `SizeReachesChild` excepts a command that was interrupted.
- `NothingOutlives`, `EventsToAsker` and `FontOfItsCommand` except background jobs,
  whose requests outlive their line, and what `~/.webshrc` asked for: `sourceRC`
  draws the first prompt without `programEnded`, so that it stays, and its
  placements report to the first line, until that line has ended or a mark was seen
  (`rcTurn`). The clipboard's answer goes to the line that asked, and after a mark in
  that line may reach the next program there (page.go:268). `OnTheirCells` is of the moment after an
  OSC 7337; a comment says "however the terminal is zoomed". `SizeIsThePersons` is of
  fonts without a size, and excepts a zoom made under one of them if a font with a
  size follows (`unzoomed`): `fontUse` kept the size before the zoom, where font.go:119
  has it that "a zoom the person made meanwhile stays".
- `EventsPutTogether` excepts a cut in the first two bytes of an event, and
  `AnswersTaken` a probe that gave up: what comes later is read as keys. `KeysArrive`
  excepts reads that are woken, since `after.Read` goes on to the next one.
- `EndsWhenAsked` and `LineStartsClean` except the late interrupt: when a line ends
  between the two halves of `interrupt`, the deadline is set after `runLine` cleared
  it, the prompt's read fails, and the console ends as for Ctrl+D. `LinesRun` excepts
  two lines in one read, of which the last is run. `StateKept` excepts the startup
  file, after which `SourceRC` resets the runner also for a Ctrl+C.
- `EndsWithConnection` needs a program that reads its terminal: one that does not
  blocks the goroutine of input, and nobody sees that the client is gone. Nothing
  is said of the close code: the library may close the connection with the
  context before `Close` says 1000.

## Proofs

Checked by TLAPS for every value of the constants, from the `ASSUME`s of the
modules alone. Those say that bounds are naturals (not zero where nothing could
happen at zero), and of the data what the code can meet: a chunk of keys is not empty, a
terminal has a size and only ssh is told of a new one in the middle of a session
of its own (mosh has a list of sizes), a startup file is words, a script of sed is commands whose texts are texts, which
write to files that are known or refused, a widget of the page is a widget, the
zoom has its bounds in order, no text typed, completed or
remembered begins with a mark. The theorems of the editor say in their own `ASSUME`
that the prompts are straight. An inductive invariant was checked
with TLC on the constants of the run before it was proved.

| module | theorem | property of a run |
|---|---|---|
| `InQueueProofs` | `TypeCorrect` | |
| | `ReadersAreWoken` | `ReadersWake` |
| | `ReadInOrder` | `InOrder` |
| | `RepliesKeepToTheirCommand` | `ReplyOwn` |
| | `TypedIsKept` | `TypedKept` |
| | `SizeCountsTheQueue` | `SizeIsQueued` |
| `SessionProofs` | `KeysKeepTheirOrder`, `SessionTyped` | `KeysOrdered` |
| | `InputEndsWhenAsked` | `EofOnlyIfAsked` |
| | `ClosedStartsNothing` | a part of `StopsWhenTold` |
| `SessionProofs` (of `LineEditor`) | `EditorInvariant`, `ScreenIsRight` | `ScreenShowsLine` |
| | `FreshLineKept` | `FreshComesBack` |
| `FileProofs` (of `Persist`) | `TypeCorrect` | |
| | `SnapshotIsTruthful` | `SnapshotTruthful` |
| | `SyncIsComplete` | `SyncComplete` |
| | `MovedFilesAreKept` | `MovedIsKept` |
| `FileProofs` (of `Sed`) | `EditsAreKept` | `InPlaceKeeps` |
| | `QueueIsFlushed` | `AppendsBeforeNextLine` |
| | `OutputIsExact` | `OutputExact` |
| `PtyClientProofs` | `SessionIsTakenUp` | `Reattaches` |
| | `NothingIsStolen` | `NothingStolen` |
| | `TypeCorrect`, `SizeGoesFirst`, `KeysAreExact` | `KeysExact` |
| | `FilterIsReference` | |
| `NativeProofs` | `TypeCorrect` (of `PtyHandler`) | |
| | `OutputIsComplete` | `OutputComplete` |
| | `ConsoleEndsWhenAsked` | `EndsWhenAsked` |
| | `LinesStartClean` | a part of `LinesRun` |
| `PageProofs` (of `Exec`) | `ExecInvariant`, `KeysReachTheirChild` | `KeysReachChild` |
| `RemoteProofs` | `HostsAreKept` | `HostsKept` |
| | `HostIsVetted` | a part of `ServerMeant` |
| | `KeysAreTold` | `KeysTold` |
| | `TheyLeaveClean` | the safety of `SessionsReturn` |
| | `NewestIsShown` | `ShowsNewest` |
| `PageProofs` | `NothingOutlivesItsProgram` | `NothingOutlives` |
| | `EventsGoToTheirAsker` | `EventsToAsker` |
| | `PlacementsStayTogether` | the safety of `PlacementsKept` |
| | `PicturesAreShown` | parts of `ShownIsSent` |

Along which argument:

- **InQueueProofs**: the order of bytes is not inductive by itself: what was read,
  and then what is queued, are increasing places in the log, and every typed byte
  that was accepted and not read is queued. No wake-up is lost because the sleeping
  readers are exactly those in the condition variable's list, and live items are
  outnumbered by readers that are awake or there is no sleeper. The size is the
  number of places in the queue, a cardinality: a push adds those of its chunk, a
  read takes those of its part away, a stale item all of its own.
- **SessionProofs** uses the lemmas of `InQueueProofs` for the session's queue
  (`P == INSTANCE InQueueProofs`). Keys are numbered as they are typed; the line that
  is being typed is younger than all that is queued, which is why `RawMode` may hand
  it over in the middle. An interrupt in the queue that is not stale was asked for
  while this command ran (`Asked`).
  Of `LineEditor` (`EditorInv`): the editor computes where a text ends (`Lay`) and the
  terminal, which defers its wraps, ends there too but for a row that is just full
  (`Agree`); below and behind its cursor a terminal that is written to is blank
  (`Trail`), so that a writing of the rest of the line, or an erasure and a writing of
  all of it, leaves what a fresh writing does; and a move by rows and a column from
  where the layout has the cursor arrives where the layout has the other place
  (`Screened`). A newline, a carriage return and a mark are only in a prompt or behind
  a character: `Straight` says of the prompt as a whole what `Agree` and `Trail` say of
  a writing character by character, and the line goes on from there (`Flat`). A key is
  a change of the line drawn in one of these ways. Of the
  history: a line that was left is in `histSave` while one browses (`Kept`).
- **FoldTheorems** is what those proofs have of induction. It is over a set of
  naturals or of sequences, not an operator, and a fold is by a step that is a constant
  of the module: `W == INSTANCE FoldTheorems WITH Step <- Write`. From there, a fold
  over what is appended (`FoldAppend`) and over two texts in a row (`FoldConcat`), and
  what every step keeps (`FoldKeeps`). The same way it has the sequences of sequences
  laid end to end (`FlattenAppend`, `FlattenConcat`).
- **FileProofs**, of `Persist`. A truthful snapshot, path by path: an entry in either snapshot
  is the signature of what the store has, or the sync has yet to come to the path, or
  the request that is on its way will make it so. `SyncIsComplete` and
  `MovedFilesAreKept` turn that round (`SyncInv`): while nothing disturbed the sync,
  a path behind it is in the store as it is in the filesystem, and one that is not
  yet seen and has the old signature was stored by an earlier sync. They assume
  `SizesTell \/ TimesTell`: the contents differ in size, or two writes in time. A
  signature has nothing else, and where neither tells two versions apart the sync
  does miss one; that is the hazard at `persist.go:168`.
  Of `Sed`: the types of a run (`RunInv`) are where its work is. That a branch goes to a
  command, or past the last one, is of the parser: a `}` that closes a block is found
  because the stack of open blocks ends empty (`BlockEnds`, over the fold `openBlocks`).
  What is queued ends in a newline (`Wholes`), and an output that is neither broken off
  nor failed ends in one too (`Closed`), so whatever is written begins after one
  (`Apart`); what is put at the end of an output is its suffix as long as nothing
  fails (`WriteAllIs`). In place: a file that the run has not come to is as it was, and
  has no result (`AsItWas`). Ranges: the reference `RangeOf` reads a whole file, the code
  keeps a flag and at most a number. The flag says that the range of the last line seen
  goes on (`GoesOn`), and then the range is near its end as the code will look for it
  (`Near`): a line number is ahead, a count is kept as its last line, and with `~N` the
  multiples since the range began are none. So what `selected` answers of the next line
  is what the reference says (`Selection`), and the lines applied to are counted one by
  one (`Counted`); a line is not yet counted while its command is to see it (`LinesSeen`).
  The recursive function `RangeOf` exists by induction over the lines (`BeganExists`).
  This is of one command out of p, P, =, a, i, r, c and d (`oneRange`): commands that
  read lines themselves, and the empty regex, are left to the other invocations.
- **PtyClientProofs**. A shell whose id the client was told is the latest one it was
  told (`Remembers`), because a session is announced once per connection, on one
  that the server answered, and by the shell that is then attached (`Announced`). The
  client has an id only if a connection opened, so the first wait is one second, and
  each wait is that of its attempt (`Backoff`). What wakes `readKeys` is behind every
  key that was there when the command returned (`WakeWaits`). Nothing is sent before
  the loop knows that the socket opened, and then the size is sent first (`Opening`).
  The filter is a fold over the keys, `Reference` speaks of the places of all of them:
  after each key the filter is in the middle of a line if that key says so (`Inside`),
  holds a `~` if the last key is one at the start of a line (`Holding`), and let through
  what the places say (`Knows`, by induction over the keys). A chunk later it goes on
  from there (`FilterMore`), so what was sent on a connection and what waits for it to
  open are, in a row, the reference of what was typed (`Arriving`).
- **NativeProofs**, of `PtyHandler`. While the client is there, all output is on its way
  (`emitted = shown + held + outBuf`) until the context is canceled, which happens
  only when the program is gone and nothing is left. It needs `~WriteFails`: if keys
  fail to be written after the program's end, the input goroutine may cancel first
  and the last output is lost.
  Of `Console`: the invariants are about the order of `interrupt` and the end of
  a line: a deadline without a line that is canceled is one that came late, and only
  the end of `Shell.Run` with an exit that was run sets `exited` or resets.
- **RemoteProofs**. A host that is accepted adds a line at the end of `known_hosts`, and
  no other step writes to it. What is held is known by where the command is: raw mode
  and the connection between the start and the return, the Wisp session, its
  goroutines and the alternate screen while `Run` is (`HoldsInv`). `HostVetted` needs
  that the lines loaded are all the file has for the marks that count (`Only`, whose
  values are found by a least counterexample), that the verdict is about those lines,
  and, as it speaks of what the person typed, where the line with the yes began and
  that what came after it was erased (`LineInv`, `Yes`). `KeysTold` is about folds
  over what was typed for a session (`Given`), and `KeysInv` says that what was taken
  for it is `Given` and the chunk that is held. What an escape makes of a key depends on
  its state alone (`Alike`, `FoldedAlike`), so over a chunk it does what the fold over all
  that was typed goes on with (`FoldConcat` of `FoldTheorems`); what that state
  says of the keys by their places, among them the `~` at a line's beginning, is
  `FoldedPlaced`, an induction over them. A session begins where a prompt's last key was
  taken (`Answered`). `NetInv` has the types of the datagrams. `ShowsNewest` needs
  what a diff is (`Honest`: it names two states of the server, their widths and
  whether it paints all), that diffs come in the order they were made (`InTurn`), that
  the newest state received is never thrown away (`Received`), that a state kept at
  the screen's width is the server's (`Pictured`), and that what is still to be drawn
  leads from what the terminal shows to what the screen takes it to show (`DrawnUp`).
  What `resize` forgot, and what was drawn over it without a repaint, is kept in
  `hist.forgot`: of such a state nothing is said (`Right`), and whatever is drawn on it
  later is of its kind. `hist.seen` is the size the client last looked at. So a width
  that comes back is covered as far as the code has it right.
- **PageProofs**, of `PageSpec`, which starts in any setup (`Confs`). What programs ask
  for is kept apart until they end, and so is the invariant `PageInv`, a conjunction in
  which each part is carried through all steps by itself. Placements: a mount is live
  just when a placement has it and no two have one, what is drawn is drawn for the
  screen that `reposition` saw last, and a placement is of the turn now, of a job or of
  what `~/.webshrc` left (`PlaceInv`). The page: what is kept to go back to is the host's
  (`DocInv`). Fonts: a size to go back to is the person's, or a zoom was passed over
  (`FontInv`). Pictures: one laid under an id
  is the id's own and known to it (`Fitting`), for every command of kitty's protocol,
  chunks and their keys included. Notes: the last of remote output is no newer than the
  last of all. The parts meet in `AtRest`, what the page is once `programEnded` is over,
  and in the queue: what is told to a program is of its turn because a placement is, and
  because who listens for files does so in this turn (or is `~/.webshrc`).
  Of `Exec`: `KeysReachChild` says nothing of the key that `feed` holds between
  its Read and its check, nor of when a child can still cost one. `Pending` puts the
  held key before the queued ones, `LostBound` says that a child which is still read
  for has cost none, `Waiting` in which order a child ends.

`LeastNat` in `PtyClientProofs` and `RemoteProofs` (a set of naturals has a least one, from the library's
`WFMin`) is what their proofs use in the place of induction.

Only model-checked:

- liveness, since fairness is out of the prover's reach: `SessionsReturn`, `KeepsUp`,
  `NoneIsStuck`, `CommandsReturn`, `TakenDown` of the placements, and the parts of
  `StopsWhenTold` that are not above;
- what is compared with a reference over all of an input (`InputExact`, `LinesRun`,
  `ScriptsRead`): each side is a fold or a recursive
  function over the text, and no proof by way of `FoldTheorems` was written for them;
- the two computations of `Shown` (`CellsFit`, `MirrorPlain`), of which one is recursive;
- `KnownIsTaken`, `GlobExact`, `ArgsMean` and `ConnectLine` of `ServerMeant`: what the
  order of the algorithms, the match of a pattern and the words of a line come to is an
  induction over them;

## Not modelled

The interpreter, the terminal emulator, the filesystem, IndexedDB, WebSocket, the
pty, the kernel's terminal and the ssh and mosh protocols are libraries or the
system: modelled as external, from how the code uses them. Left out:

- applets that are sequential functions of their input (`applets.go`, `applets2.go`,
  `awk.go`, `jq.go`), the editor and the pager, whose drawing is formatting;
- completion and the expansion of prompts; completion is an input of `LineEditor`;
- the applets of the browser, each of which awaits one promise;
- the options of sed, the encoders of the progressive protocol, the key bar, the
  accessibility marks, downloads and links: no state that a later step reads;
- demonstrations, checks of other terminals, and the servers of static pages.

The hazards in `PROJECT.json` with a note are real, and covered in part or not.

## Plan

Modelled: all that the tables above list. Next, in this order:

1. Proofs: the order in which `Ssh` tries its keys.
2. An abstract specification of stdin (keys in order, each to one reader) that
   `Exec`, `Ssh` and `Console` implement as `Session` does.
3. The pager and the editor, as readers of one input beside a resize.

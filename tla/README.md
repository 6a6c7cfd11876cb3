# Verification of Clausis

TLA+ modules that model the control logic of Clausis (the voice-operated assistant and its
installer, Python, `src/src/clausis/`), TLC configurations that model-check them on small
instances, and TLAPS proofs that carry the safety properties to every instance.  Every
definition is a translation of the source; the docs and tests are used only for the
statements about the program that some runs refute (see *Findings*).

Paths below are relative to the repository (`assistant.py` is `src/clausis/assistant.py`).

    tlc -workers 2 -config MCTrustedBroker.cfg MCTrustedBroker.tla    # one run
    tlapm TrustedBrokerProofs.tla                                     # one set of proofs

## 1. Inventory

How a spoken command travels: microphone → `speech` (record, recognise) → wake gate (`audio`)
→ dialog runtime (`runtime`) → `router` → session broker (`broker`, with the desktop adapter
`gnome_adapter`) → if the policy asks for it, the confirmation service on the system bus →
system broker → `audit`.  Online, `gpt_live` replaces everything before the session broker.
The installer side (`installer`, `hermes_setup`, `enrollment`, `finalize_install`,
`hermes_update`) runs once, as separate short processes around Calamares.

| Component | State it keeps | Operations | Talks to | What is hard | What makes it correct |
|---|---|---|---|---|---|
| Policy (`policy`, `models`) | the fixed allow-list | `evaluate` | both brokers, confirmation service | boundaries of risk, taint, reversibility | nothing above the allow-list's minimum runs unconfirmed |
| Brokers and confirmation (`broker`, `capabilities`, `confirmation`, `services`, `system_client`) | pending ceremonies, consumed tokens | `submit`, `ConfirmAndSubmit`, `begin/approve/deny`, `issue/verify`, execute, record | D-Bus, audit log, executor | overlapping ceremonies, expiry in a queue, crash of either service, failed audit write | an approved action runs once, as approved, in time; answers are true; every call is answered |
| Audit log (`audit`) | file, last digest | `append`, `verify`, start | system broker | torn writes, failed writes, restarts | what verifies is complete; damage does not spread backwards |
| Local voice loop (`assistant`, `audio`, `runtime`) | gate state and deadline, correction slot, `pending_text` | record, `ingest`, `handle_transcript`, announce, respond | router, broker, Hermes | two clocks, speech that takes time or fails | only addressed speech acts; stop is final; corrections are reachable and never late |
| Online session (`gpt_live`, part of `assistant.main`) | stop event, transport flag, queue, socket, stop marker | `run`, sender thread, capture callback, `request_local_stop`, reconnect, fallback | voice service, broker | four concurrent actors | a stop silences the microphone; a loss is noticed and is not a stop |
| Desktop adapter (`gnome_adapter`) | none of its own; it reads, changes and verifies foreign objects | 15 editing commands, 8 on caret and selection; commands that set controls (check boxes, tree items, radio buttons, lists, tabs, files, values, focus, window); commands that press one control (dialogs, numbered and named controls, menus, notifications, window and Shell actions) | accessibility bus | the application refuses, does less, does it late, or serves its user in between; finding and pressing are separate calls | a confirmed command did exactly what it names; a reported rollback is complete; nothing else is pressed |
| Hermes updater (`hermes_update`, end of `finalize_install`) | release directories, launcher link, install record | look up, fetch, sync, switch, record, fall back | package tools | failure or kill at every step, repeated runs | what is announced is installed; a complete release survives |
| Installer guard (`installer`, `trusted_audio`, `calamares_clausis.py`) | staged recovery key, bound disk | discard, inventory, stage, spoken ceremony | Calamares and its LUKS job | a kill in the ceremony, a changed disk, a retry in another mode | a volume gets only this attempt's approved key; whole-disk mode erases only the confirmed disk |
| Hermes and PIN configuration (`hermes_setup`, `enrollment`, `finalize_install`) | three configuration files, PIN verifier, staging directory | write, stage, copy | setup window, target root | failure between separate replacements | never half of one configuration and half of another |
| Setup window (`setup_app`) | form, consents, worker thread | spoken enrolment, save, close | configuration | the worker's late result against user input, a save that stops half way | a consent belongs to what is selected; what is installed is one whole save |
| Magnifier (`magnifier_filter`) | three settings of the desktop | read, write, roll back | session broker's executor | an error or the 15 second timeout between two channels | all channels are set or none |
| Router, speech, clipboard, Hermes client | little or none | pure matching; I/O with timeouts | — | — | — |
| CLI, health check, Orca, image build | none | one-shot | — | — | — |

`PROJECT.json` lists 40 hazards of this code, each at the line where it bites, with the
properties that would catch it going wrong.

## 2. Modules

| Module | Models | Run by | Proved in |
|---|---|---|---|
| `Policy` | `policy.evaluate`, `ActionRequest` | (part of TrustedBroker) | |
| `ConfirmedExecution` | abstract promise of the two brokers: a risky action runs once, approved and in time, a safe one once, or it is closed | refinement in `broker` | |
| `TrustedBroker` | session broker, confirmation service, system broker, audit append, crashes | `broker`, `broker_fails_closed`, `broker_provenance` through `MCTrustedBroker` | `TrustedBrokerProofs` |
| `AuditLog` | `AuditLog.append`, `verify`, `__init__`; torn writes | `audit`, `audit_own` | `AuditLogProofs` |
| `VoiceLoop` | local loop of `assistant.main`, `LocalActivationController`, `VoiceRuntime` | `voice` | `VoiceLoopProofs` |
| `GptLive` | `GptLiveSession.run` and the online part of `assistant.main` | `live`, `live_stop` | `GptLiveProofs` |
| `HermesUpdate` | `install_latest_stable` and the fallback of `finalize_install.main` | `install` through `MCInstallation`, `hermes_keeps` | `InstallationProofs` |
| `InstallGuard` | the guard process, Calamares' jobs around it, the patched LUKS job; also the abstract specification of an installation | refined by `Installation` | `InstallationProofs` |
| `SetupWindow` | the setup window in the live session and the eight files of a save | (part of the next one) | `InstallationProofs` |
| `Installation` | welcome script → setup window → Calamares with the guard → finalizer | `install` through `MCInstallation` | `InstallationProofs` |
| `TextField` | the focused field, finding words and lines, the user's typing | (part of the next three) | `TextLayoutProofs` |
| `TextLayout` | rows, columns, words: the terms the properties of the text commands are stated in | (part of the next two) | `TextLayoutProofs` |
| `TextEdit` | the editing commands of `PyAtSpiDesktop` | `desktop` through `MCDesktop`, `text_exactly` through `MCTextEdit` | `TextEditProofs` |
| `TextMarks` | its caret and selection commands | `desktop` | `DesktopProofs` |
| `Controls` | its commands that set controls and check them | `desktop` | `DesktopProofs` |
| `Decisions` | its commands that press one control | `desktop` | `DesktopProofs` |
| `Magnifier` | `clausis-magnifier-filter` | `desktop` | `DesktopProofs` |

### TrustedBroker
One action from the client's call to its answer.  `pc[c]` follows call `c` through the three
processes: `asked`/`collecting`/`approved` in the confirmation service, `queued`/`executing`/
`recording` in the system broker, `answered` on the way back.  `pending` is
`TrustedConfirmer._pending`, `consumed` is `CapabilityAuthority._consumed`; both are lost in a
crash.  `ConfirmBegin` is `ConfirmAndSubmit` up to the start of the worker thread (every
ceremony is awaited in a thread of its own, `services.py:132`, so ceremonies overlap),
`BrokerAdmit`/`BrokerRefuse` are the checks of `ActionBroker.submit`, `BrokerExecute` and
`BrokerRecord` its two last steps.  The system broker's `Submit` has no await in it: one call
at a time is past the checks (`Busy`).  A call that came through a client who no longer
listens keeps its first answer (`Answer`).

A client's message carries no token, an empty string, or a string that is no token (`carried`);
`Received` keeps the claimed origin as soon as there is any string, as `services.py:75` does.
What clients are told is what the code tells them: `ConfirmReturn`, `SessionRefuse` and, after a
crash of the confirmation service, `ConfirmCrash` turn an error into "denied", and only a client
that talks to a service itself sees a D-Bus error.  `lost` remembers the calls that a crash or a
failed audit write hit: `RefusalIsFinal` and `AnswerIsRecorded` name the ways a denial can be
untrue or unrecorded instead of excluding them.  An append has two ways to fail: an `OSError`,
which `Submit` lets through, and a text that UTF-8 cannot encode (`Marshals`), a `ValueError` that
`Submit` catches and answers with "denied", after execution too (`BrokerRecordRejects`).

Assumed: HMACs are perfect; only the confirmation service holds tokens, so no string a client
invents verifies; one ceremony issues at most one token.  The clock is the one both services
read.

### AuditLog
The file is the sequence of what appends left in it; a chunk is a whole line, a line without
its newline, a truncated one, one cut inside a UTF-8 sequence, or a line that
`str.splitlines()` breaks in two.  `Verify` and `TailLoads` are `verify()` and
`_load_tail_hash()`, where an exception counts as FALSE.  A failed write leaves nothing, part
or all of the text, and `_previous` unchanged; a crash does the same and loses `_previous`.
Not modelled: a loss of power that takes back data the operating system had accepted (the code
does not call fsync), and tampering.

### VoiceLoop
`phase` is where `main()` is; `gate`/`deadline` are the controller's, `runtime`/`slot` the
runtime's.  `Ingest` is one call of `ingest` with the synchronisation that follows it;
`Handle...` is `handle_transcript` with what `main()` does with the result.  An utterance is
what it means to gate and router.  Time passes only where the code waits: recording, speaking,
calling.

### GptLive
Four actors: the main thread in the receive loop, the thread that sends audio, PortAudio's
callback, and the user, who leaves a stop marker from another process.  The sender's test of the
stop event, its wait for a block and its send are separate steps, as are the look at the marker's
age and its removal, which may fail (`UnlinkFails`: the request is met again at the next poll).
`Update` is the first send of a session: it is outside the block that closes the socket, so a
failure there leaves the socket `"left"`, open until it is garbage collected.  A marker ages only
while the main thread waits for a broker call, the only thing it does that can take 120 seconds.

### HermesUpdate
`dir[t]` says what is in a release's directory: nothing, rubbish, something that passes the
code's test for an installed release but is not complete (`partial`), or a complete
environment.  Each command may fail, each write may raise, a run may be killed anywhere and a
later run meets what was left.

### InstallGuard, SetupWindow, Installation
`InstallGuard` follows one attempt to install through the jobs of Calamares' execution sequence
(`job`) and, inside the guard job, through `--guard-transaction` (`gpc`): discard what an
earlier run staged, look at the mode, bind the disk that lsblk reports, stage the key, have it
read back, ask for the phrase, announce, or end in the exception handler.  The guard may be
killed at every step (`timeout: 300`), each removal may fail and leave part of the file, a disk
may be exchanged or mounted until it is written, and after a failure or a restart of the live
system the installation may be tried again in another mode.  `Luks` is the patched job: it takes
whatever key it finds and removes it, without looking whether it could.  The recovery key of
attempt *n* is *n*.

`SetupWindow` has the form, the voice worker and its late result, and the save, which replaces
eight files one after another and may stop after any of them.  A file's content is the number of
the save that wrote it.

`Installation` composes the two as the live session does (Calamares starts when the window is
gone, whatever it saved) and adds the finalizer, which copies the staged files one by one,
installs the PIN and updates Hermes; each part may fail, and the finalizer may be run again.
`MCInstallation` puts the steps of `HermesUpdate` where `UpdateHermes` stands.

The `Partition` and later jobs belong to Calamares and are modelled by how the configuration
under `src/packaging/calamares` uses them: they succeed or fail.

### TextField, TextLayout, TextEdit, TextMarks
`TextField` is the field and what a command remembers of it; `TextEdit` and `TextMarks` each
add one command from its first read to its outcome, and `MCTextEdit` composes them: one command
of either kind on one field.  Between any two steps the user may type or delete; the
application may do all, less or nothing of a call and answer yes or no either way.

An edit goes `ReadMeta` (counts, caret, selection), `Scan` (one-character reads around the
caret), `Snapshot` (the field's content and the planned change), `Mutate`, `SetCaret`,
`Verify`, and if need be `Restore`, `Recheck`, `ReselectSpan` (the selection, made again last).
A caret or selection command goes `MarkMeta`,
`MarkScan`, `RemoveOld` (the selections in the way, one call each), `Add`, `MoveCaret`,
`MarkVerify`, and if need be `MarkRestore`, `Unselect`, `Reselect` (the old selections, one
call each), `Recaret`, `MarkRecheck`.

`TextLayout` has the terms in which the properties say what each command *means*: the list of
lines, rows and columns, the nearest word, word starts.  None of them refers to the offsets and
scans of the code.  `EditIsExact` and `MarkIsExact`, in the two modules, say in these terms what a
command that nobody interferes with makes of the field, and `UnchangedHadNothing`, in
`TextLayout`, when it may say that there was nothing to do.

Simplifications: the reads of one scan are one step; the role, privacy and size checks
(100 000 characters a field, 1000 a line, 256 a word, 64 selections) are one refusal
(`ReadFails`); selections are not empty.

### Controls, Decisions, Magnifier
`Controls` has the transactions whose outcome is a *state*: one specification for all of them,
because they share one form (read, act, check; if need be restore, put back, recheck) and differ
in what they may set out to reach (`Goals`), in what they can put back (`RollBack`) and in how
they read (`ByState`).  `ListChildren` is the two traversals of a container before an item of it
is selected: an error cuts the list off, a missing child shifts the indexes after it.  The
controls are a row of places, each on or off: one check box, the window's radio buttons, the items
of a container, the operable controls, the windows, the units of a value.  The application answers
yes or no and does anything to the row either way.  `getState().contains()` turns an error into
"no" (`_has_state`), so a place that is on may look off: `blind` remembers that it happened.
`touched` is any change by somebody else, an effect of the application that comes late included.

`Decisions` has the commands whose outcome is a *press* that cannot be undone.  They look for
the window and the control twice and compare before they press; a dialog or a notification must
afterwards be missing from an otherwise unchanged list.  Windows come, go and change their
controls between any two steps.  `stale` remembers a change after the last comparison, which no
look can exclude: the accessibility bus has no compare-and-press.

`Magnifier` is three channels, read, written and rolled back by one `gsettings` call each, and
the executor's kill.  What `gsettings` does is taken from how the script uses it.

`MCDesktop` runs one command of one kind at a time, as the session broker does.

## 3. Runs

| Run | Distinct states | Shows |
|---|---|---|
| `broker` | 266 132 | the safety properties of two concurrent calls, the refinement of `ConfirmedExecution`, and that every call is answered |
| `audit` | 40 159 | what verifies is complete, damage never reaches back |
| `voice` | 505 401 | addressed speech only, stop is final, corrections reachable |
| `live` | 15 037 | stop, silence, loss: three invariants and two leads-to properties |
| `install` | 1 404 476 | only approved recovery keys and disks, one whole configuration, true Hermes announcements, over kills, failures, retries and restarts |
| `desktop` | 3 534 430 | edits, caret moves, selections, settings and presses are exact, rollbacks complete, typing survives where a part of the field is edited |
| `broker_fails_closed`, `broker_provenance`, `audit_own`, `hermes_keeps`, `text_exactly`, `live_stop` | | counterexamples to statements of the repository, see *Findings* |

Bounds, and why they are enough:

- `broker`: two calls, because every interference in the services is between two calls (one
  queue place, one pending table, one set of consumed tokens); rows of the allow-list of each kind
  (safe, risky with argv, adapter only) and requests of each kind, one of which understates its
  risk, one of which expires and one of which cannot be recorded; one call's session has a voice
  PIN, the other's has none; a ceremony lives 2 ticks, a token 1, the clock goes to 2, so both
  expire before, at and after every step; one fault, a crash of either service or a failed audit
  write.  No symmetry, since the run checks liveness too.  The two runs that end in a
  counterexample have one call and a privileged, irreversible action.
- `audit`: five appends and three faults let two separate damages be followed by good entries.
- `voice`: wake window 5, correction window 6, grace 1, clock to 15: as in the code (25, 30, 5)
  the correction window is longer than the wake window and the clock outlasts two of them.
- `live`: a queue of 2 (one block being sent, more waiting), two sessions (a reconnection and
  its successor).
- `install`: two attempts (what one leaves, the next meets), two saves (a whole and a broken one
  in either order), three descriptions of two disks (one eligible, the same one mounted, another
  one), two cloud providers and an offline one (consent carries over between the first two).
  The Hermes update has two releases and four runs, so that an install, a damaged one, a later
  release and a return to the first can follow each other; it reads nothing of what was before
  it and is therefore followed step by step only in the plainest installation (`Plain`), while
  in all others it succeeds or fails in one step.
- `desktop`, text: all fields of up to three characters over a word character, a space and a line
  break, and four longer ones for tabs and empty middle lines; every caret; for edits every
  selection, for caret and selection commands no, one or two selections; one foreign change.  With
  two foreign changes a user may undo his own typing, and "what was typed is still there" is no
  longer the right demand: `EditsKeepTyping` is therefore about commands with at most one,
  whatever the bound of the instance, and so is its proof.
- `desktop`, controls: three places (a target, another one and a bystander) and a value of seven
  units with the increments 0 (none usable), 1 and 4 (which does not divide the range) and the
  percentages 0, 50 and 100; one foreign change.
- `desktop`, decisions: two windows, three controls, two changes (a swap and its reversal hide
  from two looks); the windows begin alike, since every other beginning is one change away.
- `desktop`, magnifier: three channels as in the code, two values, one foreign change.

Type invariants are proved and not run.

`CHECK_DEADLOCK FALSE` everywhere: each of these systems has a legitimate end (all calls done,
the loop ended, the bound on appends, sessions or runs reached).

Fairness.  `broker` assumes that the services keep taking steps for a call they hold and that
systemd starts them again (`Restart=on-failure` in both unit files).  A ceremony ends because
recordings and announcements are bounded.  Nothing is assumed of clients, of the clock or of
crashes.  `live` assumes that both threads are scheduled, that a callback that has begun ends, and
that what the main thread waits for returns (the socket has a timeout of one second, `ws.recv`;
the broker call is bounded), and, by strong fairness of `Unlink`, that the removal of the marker
from the user's own directory does not fail for ever.  Nothing is assumed of the user, the service
or the interrupt.  The other runs check safety only.

## 4. What is proved

Type correctness and the safety properties below are proved by TLAPS for every value of the
constants that satisfies the modules' named assumptions.  Each proof module defines an inductive
invariant (`IInv`, or a name of its own where a module has several), proves `Init => IInv` and
`IInv /\ [Next]_vars => IInv'` action by action, and derives the properties.

- **TrustedBrokerProofs**: `ApprovedOnce`, `OneExecutor`, `RunsAsApproved`, `RefusalIsFinal`,
  `AnswerIsRecorded`, `OneRecord`, `PendingIsLive` and that `TrustedBroker` implements
  `ConfirmedExecution`, for any calls, requests, token strings, policy table and lifetimes.  None of
  them is inductive alone: that a restarted broker which has forgotten the consumed tokens does not
  run an action twice holds because a call that has been admitted never returns to the queue, which
  `IInv` says by relating a call's place to its token, its runs and its answer.  That a client which
  was told "denied" had nothing executed unless its call is in `lost` needs what each place says of
  the answer given so far, as an answer may precede the end of the call by a crash.
- **AuditLogProofs**: `VerifiedIsComplete`, `GoodPrefix`, `CleanLogSurvives`.  `IInv` adds that
  what was acknowledged is in the file and that an undamaged file ends in the digest the
  running broker holds.
- **VoiceLoopProofs**: `UnaddressedNeverActs`, `StopIsHeeded`, `SlotIsGated`,
  `SlotStaysReachable`.  The heart is `WindowInv`: the gate's deadline stays
  within the longest window after the last accepted utterance *or* a correction is overdue.
  The second case is real (stray punctuation can push an expired deadline on), and it is
  harmless because an overdue correction swallows the next command.
- **GptLiveProofs**: `AtMostOneBlockAfterStop`, `SilentWhenOver`, `QuietEndIsRequested`.
  `OpenInv` says where microphone and socket may be open and that a socket which was left behind
  has no sender.
- **InstallationProofs**: `GuardTypeCorrect`; `InstallImplementsGuard`: with everything the
  setup window and the finalizer do, every step of an installation is a step of the guard's
  specification or leaves its variables alone.  So what is proved of `GuardSpec` alone holds of
  the installation: `LuksKeyIsApproved`, `EraseIsApproved`, `RefusalLeavesNoKey`.  `GuardIInv` adds
  what the staging file may hold at each step of the guard: after the first removal nothing but
  this attempt's key, or what a killed or failed removal left, which only a guard that goes on to
  "failed" can leave.  `ConsentIsCurrent` is inductive with the types.  `FinalizedIsWhole` needs
  (`WholeIInv`) that nothing is saved once Calamares runs, that the files of the last reported save
  are all that save's until another one begins, and that the finalizer's copies come from the same
  session.  Of `HermesUpdate`: `AnnouncedIsInstalled`, `ReadyReleasesSurvive`,
  `SwitchesToExecutable`; its `IInv` adds that whatever a run removes was not complete when the run
  began.
- **TextLayoutProofs** has no theorem of its own but the lemmas about texts on which the next two
  rest, for texts of any length.  The scans answer offsets in order (the smallest and the largest
  offset they ask for exist, as `<` is well-founded), and what they find is the row of the caret
  (`LineAroundIsLine`, `RowIsLine`) or the nearest word (`WordBeforeNearest`, `WordAfterNearest`).
  Rows are numbers of line breaks, so the lines of *a*, a line break and *b* are those of *a* and
  then those of *b* (`GlueLines`), and a block of whole lines can be replaced by a text with other
  lines while the lines around it, and every caret's row and column in them, stay
  (`BlockReplaced`).  Where one would use induction the proofs take a smallest counterexample.
- **TextEditProofs**, of `EditSpec`, for fields of any length and content, any dictated text, any
  padding and any behaviour of the application:
  - `EditTypeCorrect`: caret, selections and every offset a command plans with stay inside the
    field; each plan replaces or removes a stretch of the snapshot (`EditTypeInv`).
  - `RollbackRestores` needs that the remembered snapshot, caret and selection are what the field
    had, unless the user typed, and that before `ReselectSpan` the content and the caret are
    already those (`IInv`); what `addSelection` does to the caret after that is not compared by
    the code, and the property allows what it may do.
  - `EditIsExact` and `UnchangedHadNothing`: while nobody interferes, what a command has read, and
    then its plan, are functions of the field it began with, and a command that is done was seen to
    have reached the planned content (`ExactInv`).  What such a plan makes of the rows is then
    proved command by command: each is brought to the form "one line becomes one, one becomes two,
    two become one, two become two", between lines that stay.
  - `EditsKeepTyping`, of the commands that work with `deleteText` and `insertText`: the result is
    the change made to the content *with* the keystroke.  The snapshot has the keystroke, or not, or
    it is one character short, because the field grew at the caret after it was counted (`KeepInv`).
    Where it lacks the keystroke, a command that deletes sees a length it does not expect, and so
    does an insertion, unless the application left out as much as was typed; then the field is
    that of an insertion of all but the last character, which can be confirmed only if that
    character is the one that was typed (`ShortInsertion`, the second case of `MadeTo`).
- **DesktopProofs**: `MarkTypeCorrect`, that caret, selections and offsets stay inside the field,
  for `MarkSpec`.  `MarkIsExact` and `UnchangedHadNothing`, of the same: once a command has
  decided, the stretch it is to select and the caret it is to set are what its name means for the
  field it found (`Goal`), nothing until the verification changes them, and a command is done only
  if selection and caret were seen to agree with them (`MarkExactInv`).
  `MarkRollbackRestores`, for any number of selections, of `MarkSpec`: the
  invariant adds that a selecting command puts the caret back only when nothing is selected, as
  its rollback does not look at the selection after that.  `ControlIsExact` and
  `ControlRollbackRestores`, of `ControlSpec`, for rows of any width and values of any range: the
  invariant says that, unless a place was touched or unreadable, the command knows what it found
  and aims at one of its goals for that; `GoalsAreExact` then shows that each goal is what the
  command is named for, by lemmas on rounding to an increment and on going around the row.
  `DecisionIsExact`, of `DecisionSpec`, for any windows and controls: the labels of what was
  found last hold as long as nothing is `stale`.  `FilterIsWhole`, of `FilterSpec`, for any
  number of channels.

The compositions inherit these theorems.  `CompositionImplements`: a behaviour of `MCInstallation`
is one of `Installation` and one of `HermesUpdate`, so `InstallationKeepsPromises` follows for all
that `install` checks.  `DesktopKeepsPromises` states all that `desktop` checks, of `DesktopSpec`:
one command is under way, of the kind it began as, so its own invariant holds; the others are idle
and an idle command breaks no promise (`DesktopIInv`).

The assumptions are those named in the modules.  Of the text commands: what is dictated is made
of word characters and the padding of spaces; a field holds nothing but characters, and the value
that stands for "none" is no offset, no pair of offsets and no outcome.

Only model-checked: the liveness properties (`EveryCallAnswered`, `LocalStopIsHeeded`,
`LossIsNoticed`), which are out of the prover's reach.

## 5. Findings

Each is a run that ends in a counterexample.

- **`broker_fails_closed`**: the action is executed before its audit entry is appended; if the
  append fails, the broker dies in between or the confirmation service dies meanwhile (the trace of
  the run), the client is told that the request was denied.
- **`broker_provenance`**: `Submit` replaces a claimed origin only when `capability_token` is null;
  with any other string a request that is safe under its claimed origin is executed under it, and
  the string is never looked at, while the comment above says that an unconfirmed caller cannot
  claim local provenance.  `TakenAtItsWord` is this case in the other properties; a risky action
  never runs this way, as `ImplementsConfirmedExecution` shows.
- **`audit_own`**: an entry with U+0085, U+2028 or U+2029 is written raw and split by
  `verify()`, so an untouched log does not verify and the broker does not start again.
- **`hermes_keeps`**: if the install record cannot be written, the cleanup deletes the release
  the launcher has just been switched to, and "the bundled version is retained" is announced.
- **`text_exactly`**: the user types at the caret while the word is looked for; the snapshot has the
  length counted before, so the end of the field is missing in it and in what is written back, and
  the word replacement is confirmed.
- **`live_stop`**: after a stop was honoured, a send that fails because the socket is being
  closed makes `run()` raise as if the connection were lost, and `main()` connects again or goes
  on locally.

Observed while modelling, without a run of their own:

- A confirmed desktop action reaches the system broker, which has only `SafeExecutor`
  (`services.py:62`), and answers "failed"; `README.md:195` describes these actions as working
  after confirmation.
- If the announcement of a stop phrase fails (`assistant.py:183`), the runtime does not handle
  the stop: the loop goes on recording behind a gate that lets only another stop phrase in
  (`audio.py:121`).
- A gate kept open for a correction stays open after the correction is cancelled, up to 35
  seconds instead of the 25 of `THREAT_MODEL.md:51`.
- `--text` with a sleep phrase or punctuation falls through into a recording with the gate
  bypassed.
- The commands that write the whole field (`replace_selection`, `replace_word`, `move_line`,
  `replace_line`, `insert_line`, `duplicate_line`, `set_text`) overwrite what the user types between
  their snapshot and `setTextContents`, and confirm the result; moving a line may also drop or
  double it.  `EditsKeepTyping` is about the other commands, by name (`ByPart`).
- The rollbacks of `delete_selection` and `replace_selection` compare the caret before they make the
  selection again and not afterwards (`gnome_adapter.py:748`, `1594`), so the caret may be at the
  selection's end after a rollback that reports success.
- A release directory that passes the installed test but was left incomplete by a kill is
  linked by the next run: `SwitchesToExecutable` promises an executable, not a complete
  environment.
- A stop marker left before the start ends the next session at once; a new marker that replaces
  the one just looked at is removed with it, unseen: of no consequence if that one was fresh, a
  request lost if it was too old.  A marker that ages while the broker works is removed unheeded.
  `LocalStopIsHeeded` names these two cases.
- The rollback of `move_focused_text_caret` restores the caret only: a selection that the
  application dropped when the caret moved stays dropped, and those of `select_all` and
  `clear_selection` leave the caret where the application put it.  `MarkRollbackRestores` claims
  no more.
- A caret or selection command that found nothing to do is announced like one that did it: at the
  end of a field `caret_next_word` reports the start of the next word (`gnome_adapter.py:4886`).
- If the user types between the scan and `addSelection`, the confirmed selection has the scanned
  offsets, not the scanned word; `MarkIsExact` is about undisturbed commands.

Of the installation:

- The inventory is taken before the ceremony, which lasts minutes, and is not repeated after it,
  while `THREAT_MODEL.md:47` asks for it "immediately before" the write.  `EraseIsApproved`
  claims the bound disk only if it was not exchanged since.
- Mode "other" with encryption always fails in the LUKS job, as no key is staged for it, and
  only after the disk was written.
- A key stays staged (in memory) when a job after the guard fails; the next guard removes it.
- `ready.json` is written and never read: a staging that stopped half way is copied as it is.
  `FinalizedIsWhole` is therefore about sessions whose last save was reported as saved.
- A save that fails after `config.yaml`, or a window closed unsaved, gives an installation
  without a PIN or with a mixture; the finalizer does not notice.
- A consent, and a key that was typed, carry over from one cloud provider to another one
  (`setup_app.py:374`).
- A second click on "save" within the 1.2 seconds before the window closes finds the secrets
  cleared and says that nothing was saved; a spoken PIN of a wrong length blocks a typed one.

Of the desktop:

- In a window with two radio groups that both have a checked button every radio command is
  refused; if only one has, checking a button of the other cannot be confirmed and is rolled back.
- Where a state could not be read (`blind`), a success may leave another radio button checked and
  a rollback one that was hidden; what then still holds is in `ControlIsExact` and
  `ControlRollbackRestores`.  In a container with a missing child the item after the named one may
  be selected, and confirmed: its index was taken from a list with the gap closed.
- A list that refuses `clearSelection` before anything was changed is reported as one that could
  not be put back.
- `_active_window` accepts frames, dialogs and windows, so an active alert or file chooser, which
  the decision commands know by role, is never reached.
- A named control that changes its label between the first look and the press is pressed under the
  old one: before it presses, `activate_named` checks that it is the same object, not that
  its name is unchanged: `DecisionIsExact` claims the label from the first look on.
- A magnifier command that is killed by the timeout, or ends in an `OSError`, leaves some channels
  set: only a `CalledProcessError` starts the rollback, and the rollback ignores its own errors.

## 6. Not modelled, and why

- The router's grammar, the argument validators and the provider configuration's syntax are
  pure functions, well covered by unit tests; the models see their classes of results.
- The energy threshold of the recorder, the local abort phrase, audio coding, formatting and
  logging are data without influence on the control modelled here.
- The desktop commands that only read and announce, the clipboard commands and the file name
  field of a dialog (a text field without the scan of `TextEdit`).
- The setup window's mode for an installed system: one form, one save of three files, no PIN.
- `ready.json`'s content and the two other modes of the guard script, which only read and print.
- CLI, health check, Orca control and the image build: one-shot commands without state.

## 7. Plan

Done, in this order: `TrustedBroker` with `Policy` and `ConfirmedExecution`; `AuditLog`;
`VoiceLoop`; `HermesUpdate`; `TextField`, `TextEdit`, `TextMarks`; `GptLive`; `InstallGuard`,
`SetupWindow`, `Installation`; `Controls`; `Decisions`; `Magnifier`; each with its safety
properties proved.

Left, by importance:

1. That `AuditLog` under a broker implements the append-only log `TrustedBroker` takes it for.
2. The setup window in an installed system, beside a running assistant that reads the same files.
3. The file name field and the clipboard commands.

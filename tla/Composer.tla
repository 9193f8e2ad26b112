------------------------------- MODULE Composer -------------------------------
(***************************************************************************)
(* The editor of the terminal interface and the menus that cover it.       *)
(*                                                                         *)
(*   pepsicode/tui/app.py              _handle_event, _handle_normal_mode_ *)
(*     event, _handle_input, the handlers of the pickers and of the        *)
(*     selection, _history_up, _history_down, _collect_agent_result        *)
(*   pepsicode/tui/provider_wizard.py  wizard_event                        *)
(*   pepsicode/tui/settings_picker.py, command_picker.py                   *)
(*   pepsicode/llm/provider_setup.py   validate_, probe_, save_            *)
(*                                                                         *)
(* One thread handles the events; each is one action, the turn it may      *)
(* start runs beside it.  A text is a sequence of pieces: a plain one, or  *)
(* a word of a command.  Terminal has what the two threads share.          *)
(***************************************************************************)
EXTENDS Naturals, SequencesExt

CONSTANTS
  Symbols,    \* pieces that are typed and pasted
  Palette,    \* commands in the order of the list under the editor
  Menus,      \* texts that open a list of commands, with its options
  Offered,    \* options of a list of settings, the last being the special one
  MaxLen,     \* bound: pieces typed into one text
  MaxPast,    \* bound: texts in the history
  MaxImages,  \* bound: images attached at one time
  MaxRows,    \* bound: sessions that can be resumed
  MaxTurns,   \* bound: turns and shortcuts
  MaxQueued,  \* bound: inputs queued for a turn
  Mouse       \* bound: the mouse and Ctrl-C are used

ComposerAssumption ==
  /\ {MaxLen, MaxPast, MaxImages, MaxRows, MaxTurns, MaxQueued} \subseteq Nat
  /\ Offered \in Nat \ {0} /\ Mouse \in BOOLEAN
  /\ "key" \notin Symbols

VARIABLES
  input, cursor,          \* state.input, state.cursor_offset
  history, index, saved,  \* state.history, history_index, history_draft
  highlighted,            \* state.selected_slash_index
  images,                 \* state.pending_images
  approval,               \* pending_approval: "none", "choice" or "feedback"
  rows, row,              \* resume_picker_sessions, 0 for None; and its index
  wizard,                 \* state.provider_wizard
  picker,                 \* state.command_picker
  settings,               \* state.settings_picker
  worker,                 \* the thread of a turn: "off", "run" or "ended"
  done,                   \* agent_result["done"]
  open,                   \* the queue of inputs takes some
  queue, returned,        \* what it holds, and state.returned_inputs
  followup,               \* a plan was approved
  turns,                  \* turns so far
  selection,              \* of the screen: "none", "pressed", "dragged" or "made"
  asked,                  \* state.exit_requested_at is set
  off                     \* should_exit

line     == <<input, cursor>>
recalled == <<history, index, saved>>
menus    == <<rows, row, wizard, picker, settings>>
turn     == <<worker, open, turns>>
mouse    == <<selection, asked>>
vars     == <<line, recalled, highlighted, images, approval, menus, turn, done, queue, returned,
              followup, mouse, off>>

Busy == worker # "off"
NoWizard   == [step |-> 0, draft |-> {}, text |-> <<>>, candidate |-> "none"]
NoPicker   == [of |-> <<>>, at |-> 0]
NoSettings == [kind |-> "none", at |-> 0, back |-> <<>>]

Init ==
  /\ input = <<>> /\ cursor = 0 /\ history = <<>> /\ index = 0 /\ saved = <<>>
  /\ highlighted = 0 /\ images = 0 /\ approval = "none" /\ rows = 0 /\ row = 0
  /\ wizard = NoWizard /\ picker = NoPicker /\ settings = NoSettings
  /\ worker = "off" /\ done = FALSE /\ open = FALSE /\ queue = <<>> /\ returned = <<>>
  /\ followup = FALSE /\ turns = 0 /\ selection = "none" /\ asked = FALSE /\ off = FALSE

--------------------------------------------------------------------------------
(* Where an event goes, and what is drawn over the editor.                     *)

Route ==
  IF approval # "none" THEN "approval" ELSE IF rows > 0 THEN "resume"
  ELSE IF wizard # NoWizard THEN "wizard" ELSE IF picker # NoPicker THEN "command"
  ELSE IF settings # NoSettings THEN "settings" ELSE "editor"

Drawn ==
  IF wizard # NoWizard THEN "wizard" ELSE IF picker # NoPicker THEN "command"
  ELSE IF settings # NoSettings THEN "settings" ELSE IF rows > 0 THEN "resume"
  ELSE IF approval # "none" THEN "approval" ELSE "editor"

(* An event other than Ctrl-C ends a selection and the wish to exit.           *)
Event == ~off /\ selection' = "none" /\ asked' = FALSE
At(place) == Event /\ Route = place
InEditor == At("editor") /\ UNCHANGED <<approval, menus, turn, done, followup, off>>

Insert(text, at, piece) == SubSeq(text, 1, at) \o <<piece>> \o SubSeq(text, at + 1, Len(text))
Without(text, at) == SubSeq(text, 1, at - 1) \o SubSeq(text, at + 1, Len(text))
Shows(text) == input' = text /\ cursor' = Len(text)
Clamped(i, n) == IF i < 0 THEN 0 ELSE IF i >= n THEN n - 1 ELSE i
IsCommand(text) == text # <<>> /\ (text[1] = "/" \/ text[1] \in ToSet(Palette))

(* _get_visible_commands: all of them, or the one that is written.             *)
Visible ==
  IF input = <<"/">> THEN Palette ELSE IF Len(input) = 1 /\ IsCommand(input) THEN input ELSE <<>>

(* picker_commands: what Return takes from the list as it is.                  *)
Opening == {"/model", "/provider", "/permissions", "/tree", "/resume", "/worktree"}

--------------------------------------------------------------------------------
(* _handle_input, while no turn runs: the text, what is in the editor besides, *)
(* and the picker and the settings that are open.                              *)

(* _collect_agent_result puts the returned inputs before the draft.            *)
Leaves(base, at) ==
  IF done /\ returned # <<>> THEN Shows(returned \o base) ELSE input' = base /\ cursor' = at
Same(pick, set) == picker' = pick /\ settings' = set /\ UNCHANGED <<wizard, rows, row>>

Remembers(text) ==
  /\ IF history # <<>> /\ Last(history) = text THEN UNCHANGED history
     ELSE Len(history) < MaxPast /\ history' = Append(history, text)
  /\ index' = Len(history')

(* create_provider_wizard: a new one begins with its name, a preset with the   *)
(* key.                                                                        *)
CustomWizard == [NoWizard EXCEPT !.step = 1, !.draft = {2, 3}]
PresetWizard == [NoWizard EXCEPT !.step = 4, !.draft = {1, 2, 3}]

OpensWizard(form) == Shows(<<>>) /\ wizard' = form /\ UNCHANGED <<rows, row, images, turn>>
OpensSettings(kind, back, pick) ==
  /\ Shows(<<>>) /\ settings' = [kind |-> kind, at |-> 0, back |-> back] /\ picker' = pick
  /\ UNCHANGED <<wizard, rows, row, images, turn>>
Restores(draft, pick, set) ==
  /\ Shows(draft) /\ rows' = 0 /\ row' = 0 /\ picker' = pick /\ settings' = set
  /\ UNCHANGED <<wizard, images, turn>>

(* /tree and /fork are not remembered.                                         *)
Tree(text, base, at, pick, set) ==
  /\ UNCHANGED <<recalled, off>>
  /\ \/ /\ text = <<"/tree">> /\ picker' = [of |-> text, at |-> 0] /\ settings' = set
        /\ Leaves(base, at) /\ UNCHANGED <<wizard, rows, row, images, turn>>
     \/ Len(text) > 1 /\ Leaves(base, at) /\ Same(pick, set) /\ UNCHANGED <<images, turn>>
     \/ Len(text) = 2 /\ \E draft \in {<<>>, <<"again">>} : Restores(draft, pick, set)

(* A command is refused, by its permission or because of the images; or it     *)
(* opens a menu, resumes a session, runs a tool or says something.             *)
Command(text, base, at, pick, set) ==
  \/ Leaves(base, at) /\ Same(pick, set) /\ UNCHANGED <<images, turn>>
  \/ /\ images = 0
     /\ \/ /\ text = <<"/provider", "add">> /\ OpensWizard(CustomWizard)
           /\ settings' = NoSettings /\ picker' = pick
        \/ /\ text[1] = "/provider" /\ Len(text) = 2 /\ text[2] # "add"
           /\ \/ OpensWizard(PresetWizard) /\ settings' = set /\ picker' = pick
              \/ OpensSettings("model", <<>>, pick)
        \/ text = <<"/model">> /\ OpensSettings("model", <<>>, pick)
        \/ text = <<"/provider">> /\ OpensSettings("provider", <<>>, pick)
        \/ text = <<"/permissions">> /\ OpensSettings("permissions", <<>>, pick)
        \/ /\ text \in DOMAIN Menus /\ picker' = [of |-> text, at |-> 0] /\ settings' = set
           /\ Leaves(base, at) /\ UNCHANGED <<wizard, rows, row, images, turn>>
        \/ /\ text = <<"/resume">> /\ Shows(<<>>) /\ rows' \in 1..MaxRows /\ row' = 0
           /\ picker' = pick /\ settings' = set /\ UNCHANGED <<wizard, images, turn>>
        \/ text[1] = "/resume" /\ Len(text) = 2 /\ Restores(<<>>, pick, set)
        \/ /\ text[1] = "/" /\ turns < MaxTurns /\ turns' = turns + 1 /\ worker' = "run" /\ open' = FALSE
           /\ Leaves(base, at) /\ Same(pick, set) /\ UNCHANGED images

(* A message starts a turn with its images, unless the model takes none, or    *)
(* has to be chosen first.                                                     *)
Message(text, base, at, pick, set) ==
  \/ Leaves(base, at) /\ Same(pick, set) /\ UNCHANGED <<images, turn>>
  \/ OpensSettings("model", text, pick)
  \/ /\ turns < MaxTurns /\ turns' = turns + 1 /\ worker' = "run" /\ open' = TRUE
     /\ images' = 0 /\ Leaves(base, at) /\ Same(pick, set)

HandleInput(given, base, at, pick, set) ==
  /\ done' = FALSE /\ returned' = (IF done THEN <<>> ELSE returned)
  /\ UNCHANGED <<approval, queue>>
  /\ LET text == IF given = <<>> /\ images > 0 THEN <<"describe">> ELSE given IN
     \/ /\ text = <<>> \/ text = <<"/exit">>
        /\ off' = (text # <<>>) /\ Leaves(base, at) /\ Same(pick, set)
        /\ UNCHANGED <<recalled, images, turn>>
     \/ text # <<>> /\ text[1] = "/tree" /\ Tree(text, base, at, pick, set)
     \/ /\ IsCommand(text) /\ text[1] \notin {"/tree", "/exit"} /\ Remembers(text) /\ saved' = <<>>
        /\ Command(text, base, at, pick, set) /\ UNCHANGED off
     \/ /\ text # <<>> /\ ~IsCommand(text) /\ Remembers(text) /\ saved' = <<>>
        /\ Message(text, base, at, pick, set) /\ UNCHANGED off

--------------------------------------------------------------------------------
(* The editor.                                                                 *)

(* Return while a turn runs: the text is queued, or stays where it is.         *)
Enqueue ==
  /\ InEditor /\ Busy
  /\ \/ /\ open /\ input # <<>> /\ Len(input) <= MaxLen /\ Len(queue) < MaxQueued
        /\ queue' = Append(queue, input)
        /\ Shows(<<>>) /\ Remembers(input) /\ UNCHANGED saved
     \/ UNCHANGED <<line, recalled, queue>>
  /\ UNCHANGED <<highlighted, images, returned>>

(* Return while none runs: the highlighted command is completed, or submitted  *)
(* when it is written or opens something; else what is written.                *)
Submitted == IF highlighted < Len(Visible) THEN <<Visible[highlighted + 1]>> ELSE input
Completes == Submitted # input /\ Submitted[1] \notin Opening

Return ==
  /\ At("editor") /\ ~Busy /\ ~Completes /\ highlighted' = 0
  /\ HandleInput(Submitted, <<>>, 0, picker, settings) /\ UNCHANGED followup

(* Return, Tab or a digit completes a command.                                 *)
Complete ==
  /\ InEditor /\ Visible # <<>> /\ highlighted' = 0
  /\ \/ ~Busy /\ Completes /\ Shows(Submitted)
     \/ \E i \in DOMAIN Visible : Shows(<<Visible[i]>>)
  /\ UNCHANGED <<recalled, images, queue, returned>>

(* Text; more than one piece comes as a paste, which changes neither the list  *)
(* of commands nor the place in the history.                                   *)
Type ==
  /\ InEditor /\ Len(input) < MaxLen
  /\ \E piece \in (IF Drawn = "wizard" THEN {"key"} ELSE Symbols) :
       input' = Insert(input, cursor, piece) /\ cursor' = cursor + 1
  /\ \/ highlighted' = 0 /\ index' = Len(history)
     \/ UNCHANGED <<highlighted, index>>
  /\ UNCHANGED <<history, saved, images, queue, returned>>

Erase ==
  /\ InEditor /\ highlighted' = 0
  /\ \/ cursor > 0 /\ input' = Without(input, cursor) /\ cursor' = cursor - 1
     \/ cursor < Len(input) /\ input' = Without(input, cursor + 1) /\ UNCHANGED cursor
     \/ Shows(<<>>)
  /\ UNCHANGED <<recalled, images, queue, returned>>

(* Escape clears the images too.                                               *)
Discard ==
  /\ InEditor /\ Shows(<<>>) /\ images' = 0 /\ highlighted' = 0
  /\ UNCHANGED <<recalled, queue, returned>>

Move ==
  /\ InEditor /\ UNCHANGED input
  /\ cursor' \in {0, Len(input), IF cursor > 0 THEN cursor - 1 ELSE 0,
                  IF cursor < Len(input) THEN cursor + 1 ELSE cursor}
  /\ UNCHANGED <<recalled, highlighted, images, queue, returned>>

(* Up and Down in the list of commands.                                        *)
Highlight ==
  /\ InEditor /\ Visible # <<>>
  /\ \E delta \in {1, Len(Visible) - 1} : highlighted' = (highlighted + delta) % Len(Visible)
  /\ UNCHANGED <<line, recalled, images, queue, returned>>

(* _history_up and _history_down.                                              *)
Recall ==
  /\ InEditor
  /\ \/ /\ index > 0 /\ index' = index - 1 /\ Shows(history[index])
        /\ saved' = IF index = Len(history) THEN input ELSE saved
     \/ /\ index < Len(history) /\ index' = index + 1 /\ UNCHANGED saved
        /\ Shows(IF index' = Len(history) THEN saved ELSE history[index' + 1])
  /\ UNCHANGED <<history, highlighted, images, queue, returned>>

(* An image is attached from the clipboard, or by pasting its path, which a    *)
(* running turn does not prevent.                                              *)
Attach ==
  /\ InEditor /\ images < MaxImages /\ images' = images + 1
  /\ UNCHANGED <<line, recalled, highlighted, queue, returned>>

(* Ctrl-G, and a backspace at the left end.                                    *)
Detach ==
  /\ InEditor /\ images > 0 /\ images' = images - 1
  /\ UNCHANGED <<line, recalled, highlighted, queue, returned>>

(* Alt-Up: the last queued input comes back, with what was returned.           *)
TakeBack ==
  /\ InEditor /\ queue # <<>> /\ queue' = Front(queue)
  /\ Shows(returned \o Last(queue) \o input) /\ returned' = <<>>
  /\ UNCHANGED <<recalled, highlighted, images>>

--------------------------------------------------------------------------------
(* The menus.                                                                  *)

InMenu(place) ==
  At(place) /\ UNCHANGED <<recalled, highlighted, images, approval, turn, done, queue, returned, followup, off>>

(* wizard_event.  The steps are name, baseUrl, authType, apiKey, modelsUrl,    *)
(* model and review; what is typed into them is the key, whatever else it is.  *)
Moved(form, step) ==
  [form EXCEPT !.step = step, !.text = IF step \in form.draft \ {3, 7} THEN <<"key">> ELSE <<>>]

(* A value may be given again as it was.                                       *)
Given(form) ==
  {[form EXCEPT !.draft = @ \cup {form.step}, !.candidate = verdict] :
     verdict \in (IF form.step \in form.draft THEN {form.candidate} ELSE {})
                 \cup {IF form.candidate = "fresh" /\ form.step < 6 THEN "stale" ELSE form.candidate}}

Probed(form) == Moved([form EXCEPT !.candidate = "fresh"], 6)

(* validate_setup_field: only the address of the list of models may be left    *)
(* out.                                                                        *)
Valid(form) == form.text # <<>> \/ form.step \in {3, 5, 6}

WizardReturn ==
  /\ InMenu("wizard") /\ UNCHANGED <<line, rows, row, picker, settings>>
  /\ \/ wizard.step \in {1, 2, 3, 4, 6} /\ Valid(wizard)
          /\ \E form \in Given(wizard) : wizard' = Moved(form, wizard.step + 1)
     \/ wizard.step = 5 /\ \E form \in Given(wizard) : wizard' \in {form, Probed(form)}
     \/ wizard.step = 7 /\ wizard.candidate = "fresh" /\ wizard' = NoWizard

WizardEdit ==
  /\ InMenu("wizard") /\ UNCHANGED <<line, rows, row, picker, settings>>
  /\ \/ wizard' = NoWizard
     \/ wizard.step > 1 /\ wizard' = Moved(wizard, wizard.step - 1)
     \/ wizard.step \notin {3, 7} /\ wizard' \in {[wizard EXCEPT !.text = <<"key">>], [wizard EXCEPT !.text = <<>>]}

(* _handle_settings_picker_event.                                              *)
SettingsMove ==
  /\ InMenu("settings") /\ UNCHANGED <<wizard, rows, row, picker>>
  /\ \/ /\ \E delta \in {0, 1, Offered - 1} : settings' = [settings EXCEPT !.at = (@ + delta) % Offered]
        /\ UNCHANGED line
     \/ settings.kind # "permissions" /\ settings' = [settings EXCEPT !.at = 0] /\ UNCHANGED line
     \/ /\ settings' = NoSettings
        /\ IF settings.kind = "permissions" THEN UNCHANGED line ELSE Shows(settings.back)

SettingsReturn ==
  /\ InMenu("settings") /\ UNCHANGED <<rows, row, picker>>
  /\ LET special == settings.at = Offered - 1 IN
     \/ /\ settings.kind = "permissions" /\ ~special /\ settings' = NoSettings
        /\ UNCHANGED <<line, wizard>>
     \/ /\ settings.kind = "provider" /\ special /\ wizard' = CustomWizard /\ settings' = NoSettings
        /\ UNCHANGED line
     \/ /\ settings.kind = "provider" /\ ~special /\ UNCHANGED line
        /\ \/ settings' = [settings EXCEPT !.kind = "model", !.at = 0] /\ UNCHANGED wizard
           \/ settings' = NoSettings /\ wizard' = PresetWizard
     \/ /\ settings.kind = "model" /\ settings' = NoSettings
        /\ Shows(settings.back) /\ UNCHANGED wizard

SettingsDefault ==
  /\ At("settings") /\ settings.kind = "permissions" /\ settings.at = Offered - 1
  /\ HandleInput(<<"/permissions", "default">>, input, cursor, picker, NoSettings)
  /\ UNCHANGED <<highlighted, followup>>

(* _handle_command_picker_event.                                               *)
Options == Menus[picker.of]

PickerMove ==
  /\ InMenu("command") /\ UNCHANGED <<wizard, rows, row, settings>>
  /\ \/ /\ Options # <<>> /\ UNCHANGED line
        /\ \E delta \in {1, 8} :
             picker' \in {[picker EXCEPT !.at = IF @ > delta THEN @ - delta ELSE 0],
                          [picker EXCEPT !.at = Clamped(@ + delta, Len(Options))]}
     \/ picker' = NoPicker /\ UNCHANGED line
     \/ /\ Options # <<>> /\ Options[picker.at + 1].draft /\ picker' = NoPicker
        /\ Shows(Options[picker.at + 1].text)

PickerReturn ==
  /\ At("command") /\ Options # <<>> /\ ~Options[picker.at + 1].draft
  /\ HandleInput(Options[picker.at + 1].text, input, cursor, NoPicker, settings)
  /\ UNCHANGED <<highlighted, followup>>

(* _handle_resume_picker_event: a session is resumed, or is gone; or it is     *)
(* deleted, and the others are read again.                                     *)
ResumeMove ==
  /\ InMenu("resume") /\ UNCHANGED <<wizard, picker, settings>>
  /\ \/ rows' = 0 /\ row' = 0 /\ UNCHANGED line
     \/ /\ UNCHANGED <<rows, line>>
        /\ \E delta \in {1, 8} : row' \in {IF row > delta THEN row - delta ELSE 0, Clamped(row + delta, rows)}
     \/ rows' = 0 /\ row' = 0 /\ Shows(<<>>)
     \/ /\ rows' \in 0..MaxRows /\ UNCHANGED line
        /\ row' = IF row < rows' THEN row ELSE IF rows' = 0 THEN 0 ELSE rows' - 1

(* _handle_pending_approval_event: an answer, or the feedback to one.          *)
Approve ==
  /\ At("approval") /\ approval' \in {"none", "choice", "feedback"}
  /\ UNCHANGED <<line, recalled, highlighted, images, menus, turn, done, queue, returned, followup, off>>

--------------------------------------------------------------------------------
(* The mouse, and Ctrl-C.                                                      *)

Select ==
  /\ Mouse /\ ~off /\ asked' = FALSE
  /\ \/ selection' = "pressed"
     \/ selection \in {"pressed", "dragged"} /\ selection' = "dragged"
     \/ selection = "pressed" /\ selection' = "none"
     \/ selection = "dragged" /\ selection' = "made"
  /\ UNCHANGED <<line, recalled, highlighted, images, approval, menus, turn, done, queue, returned, followup, off>>

(* It copies a selection; stops the turn that runs; and, a second time within  *)
(* two seconds, exits.                                                         *)
Interrupt ==
  /\ Mouse /\ ~off
  /\ IF selection \in {"dragged", "made"}
       THEN selection' = "made" /\ asked' = FALSE /\ UNCHANGED off
       ELSE /\ selection' = "none"
            /\ \/ Busy /\ asked' = FALSE /\ UNCHANGED off
               \/ ~Busy /\ asked' = TRUE /\ UNCHANGED off
               \/ ~Busy /\ asked /\ off' = TRUE /\ UNCHANGED asked
  /\ UNCHANGED <<line, recalled, highlighted, images, approval, menus, turn, done, queue, returned, followup>>

--------------------------------------------------------------------------------
(* The loop, and the thread of the turn.                                       *)

(* What a turn left is collected, and the follow-up of a plan submitted.       *)
Collect ==
  /\ ~off /\ done /\ followup' = FALSE /\ UNCHANGED <<mouse, highlighted>>
  /\ IF followup /\ ~Busy
       THEN HandleInput(<<"go">>, input, cursor, picker, settings)
       ELSE /\ done' = FALSE /\ returned' = <<>> /\ Leaves(input, cursor)
            /\ UNCHANGED <<recalled, images, approval, menus, turn, queue, off>>

Run == ~off /\ worker = "run" /\ UNCHANGED <<line, recalled, highlighted, images, menus, turns, mouse, off>>

Ask ==
  /\ Run /\ approval' = (IF approval = "none" THEN "choice" ELSE "none")
  /\ UNCHANGED <<worker, open, done, queue, returned, followup>>
Deliver ==
  /\ Run /\ queue # <<>> /\ queue' = <<>>
  /\ UNCHANGED <<worker, open, approval, done, returned, followup>>

(* The queue gives back what it holds; only then is the turn done, and not     *)
(* busy.                                                                       *)
End ==
  /\ Run /\ approval = "none" /\ worker' = "ended" /\ done' = TRUE
  /\ open' = FALSE /\ queue' = <<>> /\ returned' = returned \o FlattenSeq(queue)
  /\ followup' \in (IF open THEN {followup, TRUE} ELSE {followup}) /\ UNCHANGED approval
Free ==
  /\ ~off /\ worker = "ended" /\ worker' = "off"
  /\ UNCHANGED <<line, recalled, highlighted, images, approval, menus, open, turns, done, queue,
                 returned, followup, mouse, off>>

Editor == Return \/ Enqueue \/ Complete \/ Type \/ Erase \/ Discard \/ Move \/ Highlight \/ Recall
          \/ Attach \/ Detach \/ TakeBack
Overlays == WizardReturn \/ WizardEdit \/ SettingsMove \/ SettingsReturn \/ SettingsDefault
            \/ PickerMove \/ PickerReturn \/ ResumeMove \/ Approve
Next == Editor \/ Overlays \/ Select \/ Interrupt \/ Collect \/ Ask \/ Deliver \/ End \/ Free

Spec == Init /\ [][Next]_vars

--------------------------------------------------------------------------------
(* The menus never meet, nor a turn that runs: what is drawn is what gets the  *)
(* keys, whatever has ended or is to follow when a menu is opened.             *)
OverlaysApart ==
  /\ Cardinality({place \in {"resume", "wizard", "command", "settings", "turn"} :
       CASE place = "resume" -> rows > 0
         [] place = "wizard" -> wizard # NoWizard
         [] place = "command" -> picker # NoPicker
         [] place = "settings" -> settings # NoSettings
         [] OTHER -> Busy}) <= 1
  /\ approval # "none" => worker = "run"

(* Every index is one of what it points into.                                  *)
IndexesInside ==
  /\ cursor \in 0..Len(input) /\ index \in 0..Len(history)
  /\ rows > 0 => row \in 0..(rows - 1)
  /\ picker # NoPicker /\ Options # <<>> => picker.at + 1 \in DOMAIN Options

(* What is typed or pasted while the form of a provider is on the screen stays *)
(* out of the editor, the history and the queue (provider_wizard.py).          *)
KeysSecret ==
  "key" \notin ToSet(input) \cup ToSet(saved) \cup ToSet(returned) \cup ToSet(settings.back)
               \cup UNION {ToSet(history[i]) : i \in DOMAIN history}
               \cup UNION {ToSet(queue[i]) : i \in DOMAIN queue}

(* The review is of the connection whose models were read last.                *)
ReviewIsProbed == wizard.step >= 6 => wizard.candidate = "fresh"

ComposerSafe == OverlaysApart /\ IndexesInside /\ KeysSecret /\ ReviewIsProbed

(* A message that is submitted is remembered or stays in the editor; and what  *)
(* an ended turn gave back is put before the draft, unless a menu is opened    *)
(* over the editor or a command is carried out.                                *)
TextsKept ==
  /\ Return /\ input # <<>> /\ ~IsCommand(input) => history' # <<>> /\ Last(history') = input
  /\ Enqueue /\ input # <<>> => input' = input \/ (queue' # queue /\ Last(queue') = input)
  /\ returned # <<>> /\ returned' = <<>> =>
       \/ IsPrefix(returned, input') \/ Route' # "editor" \/ picker # NoPicker
       \/ IsCommand(input)
ComposerKeeps == [][TextsKept]_vars

(* The command that is highlighted is in the list (a paste leaves the place of *)
(* a longer one).                                                              *)
HighlightHolds == Visible # <<>> => highlighted < Len(Visible)
================================================================================

------------------------------ MODULE InputDecoder ------------------------------
(***************************************************************************)
(* How the keys of a terminal become events.                               *)
(*                                                                         *)
(*   pepsicode/tui/input_parser.py   TerminalInputDecoder,                 *)
(*     maybe_need_more_for_escape_sequence, parse_escape_sequence,         *)
(*     parse_input_chunk                                                   *)
(*                                                                         *)
(* A terminal sends the encodings of what the user does; the program reads *)
(* them in chunks that end anywhere.  A symbol is a byte of the kind that  *)
(* the parser tells apart: "esc", "[", "O", the parameters of a control    *)
(* sequence ("200", "201", "1;5", "n", and "<n" for a mouse), its final    *)
(* letters, line ends, and "u1" and "u2" for the two bytes of a character. *)
(***************************************************************************)
EXTENDS Integers, SequencesExt

CONSTANT Streams   \* what is done at the terminal: sequences of keys

VARIABLES
  keys,     \* what has been done
  wire,     \* bytes that have not been read
  half,     \* the first byte of a character, in the incremental decoder
  rest,     \* _remainder
  chunk,    \* what parse_input_chunk has before it
  fresh,    \* nothing of the chunk has been consumed
  parsing,
  events

vars == <<keys, wire, half, rest, chunk, fresh, parsing, events>>

Params == {"200", "201", "1;5", "n", "<n"}
Finals == {"A", "M", "z", "~", "x", "[", "O"}
Ends == {"cr", "lf"}

(* What terminals send.  Text within a paste may have line ends and anything   *)
(* but the closing marker.                                                     *)
Encoding(key) ==
  CASE key = "x" -> <<"x">>
    [] key = "char" -> <<"u1", "u2">>
    [] key = "return" -> <<"cr">>
    [] key = "tab" -> <<"tab">>
    [] key = "up" -> <<"esc", "[", "A">>
    [] key = "ctrl-up" -> <<"esc", "[", "1;5", "A">>
    [] key = "page" -> <<"esc", "[", "n", "~">>
    [] key = "app-up" -> <<"esc", "O", "A">>
    [] key = "alt-x" -> <<"esc", "x">>
    [] key = "alt-return" -> <<"esc", "cr">>
    [] key = "wheel" -> <<"esc", "[", "<n", "M">>
    [] key = "old-mouse" -> <<"esc", "[", "M", "b", "x", "b">>
    [] key = "report" -> <<"esc", "[", "n", "z">>
    [] key = "escape" -> <<"esc">>
    [] key = "paste" -> <<"esc", "[", "200", "~", "x", "cr", "esc", "u1", "u2",
                          "esc", "[", "201", "~">>

Init ==
  /\ keys \in Streams /\ wire = FlattenSeq([i \in DOMAIN keys |-> Encoding(keys[i])])
  /\ half = FALSE /\ rest = <<>> /\ chunk = <<>> /\ fresh = FALSE /\ parsing = FALSE
  /\ events = <<>>

--------------------------------------------------------------------------------
(* feed.                                                                       *)

(* The incremental decoder keeps the first byte of a character back.           *)
Decoded(bytes) == SelectSeq(bytes, LAMBDA b : b # "u1")
Dangling(bytes) == bytes[Len(bytes)] = "u1"

Read(n) ==
  /\ ~parsing /\ n \in 1..Len(wire)
  /\ wire' = SubSeq(wire, n + 1, Len(wire))
  /\ half' = Dangling(SubSeq(wire, 1, n))
  /\ chunk' = rest \o Decoded(SubSeq(wire, 1, n))
  /\ fresh' = TRUE /\ parsing' = TRUE /\ rest' = <<>>
  /\ UNCHANGED <<keys, events>>

(* What remains is kept for the next chunk.                                    *)
Keep ==
  /\ parsing' = FALSE /\ rest' = chunk /\ chunk' = <<>> /\ fresh' = FALSE
  /\ UNCHANGED events

Consume(n, found) ==
  /\ events' = events \o found
  /\ chunk' = SubSeq(chunk, n + 1, Len(chunk))
  /\ fresh' = FALSE
  /\ UNCHANGED <<rest, parsing>>

--------------------------------------------------------------------------------
(* The rules of parse_input_chunk, in their order.                             *)

Starts(marker) == IsPrefix(marker, chunk)
At(marker, i) == i + 3 <= Len(chunk) /\ SubSeq(chunk, i, i + 3) = marker
Opening == <<"esc", "[", "200", "~">>
Closing == <<"esc", "[", "201", "~">>

(* Line ends within a paste become one kind.                                   *)
Pasted(text) == [i \in DOMAIN text |-> IF text[i] = "cr" THEN "lf" ELSE text[i]]

Bracketed ==
  IF \E i \in 5..Len(chunk) : At(Closing, i)
  THEN LET end == CHOOSE i \in 5..Len(chunk) : At(Closing, i) /\ \A j \in 5..(i - 1) : ~At(Closing, j)
       IN Consume(end + 3, <<[paste |-> Pasted(SubSeq(chunk, 5, end - 1)), bare |-> FALSE]>>)
  ELSE Keep

(* A whole chunk without control sequences, with a line end that is not its    *)
(* last character, is taken for a paste.                                       *)
IsBare ==
  /\ fresh /\ "esc" \notin Range(chunk)
  /\ \E i, j \in DOMAIN chunk : i < j /\ chunk[i] \in Ends /\ chunk[j] \notin Ends

Bare == Consume(Len(chunk), <<[paste |-> Pasted(chunk), bare |-> TRUE]>>)

(* maybe_need_more_for_escape_sequence.                                        *)
NeedsMore ==
  /\ chunk[1] = "esc"
  /\ \/ Len(chunk) = 1
     \/ /\ Starts(<<"esc", "[">>)
        /\ IF Starts(<<"esc", "[", "M">>) THEN Len(chunk) < 6
           ELSE \A i \in 3..Len(chunk) : chunk[i] \in Params
     \/ chunk = <<"esc", "O">>

Key(name) == <<[key |-> name]>>

(* A control sequence that is complete and not known is consumed whole.        *)
Control ==
  LET end == CHOOSE i \in 3..Len(chunk) : chunk[i] \notin Params /\ \A j \in 3..(i - 1) : chunk[j] \in Params
  IN IF chunk[end] \in Finals THEN Consume(end, <<>>) ELSE Consume(1, Key("escape"))

(* parse_escape_sequence.                                                      *)
Escape ==
  CASE Starts(<<"esc", "[", "<n", "M">>) -> Consume(4, Key("wheel"))
    [] Starts(<<"esc", "[", "M">>) -> Consume(6, Key("old-mouse"))
    [] Starts(<<"esc", "[", "A">>) -> Consume(3, Key("up"))
    [] Starts(<<"esc", "[", "1;5", "A">>) -> Consume(4, Key("ctrl-up"))
    [] Starts(<<"esc", "[", "n", "~">>) -> Consume(4, Key("page"))
    [] Starts(<<"esc", "O", "A">>) -> Consume(3, Key("up"))
    [] Starts(<<"esc", "cr", "lf">>) -> Consume(3, Key("alt-return"))
    [] Starts(<<"esc", "cr">>) \/ Starts(<<"esc", "lf">>) -> Consume(2, Key("alt-return"))
    [] Starts(<<"esc", "[">>) /\ ~Starts(<<"esc", "[", "M">>) /\ ~Starts(<<"esc", "[", "A">>)
       /\ ~Starts(<<"esc", "[", "<n", "M">>) /\ ~Starts(<<"esc", "[", "1;5", "A">>)
       /\ ~Starts(<<"esc", "[", "n", "~">>) -> Control
    [] chunk[2] \notin {"esc", "[", "O", "cr", "lf"} -> Consume(2, Key("alt-" \o chunk[2]))
    [] OTHER -> Consume(1, Key("escape"))

Plain ==
  CASE Starts(<<"cr", "lf">>) -> Consume(2, Key("return"))
    [] chunk[1] \in Ends /\ ~Starts(<<"cr", "lf">>) -> Consume(1, Key("return"))
    [] chunk[1] = "u2" -> Consume(1, Key("char"))
    [] OTHER -> Consume(1, Key(chunk[1]))

Parse ==
  /\ parsing /\ chunk # <<>>
  /\ CASE Starts(Opening) -> Bracketed
       [] ~Starts(Opening) /\ IsBare -> Bare
       [] ~Starts(Opening) /\ ~IsBare /\ NeedsMore -> Keep
       [] ~Starts(Opening) /\ ~NeedsMore /\ chunk[1] = "esc" -> Escape
       [] OTHER -> Plain
  /\ UNCHANGED <<keys, wire, half>>

Parsed ==
  /\ parsing /\ chunk = <<>> /\ Keep
  /\ UNCHANGED <<keys, wire, half>>

Next == (\E n \in 1..Len(wire) : Read(n)) \/ Parse \/ Parsed

Spec == Init /\ [][Next]_vars

--------------------------------------------------------------------------------
(* What the keys mean.                                                         *)
Meaning(key) ==
  CASE key = "app-up" -> Key("up")
    [] key = "report" -> <<>>
    [] key = "paste" -> <<[paste |-> <<"x", "lf", "esc", "u2">>, bare |-> FALSE]>>
    [] OTHER -> Key(key)

Meant == FlattenSeq([i \in DOMAIN keys |-> Meaning(keys[i])])

(* Keys that were taken for a paste, which the parser cannot tell from one.    *)
Typed(text) ==
  [i \in DOMAIN text |-> [key |-> CASE text[i] = "lf" -> "return" [] text[i] = "u2" -> "char"
                                    [] OTHER -> text[i]]]
IsTyped(event) == "paste" \in DOMAIN event /\ event.bare
Flat == FlattenSeq([i \in DOMAIN events |->
                     IF IsTyped(events[i]) THEN Typed(events[i].paste) ELSE <<events[i]>>])

(* Wherever the chunks end, the program is told what was done, in its order:   *)
(* no part of a control sequence or of a paste becomes text or submits, and no *)
(* character is lost or cut in two (input_parser.py 81-92, 190-194, 231-241).  *)
(* Only an escape at the end still waits for what follows.                     *)
EventsAsMeant ==
  /\ IsPrefix(Flat, Meant)
  /\ wire = <<>> /\ ~parsing => half = FALSE /\ Flat \o [i \in DOMAIN rest |-> [key |-> "escape"]] = Meant
================================================================================

--------------------------- MODULE KeyboardInput ---------------------------
(***************************************************************************)
(* The physical keyboard's path into the kernel: bytes of scan-code set 1  *)
(* or 2 on the wire, decoded one at a time by                              *)
(*   "irq"        handle_keyboard_interrupt of the session builds, whose   *)
(*                decoder starts in set 2 (core/src/ps2.rs);               *)
(*   "console"    the polled keyboard console (physical_keyboard_console); *)
(*   "diagnostic" the physical input diagnostic (physical_input_diagnostic)*)
(*   "wake"       the wake diagnostic, with a decoder of its own           *)
(*                (physical_wake.rs).                                      *)
(*                                                                         *)
(* The keyboard is external: keys are pressed, repeated and released in    *)
(* any order, several held at once, while earlier bytes still wait.        *)
(* Rendering, raw-byte logs and the editable text on screen are left out.  *)
(***************************************************************************)
EXTENDS Naturals, Sequences, FiniteSets, SequencesExt

CONSTANTS
    Consumers,      \* which readers of the wire are explored
    Transports,     \* scan-code sets the controller delivers: subset of {1, 2}
    Script,         \* keys typed in this order ...
    WrongKeys,      \* ... with up to MaxWrong presses of these in between
    MaxWrong,
    MaxWire,        \* bytes waiting in the controller
    MaxHeld,        \* keys held down at once
    KeyLogCapacity  \* KEY_LOG_CAPACITY, 12 in the code

KeyboardBounds ==
    /\ Transports \subseteq {1, 2}
    /\ MaxWrong \in Nat /\ MaxWire \in Nat /\ MaxHeld \in Nat /\ KeyLogCapacity \in Nat

VARIABLES consumer, transport,
    wire,       \* bytes sent and not read
    held,       \* keys down
    at, wrong,  \* script position; presses outside the script
    pressed,    \* history: every key pressed
    dec,        \* the decoder
    out,        \* key-down events emitted
    line,       \* WakeInput.typed
    keyLog,     \* InputDiagnostic.keys
    result      \* Waiting, Rejected, Accepted

vars == <<consumer, transport, wire, held, at, wrong, pressed, dec, out, line, keyLog, result>>

----------------------------------------------------------------------------
(* Scan codes. *)

Keys == << "A", "B", "C", "D", "E", "F", "G", "H", "I", "J", "K", "L", "M", "N", "O", "P", "Q",
           "R", "S", "T", "U", "V", "W", "X", "Y", "Z", "0", "1", "2", "3", "4", "5", "6", "7",
           "8", "9", "Enter", "Escape", "Space", "Backspace" >>

(* scancode_to_keycode's make codes, in the order of Keys. *)
Set1Codes == << \h1E, \h30, \h2E, \h20, \h12, \h21, \h22, \h23, \h17, \h24, \h25, \h26, \h32,
                \h31, \h18, \h19, \h10, \h13, \h1F, \h14, \h16, \h2F, \h11, \h2D, \h15, \h2C,
                \h0B, \h02, \h03, \h04, \h05, \h06, \h07, \h08, \h09, \h0A, \h1C, \h01, \h39,
                \h0E >>

(* decode_set2_key's make codes, in the order of Keys. *)
Set2Codes == << \h1C, \h32, \h21, \h23, \h24, \h2B, \h34, \h33, \h43, \h3B, \h42, \h4B, \h3A,
                \h31, \h44, \h4D, \h15, \h2D, \h1B, \h2C, \h3C, \h2A, \h1D, \h22, \h35, \h1A,
                \h45, \h16, \h1E, \h26, \h25, \h2E, \h36, \h3D, \h3E, \h46, \h5A, \h76, \h29,
                \h66 >>

Codes(set) == IF set = 1 THEN Set1Codes ELSE Set2Codes

KeyOf(codes, byte) == IF \E i \in DOMAIN codes : codes[i] = byte
                      THEN Keys[CHOOSE i \in DOMAIN codes : codes[i] = byte]
                      ELSE "none"

Supported == Range(Keys)

(* Keys of a real keyboard outside the supported ones: <<set 1, set 2>>.   *)
(* PadEnter is extended: Enter behind an E0 prefix.                         *)
OtherCodes == [F1 |-> <<\h3B, \h05>>, Tab |-> <<\h0F, \h0D>>, PadEnter |-> <<\h1C, \h5A>>]

CodeOf(key, set) == IF key \in Supported
                    THEN Codes(set)[CHOOSE i \in DOMAIN Keys : Keys[i] = key]
                    ELSE OtherCodes[key][set]

Prefix(key) == IF key = "PadEnter" THEN <<\hE0>> ELSE <<>>

MakeBytes(key, set) == Prefix(key) \o <<CodeOf(key, set)>>

BreakBytes(key, set) == Prefix(key) \o IF set = 1 THEN <<CodeOf(key, set) + 128>>
                                       ELSE <<\hF0, CodeOf(key, set)>>

----------------------------------------------------------------------------
(* The decoder (PhysicalKeyboardDecoder; WakeInput keeps its own copy).    *)

NewDecoder(c) == [mode |-> IF c = "irq" THEN "set2" ELSE "unknown",
                  release |-> FALSE, extended |-> FALSE]

(* consume_non_make_byte, when it returns true. *)
NonMake(d, byte) ==
    \/ d.extended \/ byte \in {\hE0, \hF0} \/ d.release
    \/ byte >= 128 /\ (consumer = "wake" \/ d.mode # "set2")

(* Mutant: the byte after E0 F0 is not taken as part of the release. *)
ConsumedForgets(d, byte) ==
    CASE d.extended     -> [d EXCEPT !.extended = FALSE]
      [] byte = \hE0    -> [d EXCEPT !.extended = TRUE]
      [] byte = \hF0    -> [d EXCEPT !.release = TRUE]
      [] d.release      -> [d EXCEPT !.release = FALSE]
      [] OTHER          -> IF consumer = "wake" THEN d ELSE [d EXCEPT !.mode = "set1"]

(* Its effect: a byte after E0 is skipped, E0 F0 skips one more, F0 skips  *)
(* the code it releases, and a set-1 break code settles set 1.             *)
Consumed(d, byte) ==
    CASE d.extended     -> [d EXCEPT !.extended = FALSE, !.release = @ \/ byte = \hF0]
      [] byte = \hE0    -> [d EXCEPT !.extended = TRUE]
      [] byte = \hF0    -> [d EXCEPT !.release = TRUE]
      [] d.release      -> [d EXCEPT !.release = FALSE]
      [] OTHER          -> IF consumer = "wake" THEN d ELSE [d EXCEPT !.mode = "set1"]

(* decode_make_byte's choice of set: the first byte either table knows     *)
(* decides, set 1 first; the wake decoder waits for a `w`.                 *)
Settled(d, byte) ==
    LET first(set) == IF consumer = "wake" THEN KeyOf(Codes(set), byte) = "W"
                      ELSE KeyOf(Codes(set), byte) # "none"
    IN CASE d.mode # "unknown" -> d
         [] d.mode = "unknown" /\ first(1) -> [d EXCEPT !.mode = "set1"]
         [] d.mode = "unknown" /\ ~first(1) /\ first(2) -> [d EXCEPT !.mode = "set2"]
         [] OTHER -> d

WakeKeys == {"W", "A", "K", "E", "Enter", "Backspace"}

DecodedKey(d, byte) ==
    LET set1 == KeyOf(Set1Codes, byte)
        set2 == KeyOf(Set2Codes, byte)
        mode == Settled(d, byte).mode
        key == CASE mode = "set1" -> set1
                 [] mode = "set2" -> set2
                 [] OTHER -> IF consumer = "wake" THEN "none" ELSE IF set1 # "none" THEN set1 ELSE set2
    IN IF consumer = "wake" /\ key \notin WakeKeys THEN "none" ELSE key

----------------------------------------------------------------------------
Init ==
    /\ consumer \in Consumers /\ transport \in Transports
    /\ wire = <<>> /\ held = {} /\ at = 0 /\ wrong = 0 /\ pressed = <<>>
    /\ dec = NewDecoder(consumer)
    /\ out = <<>> /\ line = <<>> /\ keyLog = <<>> /\ result = "waiting"

(* A key goes down, or repeats while it is held. *)
Press(key) ==
    /\ Len(wire) + 2 <= MaxWire
    /\ key \in held \/ Cardinality(held) < MaxHeld
    /\ \/ /\ at < Len(Script) /\ key = Script[at + 1]
          /\ at' = at + 1 /\ UNCHANGED wrong
       \/ /\ key \in WrongKeys /\ wrong < MaxWrong
          /\ wrong' = wrong + 1 /\ UNCHANGED at
    /\ held' = held \cup {key}
    /\ wire' = wire \o MakeBytes(key, transport)
    /\ pressed' = Append(pressed, key)
    /\ UNCHANGED <<consumer, transport, dec, out, line, keyLog, result>>

Release(key) ==
    /\ key \in held /\ Len(wire) + 3 <= MaxWire
    /\ held' = held \ {key}
    /\ wire' = wire \o BreakBytes(key, transport)
    /\ UNCHANGED <<consumer, transport, at, wrong, pressed, dec, out, line, keyLog, result>>

(* apply_key of the wake diagnostic: <<line, result, whether it resets>>.  *)
Applied(key) ==
    CASE key = "Enter" -> IF line = <<"W", "A", "K", "E">> THEN <<line, "accepted", FALSE>>
                          ELSE <<<<>>, "rejected", TRUE>>
      [] key = "Backspace" -> LET rest == SubSeq(line, 1, Len(line) - 1)
                              IN <<rest, "waiting", rest = <<>>>>
      [] OTHER -> IF Len(line) >= 4 THEN <<<<>>, "rejected", TRUE>>
                  ELSE <<Append(line, key), "waiting", FALSE>>

ACCEPT_SEQUENCE == <<"Space", "Space", "Backspace", "Backspace", "W", "A", "K", "E", "Enter">>

(* push_key: the log keeps the newest keys. *)
Logged(key) == IF Len(keyLog) < KeyLogCapacity THEN Append(keyLog, key)
               ELSE Append(Tail(keyLog), key)

(* keycode_to_console_byte gives Escape no byte. *)
ConsoleTakes(key) == consumer # "console" \/ key # "Escape"

(* One byte is read and fed to the consumer's decoder. *)
Feed ==
    /\ wire # <<>>
    /\ wire' = Tail(wire)
    /\ LET byte == Head(wire)
           key == DecodedKey(dec, byte)
       IN IF result = "accepted"
          THEN UNCHANGED <<dec, out, line, keyLog, result>>
          ELSE IF NonMake(dec, byte)
          THEN /\ dec' = Consumed(dec, byte)
               /\ result' = "waiting"
               /\ UNCHANGED <<out, line, keyLog>>
          ELSE IF key = "none"
          THEN /\ dec' = Settled(dec, byte)
               /\ result' = "waiting"
               /\ UNCHANGED <<out, line, keyLog>>
          ELSE CASE consumer \in {"irq", "console"} ->
                      /\ dec' = Settled(dec, byte)
                      /\ out' = IF ConsoleTakes(key) THEN Append(out, key) ELSE out
                      /\ UNCHANGED <<line, keyLog, result>>
                 [] consumer = "diagnostic" ->
                      /\ dec' = Settled(dec, byte)
                      /\ keyLog' = Logged(key)
                      /\ result' = IF key # "Enter" THEN "waiting"
                                   ELSE IF IsSuffix(ACCEPT_SEQUENCE, keyLog')
                                        THEN "accepted" ELSE "rejected"
                      /\ UNCHANGED <<out, line>>
                 [] consumer = "wake" ->
                      /\ line' = Applied(key)[1] /\ result' = Applied(key)[2]
                      /\ dec' = IF Applied(key)[3] THEN NewDecoder("wake") ELSE Settled(dec, byte)
                      /\ UNCHANGED <<out, keyLog>>
    /\ UNCHANGED <<consumer, transport, held, at, wrong, pressed>>

Idle == wire = <<>> /\ UNCHANGED vars

Next == \/ \E key \in WrongKeys \cup Range(Script) : Press(key) \/ Release(key)
        \/ Feed
        \/ Idle

Spec == Init /\ [][Next]_vars

----------------------------------------------------------------------------
(* Properties. *)

(* The decoder's fields and the histories are of their kinds. *)
TypeOK ==
    /\ dec.mode \in {"unknown", "set1", "set2"}
    /\ dec.release \in BOOLEAN /\ dec.extended \in BOOLEAN
    /\ Range(out) \subseteq Supported
    /\ Len(line) <= 4 /\ Len(keyLog) <= KeyLogCapacity
    /\ result \in {"waiting", "rejected", "accepted"}

Typed == SelectSeq(pressed, LAMBDA k : k \in Supported /\ ConsoleTakes(k))

Exact == IsPrefix(out, Typed) /\ (wire = <<>> => out = Typed)

(* The set-2 interrupt path emits exactly one key-down per press of a      *)
(* supported key, in order, and nothing for releases and extended keys,    *)
(* whatever is held and released in between.                               *)
IrqKeyDownsExact == consumer = "irq" => Exact

(* The first key pressed tells the sets apart: its byte is a make code of  *)
(* its own set and not, in set 2, also one of set 1.                       *)
Telling == LET first == pressed[1]
           IN /\ first \in Supported
              /\ transport = 2 => KeyOf(Set1Codes, CodeOf(first, 2)) = "none"

(* The polled console, which must find out the set by itself, is exact     *)
(* from a telling first key on.                                            *)
ConsoleExactOnceSettled ==
    (consumer = "console" /\ pressed # <<>> /\ Telling) => Exact

(* The keys the wake recogniser listens to: every other key passes         *)
(* unheard, in the middle of a word too (physical_wake.rs:186).            *)
Heard == SelectSeq(pressed, LAMBDA k : k \in WakeKeys)

(* A line editor over the heard keys, the reference for the recogniser:    *)
(* only W begins a line, Backspace deletes, a fifth letter or a wrong      *)
(* Enter clears.  "*" marks acceptance.                                    *)
Edited(text, key) ==
    CASE text = <<"*">> -> text
      [] text = <<>> -> IF key = "W" THEN <<"W">> ELSE text
      [] key = "Enter" -> IF text = <<"W", "A", "K", "E">> THEN <<"*">> ELSE <<>>
      [] key = "Backspace" -> SubSeq(text, 1, Len(text) - 1)
      [] OTHER -> IF Len(text) = 4 THEN <<>> ELSE Append(text, key)

(* The byte-level wake recogniser agrees with the line editor over the     *)
(* heard keys, in both scan-code sets: settling the set again after every  *)
(* clear never loses or invents one.  It says nothing of the keys that are *)
(* not heard: W A Space K E Enter is accepted by the code and by this      *)
(* property, where ADR 0074 (lines 26 and 33) asks for the exact sequence. *)
WakeAgreesWithKeys ==
    (consumer = "wake" /\ wire = <<>>) =>
        LET text == FoldLeft(Edited, <<>>, Heard)
        IN /\ (result = "accepted") <=> (text = <<"*">>)
           /\ result # "accepted" => line = text

(* ADR 0074's exact `wake` plus Enter, as far as the code keeps it: an     *)
(* acceptance follows these five keys pressed one after another, unless    *)
(* after some W a Backspace or a key that is not heard was pressed.        *)
WakeSequenceExact ==
    (consumer = "wake" /\ result = "accepted") =>
        \E i \in DOMAIN pressed :
            /\ pressed[i] = "W"
            /\ \/ \E k \in i..Len(pressed) : pressed[k] \notin WakeKeys \ {"Backspace"}
               \/ SubSeq(pressed, i, i + 4) = <<"W", "A", "K", "E", "Enter">>

(* From a telling first key on, the diagnostic accepts exactly when the    *)
(* nine keys of the sequence were pressed one after another, however full  *)
(* its log is.                                                             *)
DiagnosticExact ==
    (consumer = "diagnostic" /\ wire = <<>> /\ pressed # <<>> /\ Telling) =>
        ((result = "accepted") <=>
            \E i \in 0..(Len(Typed) - 9) : SubSeq(Typed, i + 1, i + 9) = ACCEPT_SEQUENCE)

=============================================================================

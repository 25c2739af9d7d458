----------------------------- MODULE StdinBuffer -----------------------------
(***************************************************************************)
(* How the terminal's input is cut into keys and pastes:                    *)
(* packages/tui/src/stdin-buffer.ts.                                        *)
(*                                                                          *)
(* The characters are those the code tells apart: "E" is escape, "~" and    *)
(* "A" end a CSI sequence, "m" ends the report of a mouse, "$" is a string  *)
(* terminator that follows an escape, "0" and "1" make the markers of a     *)
(* paste differ, "a" is any other.                                          *)
(***************************************************************************)
EXTENDS Integers, Sequences, SequencesExt

CONSTANTS
  MaxKeys, \* keys pressed, a paste counting as one
  Pauses   \* what pauses of the terminal may do, of Disorders

\* A pause in the middle of a sequence exceeds the timeout; the key escape is
\* followed by another within the timeout.
Disorders == {"slow", "hasty"}

StdinAssumption == MaxKeys \in Nat /\ Pauses \subseteq Disorders

ESC == "E"
Characters == {ESC, "[", "]", "<", "$", "~", "0", "1", "a", "m", "A", "M", "O"}
Escape == <<ESC>>
PasteStart == <<ESC, "[", "0", "~">>
PasteEnd == <<ESC, "[", "1", "~">>

\* A character, escape, meta and function keys, reports of the two kinds of mouse
\* protocols, an answer of the terminal; and pasted texts, with a marker and the
\* begin of one among them.
Keys == {<<"a">>, Escape, <<ESC, "a">>, <<ESC, "[", "A">>, <<ESC, "O", "A">>,
         <<ESC, "[", "M", "a", "A", "a">>, <<ESC, "[", "<", "0", "m">>,
         <<ESC, "]", "a", ESC, "$">>}
Texts == {<<>>, <<"a">>, <<ESC, "[", "1">>, <<ESC, "[", "0", "~">>}

Key(bytes) == [paste |-> FALSE, bytes |-> bytes]
Paste(text) == [paste |-> TRUE, bytes |-> text]

VARIABLES
  keys,    \* what was pressed and pasted, first first
  arrived, \* characters of it that have arrived
  stdin    \* the StdinBuffer, with what it has emitted

vars == <<keys, arrived, stdin>>

Bytes(key) == IF key.paste THEN PasteStart \o key.bytes \o PasteEnd ELSE key.bytes
Sent(ks) == FlattenSeq([i \in DOMAIN ks |-> Bytes(ks[i])])

-----------------------------------------------------------------------------
(* isCompleteSequence and extractCompleteSequences.                         *)

\* Defect: a CSI sequence is complete with its first character.
IsComplete_Short(data) == Len(data) >= 3 \/ (Len(data) = 2 /\ data[2] = "a")

IsComplete(data) ==
  /\ Len(data) >= 2
  /\ data[2] = "[" =>
       /\ Len(data) >= 3
       /\ IF data[3] = "M" THEN Len(data) >= 6
          ELSE IF data[3] = "<" THEN Last(data) = "m"
          ELSE Last(data) \in {"A", "~", "m", "a"}
  /\ data[2] = "O" => Len(data) >= 3
  /\ data[2] = "]" => IsSuffix(<<ESC, "$">>, data)

\* The sequences of a text, and the begin of one behind them.
Extract(input) ==
  LET from[text \in Seq(Characters)] ==
        LET ends == {n \in DOMAIN text :
                       IF text[1] = ESC THEN IsComplete(SubSeq(text, 1, n)) ELSE n = 1}
            n == CHOOSE m \in ends : \A o \in ends : m <= o
            rest == from[SubSeq(text, n + 1, Len(text))]
        IN  IF ends = {} THEN [sequences |-> <<>>, remainder |-> text]
            ELSE [rest EXCEPT !.sequences = <<Key(SubSeq(text, 1, n))>> \o @]
  IN  from[input]

\* The positions behind and in front of a marker, the first it has.
Starts(text, marker) ==
  {i \in 1..(Len(text) - Len(marker) + 1) : SubSeq(text, i, i + Len(marker) - 1) = marker}
Before(text, marker) ==
  SubSeq(text, 1, (CHOOSE i \in Starts(text, marker) : \A j \in Starts(text, marker) : i <= j) - 1)
Behind(text, marker) ==
  SubSeq(text, Len(Before(text, marker)) + Len(marker) + 1, Len(text))

-----------------------------------------------------------------------------
(* StdinBuffer.                                                             *)

NewStdin == [buffer |-> <<>>, pasteMode |-> FALSE, pasteBuffer |-> <<>>, emitted |-> <<>>]

Buffers ==
  [buffer : Seq(Characters), pasteMode : BOOLEAN, pasteBuffer : Seq(Characters),
   emitted : Seq([paste : BOOLEAN, bytes : Seq(Characters)])]

\* What is incomplete in front of a paste is dropped, and what is behind one is
\* processed in turn.
process(stdinBuffer, chunk) ==
  LET from[s \in Buffers, data \in Seq(Characters)] ==
        LET text == s.buffer \o data
            extracted == Extract(text)
            Pasted(t) == \* once the text of a paste has grown
              IF Starts(t.pasteBuffer, PasteEnd) = {} THEN t
              ELSE LET done == [t EXCEPT !.pasteMode = FALSE, !.pasteBuffer = <<>>,
                         !.emitted = Append(@, Paste(Before(t.pasteBuffer, PasteEnd)))]
                       remaining == Behind(t.pasteBuffer, PasteEnd)
                   IN  IF remaining = <<>> THEN done ELSE from[done, remaining]
        IN  IF s.pasteMode
            THEN Pasted([s EXCEPT !.buffer = <<>>, !.pasteBuffer = @ \o text])
            ELSE IF Starts(text, PasteStart) # {}
            THEN Pasted([s EXCEPT !.buffer = <<>>, !.pasteMode = TRUE,
                           !.pasteBuffer = Behind(text, PasteStart),
                           !.emitted = @ \o Extract(Before(text, PasteStart)).sequences])
            ELSE [s EXCEPT !.buffer = extracted.remainder, !.emitted = @ \o extracted.sequences]
  IN  from[stdinBuffer, chunk]

\* The positions at which the terminal waits, behind the key escape.
Waits == {Len(Sent(SubSeq(keys, 1, i))) : i \in {j \in DOMAIN keys : keys[j] = Key(Escape)}}

\* A chunk arrives, of any length.
Arrive ==
  \E last \in (arrived + 1)..Len(Sent(keys)) :
    /\ "hasty" \in Pauses \/
         /\ arrived \in Waits => stdin.buffer = <<>>
         /\ \A w \in Waits : w <= arrived \/ w >= last
    /\ stdin' = process(stdin, SubSeq(Sent(keys), arrived + 1, last))
    /\ arrived' = last
    /\ UNCHANGED keys

\* The timeout of an incomplete sequence, which is emitted as it is.
Flush ==
  /\ stdin.buffer # <<>>
  /\ arrived \in Waits \/ "slow" \in Pauses
  /\ stdin' = [stdin EXCEPT !.buffer = <<>>, !.emitted = Append(@, Key(stdin.buffer))]
  /\ UNCHANGED <<keys, arrived>>

Init ==
  /\ keys \in BoundedSeq({Key(k) : k \in Keys} \cup {Paste(t) : t \in Texts}, MaxKeys)
  /\ arrived = 0 /\ stdin = NewStdin

Next == Arrive \/ Flush

Spec == Init /\ [][Next]_vars

-----------------------------------------------------------------------------
\* However the input is cut into chunks, the keys and pastes emitted are those
\* made, in their order, each as soon as it is complete (process, flush).
KeysArriveWhole ==
  /\ IsPrefix(stdin.emitted, keys)
  /\ \A i \in DOMAIN keys :
       /\ Len(Sent(SubSeq(keys, 1, i))) <= arrived
       /\ keys[i] = Key(Escape) => stdin.buffer = <<>>
       => Len(stdin.emitted) >= i
===============================================================================

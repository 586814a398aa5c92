-------------------------------- MODULE Claude ---------------------------------
(***************************************************************************)
(* Asking Claude about a thread (apps/extract/src/claude.ts): which model  *)
(* is asked, and what becomes of whatever text it replies.  A reply is a   *)
(* sequence of the characters extractJsonObject tells apart, and JSON.parse*)
(* is what it makes of the object found there: its confidence and whether  *)
(* it proposes anything, or an exception.                                  *)
(***************************************************************************)
EXTENDS Integers, Sequences, SequencesExt, FiniteSetsExt

CONSTANTS
    MaxLength,       \* bound: characters of a reply
    MessageCounts,   \* numbers of messages of a thread
    CharCounts,      \* numbers of characters of a thread
    Confidences,     \* in percent: the numbers the model may give
    LongCount,       \* LONG_THREAD_MESSAGE_COUNT
    LongChars,       \* LONG_THREAD_CHARS
    LowConfidence,   \* LOW_CONFIDENCE_THRESHOLD, in percent
    NaN,             \* what Number() makes of what is not a number
    Null

ASSUME ClaudeAssumption ==
    /\ MaxLength \in Nat
    /\ MessageCounts \cup CharCounts \subseteq Nat
    /\ Confidences \subseteq Int
    /\ LongCount \in Nat
    /\ LongChars \in Nat
    /\ LowConfidence \in 0..100

VARIABLES
    thread,   \* its number of messages and of characters
    model,    \* the model that is asked: none, haiku, sonnet
    reply,    \* the text of its reply, or Null before there is one
    parsed,   \* what JSON.parse gives for the object in that text
    result    \* what extractFromThread returns, or Null

vars == <<thread, model, reply, parsed, result>>

\* { } " \ and any other character
Chars == {"open", "close", "quote", "backslash", "other"}

Replies == UNION {[1..n -> Chars] : n \in 0..MaxLength}

ASSUME NullAssumption == Null \notin Replies

Objects == [confidence : Confidences \cup {NaN}, proposes : BOOLEAN]

Extractions == [confidence : 0..100, proposes : BOOLEAN]

(* The type invariant. *)
TypeOK ==
    /\ thread \in [messages : MessageCounts, chars : CharCounts]
    /\ model \in {"none", "haiku", "sonnet"}
    /\ reply \in Seq(Chars) \cup {Null}
    /\ parsed \in Objects \cup {Null}
    /\ result # Null => /\ result.extraction \in Extractions
                        /\ result.model \in {"haiku", "sonnet"}

Init ==
    /\ thread \in [messages : MessageCounts, chars : CharCounts]
    /\ model = "none"
    /\ reply = Null
    /\ parsed = Null
    /\ result = Null

-----------------------------------------------------------------------------
(* extractJsonObject                                                       *)

scanStart == [depth |-> 0, inStr |-> FALSE, escaped |-> FALSE]

(* Mutant: a backslash in a string is a character like any other. *)
NoEscapes_scan(s, ch) ==
    IF s.inStr THEN [s EXCEPT !.inStr = ch # "quote"]
    ELSE CASE ch = "quote" -> [s EXCEPT !.inStr = TRUE]
           [] ch = "open"  -> [s EXCEPT !.depth = @ + 1]
           [] ch = "close" -> [s EXCEPT !.depth = @ - 1]
           [] OTHER        -> s

(* What the loop body does with one character. *)
scan(s, ch) ==
    IF s.inStr
    THEN [s EXCEPT !.escaped = ~s.escaped /\ ch = "backslash",
                   !.inStr = s.escaped \/ ch # "quote"]
    ELSE CASE ch = "quote" -> [s EXCEPT !.inStr = TRUE]
           [] ch = "open"  -> [s EXCEPT !.depth = @ + 1]
           [] ch = "close" -> [s EXCEPT !.depth = @ - 1]
           [] OTHER        -> s

(* The text from its first opening brace on. *)
fromBrace(text) ==
    LET braces == {i \in DOMAIN text : text[i] = "open"}
    IN  IF braces = {} THEN <<>> ELSE SubSeq(text, Min(braces), Len(text))

(* The loop's variables after each number of characters. *)
scanned(t) ==
    LET after[i \in 0..Len(t)] == IF i = 0 THEN scanStart ELSE scan(after[i - 1], t[i])
    IN  after

(* Up to where the depth first is zero again. *)
extractJsonObject(text) ==
    LET t == fromBrace(text)
        ends == {i \in DOMAIN t : scanned(t)[i].depth = 0}
    IN  IF ends = {} THEN Null ELSE SubSeq(t, 1, Min(ends))

-----------------------------------------------------------------------------
(* parseExtraction *)

fallback == [confidence |-> 0, proposes |-> FALSE]

(* Mutant: what is not a number is compared as it is, and fails no test. *)
Unclamped_clampConfidence(n) == IF n = NaN THEN 100 ELSE Max({0, Min({100, n})})

clampConfidence(n) == IF n = NaN THEN 0 ELSE Max({0, Min({100, n})})

(* JSON.parse either throws or gives an object: the text begins with "{".  *)
Parses(text) == IF extractJsonObject(text) = Null THEN {Null} ELSE Objects \cup {Null}

parseExtraction(obj) ==
    IF obj = Null THEN fallback
    ELSE [confidence |-> clampConfidence(obj.confidence), proposes |-> obj.proposes]

-----------------------------------------------------------------------------
(* extractFromThread *)

longThread == thread.messages > LongCount \/ thread.chars > LongChars

Ask ==
    /\ model = "none"
    /\ model' = IF longThread THEN "sonnet" ELSE "haiku"
    /\ UNCHANGED <<thread, reply, parsed, result>>

(* callMessages: the API answers with any text, ... *)
callMessages ==
    /\ model # "none"
    /\ reply = Null
    /\ \E text \in Replies : /\ reply' = text
                             /\ parsed' \in Parses(text)
    /\ UNCHANGED <<thread, model, result>>

(* ... or the call throws, and the step is tried again from the start. *)
CallFails ==
    /\ model # "none"
    /\ reply = Null
    /\ model' = "none"
    /\ UNCHANGED <<thread, reply, parsed, result>>

return ==
    /\ result' = [extraction |-> parseExtraction(parsed), model |-> model]
    /\ UNCHANGED <<thread, model, reply, parsed>>

(* Haiku is not sure: Sonnet is asked, and its reply counts, even when it  *)
(* cannot be read.                                                         *)
escalate ==
    /\ model' = "sonnet"
    /\ reply' = Null
    /\ parsed' = Null
    /\ UNCHANGED <<thread, result>>

Answer ==
    /\ reply # Null
    /\ result = Null
    /\ IF model = "haiku" /\ parseExtraction(parsed).confidence <= LowConfidence
       THEN escalate
       ELSE return

Next == Ask \/ callMessages \/ CallFails \/ Answer

Spec == Init /\ [][Next]_vars

-----------------------------------------------------------------------------
(* Properties                                                              *)

(* The reference for extractJsonObject: an object is what stands between   *)
(* two braces, made of objects, strings and other characters, and a string *)
(* ends at the first quote that no backslash takes.                        *)
anyOf(chars, rest) == {<<c>> \o s : c \in chars, s \in rest}

joined(texts, rest) == {a \o s : a \in texts, s \in rest}

escaped(rest) == anyOf({"backslash"}, anyOf(Chars, rest))

between(left, inside, right, rest) == anyOf({left}, joined(inside, anyOf({right}, rest)))

StringBody[n \in 0..MaxLength] ==
    IF n = 0 THEN {<<>>}
    ELSE anyOf(Chars \ {"quote", "backslash"}, StringBody[n - 1]) \cup
         (IF n = 1 THEN {} ELSE escaped(StringBody[n - 2]))

Content[n \in 0..MaxLength] ==
    IF n = 0 THEN {<<>>}
    ELSE anyOf({"backslash", "other"}, Content[n - 1]) \cup
         UNION {between("open", Content[m], "close", Content[n - 2 - m]) \cup
                between("quote", StringBody[m], "quote", Content[n - 2 - m])
                : m \in 0..(n - 2)}

IsObject(t) ==
    /\ Len(t) > 1
    /\ t[1] = "open" /\ t[Len(t)] = "close"
    /\ SubSeq(t, 2, Len(t) - 1) \in Content[Len(t) - 2]

(* Of a reply the object that its first brace opens is read, all of it and *)
(* nothing after it, whatever strings in it hold; if that is never closed, *)
(* nothing is ("we parse defensively").                                    *)
FindsTheObject ==
    reply # Null =>
        LET t == fromBrace(reply)
            found == extractJsonObject(reply)
        IN  IF \E n \in DOMAIN t : IsObject(SubSeq(t, 1, n))
            THEN found # Null /\ IsObject(found) /\ IsPrefix(found, t)
            ELSE found = Null

(* Haiku's answer is never the result when it gave no confidence, none     *)
(* that is a number, none above the threshold, or no object that can be    *)
(* read ("escalate ... for low first-pass confidence"), and never for a    *)
(* long thread.                                                            *)
WeakFirstPassEscalates ==
    result # Null /\ result.model = "haiku" =>
        /\ thread.messages <= LongCount /\ thread.chars <= LongChars
        /\ parsed # Null /\ parsed.confidence # NaN
        /\ parsed.confidence > LowConfidence

===============================================================================

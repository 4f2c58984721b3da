--------------------------- MODULE TaskExecutors ---------------------------
(***************************************************************************)
(* The executors of TASK jobs.  Every worker program has its own copy:     *)
(* worker-desktop, the CLI's worker-runtime, seeker-simulator, the Android *)
(* worker and the mobile app.                                              *)
(*                                                                         *)
(* An input is what the executors see of a text: which words of the        *)
(* lexicons it contains (in any case), whether it is longer than 200       *)
(* characters, its number of words, and its brace-delimited blocks: "json",*)
(* "lenient" (only org.json takes it, as with unquoted names) or "other".  *)
(***************************************************************************)
EXTENDS Integers, Sequences, FiniteSets

Positive == {"good", "great", "excellent", "amazing", "love", "happy"}
Negative == {"bad", "terrible", "awful", "hate", "worst", "horrible"}

(***************************************************************************)
(* The steps that the copies have in common                                *)
(***************************************************************************)
summarize(input, word_count) ==
    [summary |-> IF input.long THEN "truncated" ELSE "whole", word_count |-> word_count]

\* Splitting a blank text gives one empty word.
WordsOf(input) == IF input.words = 0 THEN 1 ELSE input.words

Sentiment(score) ==
    IF score > 0 THEN "positive" ELSE IF score < 0 THEN "negative" ELSE "neutral"

\* The confidence, min(1, |score| * 0.2 + 0.3), is in tenths.
Confidence(score) ==
    LET c == 2 * (IF score < 0 THEN -score ELSE score) + 3
    IN  IF c > 10 THEN 10 ELSE c

classify(input, positive, negative) ==
    LET score == Cardinality(input.found \cap positive) - Cardinality(input.found \cap negative)
    IN  [sentiment |-> Sentiment(score), confidence |-> Confidence(score)]

\* Blocks that cannot be parsed are skipped.
extractJson(input, parsed) ==
    [count |-> Cardinality({i \in DOMAIN input.blocks : input.blocks[i] \in parsed})]

NoText == [words |-> 0, found |-> {}, long |-> FALSE, blocks |-> <<>>]

Unknown == [error |-> "Unknown task_type"]

(***************************************************************************)
(* The copies.  The simulator's and the Android worker's lexicons are the  *)
(* shortest; the CLI does not count the empty word of a blank text, and    *)
(* the Android worker's parser is a lenient one.                           *)
(***************************************************************************)
desktop_executeTask(taskType, input) ==
    CASE taskType = "summarize"    -> summarize(input, WordsOf(input))
      [] taskType = "classify"     ->
             classify(input, Positive \cup {"best", "wonderful", "fantastic"},
                      Negative \cup {"poor", "disappointing", "sad"})
      [] taskType = "extract_json" -> extractJson(input, {"json"})
      [] OTHER                     -> Unknown

\* Faulty variant: a lexicon that was not kept in step.
mobile_executeTask_Stale(taskType, input) ==
    CASE taskType = "summarize"    -> summarize(input, WordsOf(input))
      [] taskType = "classify"     -> classify(input, Positive, Negative)
      [] taskType = "extract_json" -> extractJson(input, {"json"})
      [] OTHER                     -> Unknown

mobile_executeTask(taskType, input) ==
    CASE taskType = "summarize"    -> summarize(input, WordsOf(input))
      [] taskType = "classify"     ->
             classify(input, Positive \cup {"best", "wonderful", "fantastic"},
                      Negative \cup {"poor", "disappointing", "sad"})
      [] taskType = "extract_json" -> extractJson(input, {"json"})
      [] OTHER                     -> Unknown

cli_executeTask(taskType, input) ==
    CASE taskType = "summarize"    -> summarize(input, input.words)
      [] taskType = "classify"     ->
             classify(input, Positive \cup {"best"}, Negative \cup {"poor"})
      [] taskType = "extract_json" -> extractJson(input, {"json"})
      [] OTHER                     -> Unknown

simulator_executeTask(taskType, input) ==
    CASE taskType = "summarize"    -> summarize(input, WordsOf(input))
      [] taskType = "classify"     -> classify(input, Positive, Negative)
      [] taskType = "extract_json" -> extractJson(input, {"json"})
      [] OTHER                     -> Unknown

android_execute(taskType, input) ==
    CASE taskType = "summarize"    -> summarize(input, WordsOf(input))
      [] taskType = "classify"     -> classify(input, Positive, Negative)
      [] taskType = "extract_json" -> extractJson(input, {"json", "lenient"})
      [] OTHER                     -> Unknown

\* The texts on which all the copies agree.
IsCommon(input) ==
    /\ input.found \subseteq Positive \cup Negative
    /\ input.words > 0
    /\ \A i \in DOMAIN input.blocks : input.blocks[i] # "lenient"
=============================================================================

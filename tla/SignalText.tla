----------------------------- MODULE SignalText -----------------------------
(***************************************************************************)
(* What the parsers of Telegram messages make of a message: the            *)
(* classifiers and the regular expressions of                              *)
(* src/telegram/channel_monitor.py, and the four language models behind    *)
(* them, which answer as they like.  A text is the set of marks that the   *)
(* patterns look for, and the pairs it names, by the pattern that finds    *)
(* them.                                                                   *)
(***************************************************************************)
EXTENDS Naturals, Sequences, FiniteSetsExt

CONSTANTS NoPair, \* no pair in the text
          NotRead \* None, as a parser returns it

\* The marks of a text: the phrases of the reports, the words for the sides, a price behind "entry",
\* a number behind the side, "at market", and words of no meaning.
Marks == {"stop hit", "target hit", "profit", "percent", "vip", "took target", "last hours",
          "long", "short", "entry", "number", "market", "words"}

\* raw_text is not empty.
Speaks(t) == t.marks # {}

is_closed_trade_report(t) == {"profit", "percent", "target hit"} \subseteq t.marks
is_locked_teaser(t) == "vip" \in t.marks
is_position_update_report(t) == "took target" \in t.marks
is_daily_summary_report(t) == "last hours" \in t.marks

is_known_non_signal(t) ==
  \/ is_closed_trade_report(t) \/ is_locked_teaser(t)
  \/ is_position_update_report(t) \/ is_daily_summary_report(t)

\* The pair of the first pattern that finds one (BTC/USDT, BTCUSDT, BTCUSD, #BTC, BTC LONG), wherever
\* in the text it stands.
extract_pair(t) == IF t.pairs = <<>> THEN NoPair ELSE t.pairs[Min(DOMAIN t.pairs)]

extract_stop_hit_pair(t) == IF "stop hit" \in t.marks THEN extract_pair(t) ELSE NoPair

\* A text with words for both sides is a long.  Without a price a signal has to ask for the market.
parse_with_regex(t) ==
  IF /\ extract_pair(t) # NoPair
     /\ t.marks \cap {"long", "short"} # {}
     /\ t.marks \cap {"entry", "number", "market"} # {}
  THEN [pair |-> extract_pair(t), side |-> IF "long" \in t.marks THEN "long" ELSE "short",
        entry |-> t.marks \cap {"entry", "number"} # {}]
  ELSE NotRead
-----------------------------------------------------------------------------
(* The language models.                                                    *)

\* What comes back from a request: nothing (an error, the time is over), something that is no
\* object, an object with something else where a number should stand, no signal or not a whole one
\* or one of low confidence, or a signal.
Answers == {"nothing", "unreadable", "odd", "no signal", "signal"}

Reading(a, raising) ==
  CASE a = "signal"    -> "signal"
    [] a \in raising   -> "raises"
    [] OTHER           -> "none"

parse_with_llm(a)      == Reading(a, {"unreadable", "odd"})
parse_with_groq(a)     == Reading(a, {"odd"})
parse_with_gemini(a)   == Reading(a, {"odd"})
parse_with_cerebras(a) == Reading(a, {"odd"})

\* In the order they are asked; two of them read pictures.
ForTexts    == <<"anthropic", "groq", "gemini", "cerebras">>
ForPictures == <<"anthropic", "gemini">>

ReadBy(p, a) ==
  CASE p = "anthropic" -> parse_with_llm(a)
    [] p = "groq"      -> parse_with_groq(a)
    [] p = "gemini"    -> parse_with_gemini(a)
    [] p = "cerebras"  -> parse_with_cerebras(a)
=============================================================================

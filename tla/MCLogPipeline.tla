--------------------------- MODULE MCLogPipeline ---------------------------
(* LogPipeline for TLC: a script with the shapes of the one in the code. *)
EXTENDS LogPipeline

Entry(text, sev, card) == [text |-> text, sev |-> sev, card |-> card]

\* Distinct entries, a repeated entry, a card, a repeated entry, a card.
MCScript == << Entry("first", "INFO", FALSE),
               Entry("secu1", "INFO", TRUE),
               Entry("boarding", "WARN", FALSE),
               Entry("boarding", "WARN", FALSE),
               Entry("boarding", "WARN", FALSE),
               Entry("secu2", "INFO", TRUE) >>
=============================================================================

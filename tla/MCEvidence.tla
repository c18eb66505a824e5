----------------------------- MODULE MCEvidence -----------------------------
(***************************************************************************)
(* Before, during and after a test: the wizard that tries the candidate's  *)
(* devices, the channel that carries what is observed, the report made of  *)
(* the attempt, and what the answers and the sections come to in it.       *)
(* Nothing passes between them but time; each is explored from its own     *)
(* initial states with the others at rest.                                 *)
(***************************************************************************)
EXTENDS ReportJobs, SignalChannel, ReadinessCheck, TraitScoring, Verdict, TLC

MCTraits == {"integrity", "teamwork"}

\* Options that are skewed, silent and opposed; a version with fewer and other
\* options, and one that is ranked instead of chosen from.
MCEditions ==
    LET Silent == [t \in {} |-> 0]
        Says(w) == "integrity" :> w
        Adds(w) == "teamwork" :> w
        Choice(a, b, c, d) ==
            [ranked |-> FALSE, options |-> ("A" :> a) @@ ("B" :> b) @@ ("C" :> c) @@ ("D" :> d)]
        skewed == Choice(Adds(2), Adds(2), Adds(1) @@ Says(-1), Silent)
        renamed == [ranked |-> FALSE, options |->
                       ("A" :> Adds(-2)) @@ ("B" :> Adds(3)) @@ ("E" :> Says(1))]
    IN  ("choice" :> <<Choice(Says(3), Says(2) @@ Adds(1), Silent, Says(-3))>>)
        @@ ("skewed" :> <<skewed, renamed, [skewed EXCEPT !.ranked = TRUE]>>)
        @@ ("ranking" :> <<[Choice(Says(3) @@ Adds(-1), Says(1), Says(-2) @@ Adds(2), Adds(1))
                              EXCEPT !.ranked = TRUE]>>)

\* Two sections with right answers around one of traits, whose vocabulary is
\* changed in part and then altogether.
MCSections ==
    <<[objective |-> TRUE, questionCount |-> 3, vocabularies |-> <<>>],
      [objective |-> FALSE, questionCount |-> 3,
       vocabularies |-> <<{"integrity", "accountability", "empathy"}, {"integrity", "teamwork"}, {"openness"}>>],
      [objective |-> TRUE, questionCount |-> 1, vocabularies |-> <<>>]>>

\* Passed over, heard twice, and the extremes heard three times.
MCMeasures ==
    {[score |-> 430, count |-> 0], [score |-> 650, count |-> 2],
     [score |-> 1000, count |-> 3], [score |-> 300, count |-> 3]}

VARIABLE part

MCInit ==
    /\ Init /\ ChannelInit /\ ReadinessInit
    /\ ScoringInit /\ VerdictInit
    /\ part \in {"report", "channel", "wizard", "scoring", "verdict"}
    /\ part # "wizard" =>
        /\ world.supported /\ world.model /\ world.alone /\ world.fills /\ world.allowed

MCNext ==
    \/ part = "report" /\ Next
       /\ UNCHANGED <<channel, readiness, scoring, verdict, part>>
    \/ part = "channel" /\ ChannelNext
       /\ UNCHANGED <<vars, readiness, scoring, verdict, part>>
    \/ part = "wizard" /\ ReadinessNext
       /\ UNCHANGED <<vars, channel, scoring, verdict, part>>
    \/ part = "scoring" /\ ScoringNext
       /\ UNCHANGED <<vars, channel, readiness, verdict, part>>
    \/ part = "verdict" /\ VerdictNext
       /\ UNCHANGED <<vars, channel, readiness, scoring, part>>

\* Nothing the fairness asks for is enabled in a part at rest.
MCSpec ==
    /\ MCInit /\ [][MCNext]_<<vars, channel, readiness, scoring, verdict, part>>
    /\ Fairness
    /\ ChannelFairness
    /\ ReadinessFairness

=============================================================================

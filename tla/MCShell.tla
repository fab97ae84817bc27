------------------------------ MODULE MCShell ------------------------------
(***************************************************************************)
(* All lines of up to three tokens, and longer ones: nested pipelines,     *)
(* redirected blocks, background commands within lists and pipelines.      *)
(***************************************************************************)
EXTENDS Shell

MCTyped ==
  UNION {[1..n -> {"w", "|", "(", ")", ";", "&", "<"}] : n \in 0..3}
  \cup {<<"w", "|", "w", "|", "w">>,           <<"(", "w", "|", "w", ")", ">>", "w">>,
        <<"w", "&", ";", "w", "|", "w">>,      <<"<", "w", "w", ">", "w", "w">>,
        <<"(", "w", ";", "w", ")", "|", "w">>, <<"w", "<", "w", "|", "w", "&">>,
        <<"w", "w", "w", ";", "w">>,           <<"w", "|", "(", "w", "&", ")", "&">>}

=============================================================================

------------------------ MODULE MCPreprocessingSession ------------------------
(***************************************************************************)
(* Two honest signers, or three of which the last one is faulty.  The      *)
(* faulty signer may commit to another's material, open something else     *)
(* than it committed to, open what does not validate, or open what only    *)
(* certification refuses.                                                  *)
(***************************************************************************)
EXTENDS PreprocessingSession

CONSTANTS good, other, bad

MCPayloads == {good, other, bad}
MCUsable == {good, other}
MCInput == [p \in Everyone |-> good]
MCSetups ==
  {[signers |-> {1, 2}, faulty |-> {}, losses |-> 2,
    certifiable |-> [{1, 2} -> MCUsable]],
   [signers |-> {1, 2, 3}, faulty |-> {3}, losses |-> 1,
    certifiable |-> {f \in [{1, 2, 3} -> MCUsable] : f[3] = good}]}
=============================================================================

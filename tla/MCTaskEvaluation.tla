-------------------------- MODULE MCTaskEvaluation --------------------------
(* Two tasks whose agents may call twice in a turn. *)
EXTENDS TaskEvaluation

MCTurns == {<<>>, <<"blank">>, <<"tool", "talk">>}
MCChatty == MCTurns \cup {<<"talk", "talk">>}
=============================================================================

------------------------------ MODULE MCPivots ------------------------------
(***************************************************************************)
(* Model checking of Learning with one analyst after the other, none of    *)
(* which dies or loses the database, and seeds that are sown once: what is *)
(* left to go wrong is the cut of the voice.  A voice has room for a seed  *)
(* voice and less than five notes of full length (MAX_GUIDELINES_TOTAL,    *)
(* MAX_GUIDELINE_CHARS), so the sixth is gone.                             *)
(***************************************************************************)
EXTENDS Learning

MCProposals == { <<"voice">>, <<"style">>, <<"voice", "voice">> }

MCNext == (\E p \in Processes : ProcessStep(p)) \/ NextDay

MCSpec == Init /\ [][MCNext]_vars
=============================================================================

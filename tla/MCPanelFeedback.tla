-------------------------- MODULE MCPanelFeedback --------------------------
(***************************************************************************)
(* PanelFeedback with one panelist who opens the link in several tabs.     *)
(***************************************************************************)
EXTENDS PanelFeedback

CONSTANT panelist

MCOwner == [t \in PanelTab |-> panelist]
=============================================================================

-------------------------- MODULE MCPressureControl --------------------------
(* Two servers of different size; a minute is one unit of time.            *)
EXTENDS PressureControl

MCServer == {1, 2}
MCWeight == <<1, 2>>
=============================================================================

----------------------------- MODULE MCControl -----------------------------
(***************************************************************************)
(* Control for TLC: one member, two requests, a few seconds of two parts.  *)
(***************************************************************************)
EXTENDS Control

CONSTANT m1
=============================================================================

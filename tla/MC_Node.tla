------------------------------ MODULE MC_Node ------------------------------
(* Model-checking instance of Node: two clients, and the two bootstrap     *)
(* endpoints CLI::initialize adds.                                          *)
EXTENDS Node

CONSTANTS c1, c2, b1, b2
====

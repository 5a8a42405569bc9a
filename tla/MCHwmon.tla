------------------------------- MODULE MCHwmon -------------------------------
(* The instance of Hwmon that TLC checks.  The tables: cores alone, behind  *)
(* temperatures, and behind other energies; and malformed ones: a unit      *)
(* nobody knows, no label, a table that ends within its last metric, and    *)
(* registers of no size and of one that is neither 4 nor 8.                 *)
EXTENDS Hwmon

M(type, label, cnt, size) == [type |-> type, label |-> label, cnt |-> cnt, size |-> size]
T(base_size, metrics)     == [base_size |-> base_size, metrics |-> metrics]

SmallTables == {
  T(48,  <<M("energy", "core", 2, 8)>>),
  T(72,  <<M("temp", "other", 1, 4), M("energy", "core", 1, 8)>>),
  T(80,  <<M("energy", "other", 1, 8), M("energy", "core", 1, 8)>>),
  T(96,  <<M("unknown", "other", 0, 4), M("energy", "none", 0, 8), M("energy", "core", 1, 4)>>),
  T(64,  <<M("energy", "core", 1, 8), M("energy", "other", 1, 8)>>),
  T(33,  <<M("energy", "core", 1, 1)>>),
  T(88,  <<M("temp", "other", 1, 0), M("energy", "core", 1, 16)>>)}
==============================================================================

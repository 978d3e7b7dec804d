------------------------------- MODULE Tables -------------------------------
(***************************************************************************)
(* The maps the builders fill (std::collections::HashMap): a function from *)
(* the keys that are present.                                              *)
(***************************************************************************)

\* HashMap::extend: the entries of `new` replace those of `table`.
Extend(table, new) ==
    [k \in DOMAIN table \cup DOMAIN new |->
        IF k \in DOMAIN new THEN new[k] ELSE table[k]]

\* HashMap::insert: a value under the same key is replaced.
Put(table, key, value) == Extend(table, [k \in {key} |-> value])
=============================================================================

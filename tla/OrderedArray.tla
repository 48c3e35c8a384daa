---------------------------- MODULE OrderedArray ----------------------------
(***************************************************************************)
(* The ordered array (sys/ordered_array.c).  An array is the sequence of   *)
(* its first size elements; place_ordered_array clears the memory behind   *)
(* them, and nothing but an insertion writes there, so that an element     *)
(* beyond size reads as NULL.                                              *)
(***************************************************************************)
EXTENDS Integers, SequencesExt

NULL == 0

place_ordered_array == <<>>

(* The item goes before the first element that is not less than it; lesser *)
(* is the set of those that array->less_than says are.                     *)
insert_ordered_array(array, item, lesser) ==
    LET stop == SelectInSeq(array, LAMBDA x : x \notin lesser)
    IN  IF stop = 0 THEN Append(array, item) ELSE InsertAt(array, stop, item)

(* remove_ordered_array closes the gap, which pulls in the NULL behind the *)
(* array, and then increments size.                                        *)
remove_ordered_array(array, k) == RemoveAt(array, k) \o <<NULL, NULL>>
=============================================================================

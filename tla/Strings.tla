------------------------------ MODULE Strings ------------------------------
(***************************************************************************)
(* The string functions of sys/common.c, on buffers: functions from 0, 1,  *)
(* ... to characters, of which 0 is the terminator.  A buffer is as long   *)
(* as the memory the function may read, and holds a terminator.            *)
(***************************************************************************)
EXTENDS Integers, FiniteSetsExt

strlen(src) == Min({k \in DOMAIN src : src[k] = 0})

(* Mutant: the test after the loop is left out, so a prefix is equal.      *)
strcmp_Prefix(str1, str2) ==
    LET i == Min({k \in DOMAIN str1 \cap DOMAIN str2 :
                    str1[k] = 0 \/ str2[k] = 0 \/ str1[k] # str2[k]})
    IN  IF str1[i] = 0 \/ str2[i] = 0 THEN 0 ELSE 1

(* strcmp: 0 if the strings are equal, else 1 and never -1.                *)
strcmp(str1, str2) ==
    LET i == Min({k \in DOMAIN str1 \cap DOMAIN str2 :
                    str1[k] = 0 \/ str2[k] = 0 \/ str1[k] # str2[k]})
    IN  IF str1[i] = str2[i] THEN 0 ELSE 1

(* strcpy, as it leaves dest: without a terminator, and with at least one  *)
(* character copied.                                                       *)
strcpy(dest, src) ==
    LET n == Min({k \in DOMAIN src : k > 0 /\ src[k] = 0})
    IN  [k \in DOMAIN dest |-> IF k < n THEN src[k] ELSE dest[k]]

(* memcpy (buffer, address, len), as the bytes it leaves in buffer.        *)
memcpy(memory, address, len) == [k \in 1..len |-> memory[address + k - 1]]
=============================================================================

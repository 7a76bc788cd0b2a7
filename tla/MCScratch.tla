------------------------------ MODULE MCScratch ------------------------------
(***************************************************************************)
(* One session that edits and checks at any of three times, between two    *)
(* others that make it the least recently active; rings of two entries,    *)
(* room for two sessions.                                                  *)
(***************************************************************************)
EXTENDS Scratch

CONSTANTS s1, s2, s3, f, g

Call(session, class, files, passed, times) ==
  [session : {session}, class : {class}, files : {files}, passed : {passed},
   timestamp : times]

MCToolEvents ==
  UNION {Call(s1, "Write", {f}, TRUE, 1..3),   Call(s1, "Write", {g}, TRUE, {2}),
         Call(s1, "Check", {f}, TRUE, 1..3),   Call(s1, "Check", {f, g}, FALSE, 1..3),
         Call(s1, "Check", {f, g}, TRUE, {1}),
         Call(s2, "Write", {f}, TRUE, {1}),    Call(s3, "Check", {g}, FALSE, {1})}
MCRuleFiles == {{g}}
=============================================================================

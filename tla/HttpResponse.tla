---------------------------- MODULE HttpResponse ----------------------------
(***************************************************************************)
(* What MakeResponse (http/http_response.cc) makes of the code that        *)
(* Process gives it, by the kind of the file that the path names.          *)
(***************************************************************************)
EXTENDS Naturals

(* A path may name a file, one that has no bytes, one that others may not  *)
(* read, a directory, or nothing.                                          *)
Kinds == {"file", "empty", "private", "directory", "missing"}

(* stat and S_IROTH.  Process never leaves the code -1.                    *)
ResCode(code, kind) == CASE kind \in {"missing", "directory"} -> 404
                         [] kind = "private" -> 403
                         [] OTHER -> code

(* What open and mmap come to.  open may fail for a file that is there,    *)
(* for want of a descriptor or of a right.  mmap may fail, and of a        *)
(* directory or of no bytes it does: its result is read nevertheless, which*)
(* ends the process.  A file that begins with the bytes of -1 is taken for *)
(* one that could not be mapped.                                           *)
Contents(kind) == CASE kind = "missing" -> {"error"}
                    [] kind \in {"file", "private"} -> {"file", "error", "fault"}
                    [] OTHER -> {"error", "fault"}

MakeResponse(code, keep, kind) ==
  [code : {ResCode(code, kind)}, keep : {keep}, content : Contents(kind)]
=============================================================================

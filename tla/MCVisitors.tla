---------------------------- MODULE MCVisitors ----------------------------
(* The visitors that the run tries. *)
EXTENDS Visitors

Overflows == {"additional", "oldest"}

MCVisitors ==
  [kind : {"inspect_lines", "inspect_chunks"}]
    \cup [kind : {"collect_lines"}, overflow : {"unbounded"}]
    \cup [kind : {"collect_lines"}, overflow : Overflows, max_bytes : {2}, max_lines : {0, 2}]
    \cup [kind : {"collect_lines"}, overflow : Overflows, max_bytes : {3}, max_lines : {3}]
    \cup [kind : {"collect_chunks"}, overflow : {"unbounded"}]
    \cup [kind : {"collect_chunks"}, overflow : Overflows, max_bytes : {0, 3}]
    \cup [kind : {"write_lines"}, mode : {"AsIs", "AppendLf"}, options : {"with_error_handler"}]
    \cup [kind : {"write_lines"}, mode : {"AppendLf"}, options : {"fail_fast", "log_and_continue"}]
    \cup [kind : {"write_chunks"}, options : {"with_error_handler"}]
    \cup [kind : {"wait_for_line"}, target : {0, 2}]
=============================================================================

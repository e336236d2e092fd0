--------------------------- MODULE MCHttpChannel ---------------------------
(* A connection with two requests.                                           *)
EXTENDS HttpChannel

\* A request without and one with a second header, with bodies of one and of
\* two bytes.
MCRequests ==
    << <<"x", "CR", "LF", "Content-Length", ":", "1", "CR", "LF", "CR", "LF", "x">>,
       <<"x", "CR", "LF", "content-length", ":", "2", "CR", "LF",
         "x", ":", "x", "CR", "LF", "CR", "LF", "x", "x">> >>
=============================================================================

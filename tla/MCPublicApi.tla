----------------------------- MODULE MCPublicApi -----------------------------
EXTENDS PublicApi

\* Image 3 is larger than the largest size that may be asked for; nobody knows
\* how large image 1 is.
MCOwn(i) == CASE i = 1 -> 0 [] i = 2 -> 4 [] i = 3 -> 6

Plain == [route |-> "random", id |-> 1, w |-> 2, h |-> 0, ext |-> "",
          blur |-> "absent", amount |-> 0, gray |-> FALSE]

\* Each route, an image of unknown size with and without a size, and the boundaries of each parameter.
MCRequests ==
    {[Plain EXCEPT !.route = "id", !.id = 3],
     [Plain EXCEPT !.route = "id", !.h = 3],
     [Plain EXCEPT !.route = "id"],
     [Plain EXCEPT !.route = "seed", !.ext = ".WEBP", !.gray = TRUE],
     [Plain EXCEPT !.route = "g", !.blur = "bare"],
     [Plain EXCEPT !.route = "image", !.w = 5, !.blur = "number", !.amount = 1],
     [Plain EXCEPT !.route = "author", !.blur = "number", !.amount = 3],
     [Plain EXCEPT !.w = 6],
     [Plain EXCEPT !.w = 8],
     [Plain EXCEPT !.ext = ".png"],
     [Plain EXCEPT !.blur = "number"],
     [Plain EXCEPT !.blur = "number", !.amount = 4]}
=============================================================================

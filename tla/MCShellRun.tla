----------------------------- MODULE MCShellRun -----------------------------
(* Command lines with every kind of command and every way they nest, small  *)
(* enough that all interleavings of their processes can be looked at.       *)
EXTENDS ShellRun

w == execcmd("writer")
f == execcmd("filter")

MCCommands == {
  execcmd("nothing"), execcmd("missing"),
  pipecmd(w, f),                                  \* w | f
  pipecmd(w, pipecmd(f, f)),                      \* w | f | f
  pipecmd(listcmd(w, w), redircmd(f, 1, 1)),      \* (w; w) | f > 1
  pipecmd(redircmd(f, 0, 1), w),                  \* f < 1 | w
  listcmd(backcmd(w), redircmd(f, 0, 2)),         \* w & ; f < 2
  listcmd(pipecmd(w, f), w),                      \* w | f ; w
  backcmd(pipecmd(w, f)),                         \* w | f &
  pipecmd(backcmd(w), f),                         \* (w &) | f
  redircmd(redircmd(listcmd(f, w), 0, 1), 1, 1)}  \* (f; w) < 1 > 1

MCTrees == MCCommands \cup {
  w, f, backcmd(w), listcmd(w, w), listcmd(f, w), pipecmd(f, f),
  redircmd(f, 1, 1), redircmd(f, 0, 1), redircmd(f, 0, 2), redircmd(listcmd(f, w), 0, 1)}
=============================================================================

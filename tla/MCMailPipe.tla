----------------------------- MODULE MCMailPipe -----------------------------
EXTENDS MailPipe, TLC
CONSTANTS w1, w2
Block == <<1>>
\* The other row pipes its mail to nobody: it only shares the file.
ScanAndPipe == w1 :> <<"scan", "pipe">> @@ w2 :> <<>>
PipeTwice   == w1 :> <<"pipe", "pipe">> @@ w2 :> <<>>
=============================================================================

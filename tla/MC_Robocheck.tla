---------------------------- MODULE MC_Robocheck ----------------------------
EXTENDS Robocheck

\* A short message, one that fills most of LoggerBuff, and one longer than
\* LoggerBuff.
MsgLensMC == {40, 1000, 2000}

\* NULL and empty arguments among short ones, one argument that forces a
\* realloc, two that end two bytes short of max_len, one longer than
\* 2 * MAX_BUFF_SIZE, and argc = 0.
ArgListsMC == {<<3, -1, 0, 5>>, <<600>>, <<500, 9>>, <<1100>>, <<>>}
=============================================================================

--------------------------- MODULE MCEpollReactor ---------------------------
EXTENDS EpollReactor

CONSTANTS h1, h2, t1, t2

MCHandles == {h1, h2}
MCTokens == {t1, t2}
MCInterests == {{"Readable"}, {"Writable", "Error"}}
MCWorlds == {{}, {"EPOLLIN", "EPOLLERR"}, {"EPOLLOUT", "EPOLLHUP"}}
=============================================================================

\* The file is rewritten in place while it is being loaded.
CONSTANTS
    NoThread = NoThread
    Threads = {t1}
    MaxNow = 5
SPECIFICATION InPlaceSpec
PROPERTY EventuallyLoaded
